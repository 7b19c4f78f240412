---------------------------- MODULE ResultBuffer ----------------------------
(***************************************************************************)
(* ParallelResultBuffer (multi_threaded/result_buffer.rs): the results as a *)
(* linked list of shards, which threads read and write without a lock while *)
(* others grow the list under one.                                          *)
(*                                                                          *)
(* A shard, once allocated, is a number; shard 0 is the head.  Its cells    *)
(* and its next pointer are accessed through raw pointers: a thread that    *)
(* finds a next pointer set while another thread still stores the rest of   *)
(* it may read the shard or a torn value, which sends it anywhere ("wild"). *)
(***************************************************************************)
EXTENDS Naturals, FiniteSets

CONSTANTS
    Callers,    \* the coordinator and the workers
    shard_size, \* cells per shard: the size hint
    MaxIds      \* bound: result ids in use

ASSUME ResultBufferAssumption == shard_size \in Nat \ {0} /\ MaxIds \in Nat

BufferIds == 0 .. MaxIds - 1
Shards    == 0 .. MaxIds  \* every growth is for an id, so there are enough
None      == MaxIds + 1   \* a next pointer that is None

VARIABLES
    next_shard, \* per shard, the next one or None
    allocated,  \* number of shards ever allocated
    cells,      \* <<shard, offset>> of the cells that hold a value
    n_shards,   \* the count that is kept beside the list
    grow_lock,  \* the threads that hold the lock
    storing,    \* shards whose next pointer is set but not fully stored
    thread,     \* per thread, the call it is in
    claimed,    \* ids that some thread writes or has written
    written     \* ids whose set has returned

bufferVars == <<next_shard, allocated, cells, n_shards, grow_lock, storing, thread,
                claimed, written>>

\* A call: what it does, for which id, the shard it stands at, how many shards it
\* has still to go, and whether the id was written when it began.
Idle == [pc |-> "idle", op |-> "get", id |-> 0, at |-> 0, left |-> 0, known |-> FALSE]
Thread == [pc : {"idle", "seek", "lock", "grow", "store", "count", "access", "found",
                 "missing", "wild"},
           op : {"get", "set"}, id : Nat, at : Shards, left : Nat, known : BOOLEAN]

BufferInit ==
    /\ next_shard = [s \in Shards |-> None]
    /\ allocated = 1
    /\ cells = {}
    /\ n_shards = 1
    /\ grow_lock = {}
    /\ storing = {}
    /\ thread = [t \in Callers |-> Idle]
    /\ claimed = {}
    /\ written = {}

-----------------------------------------------------------------------------
\* Mutant: the offset is the id.
Offset_NoModulo(id) == id

\* get_shard_and_offset.
ShardIdx(id) == id \div shard_size
Offset(id)   == id % shard_size

\* get or set begins at the head.  Ids are unique and an operation runs once, so
\* an id is set by one call.
Begin(t, op, id) ==
    /\ thread[t].pc \in {"idle", "found", "missing"}
    /\ op = "set" => id \notin claimed
    /\ claimed' = IF op = "set" THEN claimed \cup {id} ELSE claimed
    /\ thread' = [thread EXCEPT ![t] =
           [pc |-> "seek", op |-> op, id |-> id, at |-> 0, left |-> ShardIdx(id),
            known |-> id \in written]]
    /\ UNCHANGED <<next_shard, allocated, cells, n_shards, grow_lock, storing, written>>

\* seek_to_shard, one pointer: None ends a get and makes a set grow the list.
Seek(t) ==
    /\ thread[t].pc = "seek"
    /\ LET c    == thread[t]
           none == IF c.op = "get" THEN "missing" ELSE "lock"
       IN \/ /\ c.left = 0
             /\ thread' = [thread EXCEPT ![t].pc = "access"]
          \/ /\ c.left > 0 /\ next_shard[c.at] # None
             /\ thread' = [thread EXCEPT ![t].at = next_shard[c.at], ![t].left = @ - 1]
          \/ /\ c.left > 0 /\ next_shard[c.at] = None
             /\ thread' = [thread EXCEPT ![t].pc = none]
          \/ /\ c.left > 0 /\ c.at \in storing
             /\ thread' = [thread EXCEPT ![t].pc = "wild"]
    /\ UNCHANGED <<next_shard, allocated, cells, n_shards, grow_lock, storing, claimed,
                   written>>

\* The i-th shard after s along the list.
Walk(s) ==
    LET w[j \in 0 .. MaxIds] == IF j = 0 THEN s
                                ELSE IF w[j - 1] = None THEN None
                                ELSE next_shard[w[j - 1]]
    IN w

\* Mutant: the count is not looked at again under the lock.
Lock_NoRecheck(t) ==
    /\ thread[t].pc = "lock" /\ grow_lock = {}
    /\ grow_lock' = {t}
    /\ thread' = [thread EXCEPT ![t].pc = "grow"]
    /\ UNCHANGED <<next_shard, allocated, cells, n_shards, storing, claimed, written>>

\* Mutant: one shard too few is asked for.
Lock_OffByOne(t) ==
    /\ thread[t].pc = "lock" /\ grow_lock = {}
    /\ LET n == ShardIdx(thread[t].id) IN
         IF n_shards >= n
         THEN /\ thread' = [thread EXCEPT ![t].pc = "access", ![t].at = Walk(0)[n - 1],
                                          ![t].left = 0]
              /\ UNCHANGED grow_lock
         ELSE /\ thread' = [thread EXCEPT ![t].pc = "grow",
                                          ![t].at = Walk(0)[n_shards - 1],
                                          ![t].left = n - n_shards]
              /\ grow_lock' = {t}
    /\ UNCHANGED <<next_shard, allocated, cells, n_shards, storing, claimed, written>>

\* grow_to_n_shards takes the lock and looks at the count again: the list may have
\* been grown meanwhile.  Otherwise it starts from the last shard.
Lock(t) ==
    /\ thread[t].pc = "lock" /\ grow_lock = {}
    /\ LET n == ShardIdx(thread[t].id) + 1 IN
         IF n_shards >= n
         THEN /\ thread' = [thread EXCEPT ![t].pc = "access", ![t].at = Walk(0)[n - 1],
                                          ![t].left = 0]
              /\ UNCHANGED grow_lock
         ELSE /\ thread' = [thread EXCEPT ![t].pc = "grow",
                                          ![t].at = Walk(0)[n_shards - 1],
                                          ![t].left = n - n_shards]
              /\ grow_lock' = {t}
    /\ UNCHANGED <<next_shard, allocated, cells, n_shards, storing, claimed, written>>

\* Allocate a shard and begin to store the pointer: the word that tells Some from
\* None is there ...
Grow(t) ==
    /\ thread[t].pc = "grow"
    /\ next_shard' = [next_shard EXCEPT ![thread[t].at] = allocated]
    /\ allocated' = allocated + 1
    /\ storing' = storing \cup {thread[t].at}
    /\ thread' = [thread EXCEPT ![t].pc = "store"]
    /\ UNCHANGED <<cells, n_shards, grow_lock, claimed, written>>

\* ... the store is over: go on from the new shard.
Store(t) ==
    /\ thread[t].pc = "store"
    /\ storing' = storing \ {thread[t].at}
    /\ thread' = [thread EXCEPT ![t].at = next_shard[thread[t].at], ![t].left = @ - 1,
                                ![t].pc = IF thread[t].left > 1 THEN "grow" ELSE "count"]
    /\ UNCHANGED <<next_shard, allocated, cells, n_shards, grow_lock, claimed, written>>

\* Mutant: the count goes up by one, however many shards were added.
SetCount_Increments(t) ==
    /\ thread[t].pc = "count"
    /\ n_shards' = n_shards + 1
    /\ grow_lock' = {}
    /\ thread' = [thread EXCEPT ![t].pc = "access"]
    /\ UNCHANGED <<next_shard, allocated, cells, storing, claimed, written>>

\* Mutant: the lock is not dropped.
SetCount_KeepsLock(t) ==
    /\ thread[t].pc = "count"
    /\ n_shards' = ShardIdx(thread[t].id) + 1
    /\ thread' = [thread EXCEPT ![t].pc = "access"]
    /\ UNCHANGED <<next_shard, allocated, cells, grow_lock, storing, claimed, written>>

\* Set the new number of shards, drop the lock and return the last shard.
SetCount(t) ==
    /\ thread[t].pc = "count"
    /\ n_shards' = ShardIdx(thread[t].id) + 1
    /\ grow_lock' = {}
    /\ thread' = [thread EXCEPT ![t].pc = "access"]
    /\ UNCHANGED <<next_shard, allocated, cells, storing, claimed, written>>

\* Read or write the cell.
Access(t) ==
    /\ thread[t].pc = "access"
    /\ LET c    == thread[t]
           cell == <<c.at, Offset(c.id)>>
       IN IF c.op = "set"
          THEN /\ cells' = cells \cup {cell}
               /\ written' = written \cup {c.id}
               /\ thread' = [thread EXCEPT ![t] = Idle]
          ELSE /\ thread' = [thread EXCEPT ![t].pc = IF cell \in cells THEN "found"
                                                     ELSE "missing"]
               /\ UNCHANGED <<cells, written>>
    /\ UNCHANGED <<next_shard, allocated, n_shards, grow_lock, storing, claimed>>

-----------------------------------------------------------------------------
CallerStep(t) == Seek(t) \/ Lock(t) \/ Grow(t) \/ Store(t) \/ SetCount(t) \/ Access(t)

BufferNext ==
    \E t \in Callers :
        \/ CallerStep(t)
        \/ \E op \in {"get", "set"}, id \in BufferIds : Begin(t, op, id)

BufferSpec == BufferInit /\ [][BufferNext]_bufferVars

\* A thread that is in a call goes on.  The lock needs no fairness of its own: it
\* is taken at most once per id.
FairBufferSpec == BufferSpec /\ \A t \in Callers : WF_bufferVars(CallerStep(t))

-----------------------------------------------------------------------------
\* Every variable has its type.
BufferTypeOK ==
    /\ next_shard \in [Shards -> Shards \cup {None}]
    /\ allocated \in 1 .. MaxIds + 1
    /\ cells \in SUBSET (Shards \X (0 .. shard_size - 1))
    /\ n_shards \in 1 .. MaxIds + 1
    /\ grow_lock \in SUBSET Callers
    /\ storing \in SUBSET Shards
    /\ thread \in [Callers -> Thread]
    /\ claimed \in SUBSET BufferIds
    /\ written \in SUBSET claimed

\* A value stays where every later call looks for it: the list from the head
\* reaches the shard it was written to, however many threads grew the list at
\* once from a count that was stale when they asked for the lock.
WrittenIsReachable ==
    \A id \in written :
        LET s == Walk(0)[ShardIdx(id)] IN s # None /\ <<s, Offset(id)>> \in cells

\* A get that begins after the set of its id has returned finds the value.
ReadAfterWrite ==
    \A t \in Callers : thread[t].pc = "missing" => ~thread[t].known

\* With no growth in progress the count is the length of the list.
CountExact ==
    grow_lock = {} => /\ Walk(0)[n_shards - 1] # None
                      /\ next_shard[Walk(0)[n_shards - 1]] = None

\* Every set of a thread that did not follow a torn pointer returns.
SetReturns ==
    \A t \in Callers :
        thread[t].op = "set" ~> (thread[t].pc \in {"idle", "wild"} \/ thread[t].op = "get")
=============================================================================
