# A verification project for ark-mpc

The repository is `ark-mpc`, a framework for two-party, maliciously secure
computation in the SPDZ style.  A program overloads arithmetic on secret-shared
values; every operator call adds a gate to a circuit, an executor runs the gates
as their arguments become available, and a network task exchanges values with the
other party.  This directory holds TLA+ models of that machinery, the TLC runs
that check them, and TLAPS proofs about them.

    tlc -workers 4 -config SerialExecutor.cfg MCSerialExecutor    # one run
    for m in *Proofs.tla ; do tlapm $m ; done                     # the proofs

`PROJECT.json` lists components, runs, mutants, the map from definitions to
source lines, findings, hazards and theorems.

## 1. Inventory

Paths are relative to `src/online-phase/src` unless they say otherwise.

| Component | State | Operations | Interacts with |
|---|---|---|---|
| `MpcFabric` (`fabric.rs`) | two atomic counters (`next_result_id`, `next_op_id`), the job queue, the outbound channel, the shutdown broadcast, the preprocessing source behind a mutex | allocate values, receive values, `new_op` for gates, batches and network operations, `register_waiter`, `shutdown` | pushes jobs to the executor from any thread |
| `ResultHandle` (`fabric/result.rs`) | result ids, an `Option` buffer shared with the executor | `poll` | pushes one `ResultWaiter`, is woken by the executor |
| `SerialExecutor` (`fabric/executor/single_threaded.rs`) | results, buffered operations with `inflight_args`, dependency map, waiter map | one handler per job | pops the job queue; sends payloads; fills buffers and wakes tasks |
| `ParallelExecutor` (`fabric/executor/multi_threaded/executor.rs`) | the same, split between a coordinator (mask, operations, dependencies, waiters) and a pool; cells shared through raw pointers | the same handlers, `ResultsReady`, and the workers' `compute_result` | workers push `ResultsReady` into the coordinator's own queue |
| `ParallelResultBuffer` (`.../result_buffer.rs`) | linked list of shards, its count, a growth lock | `get`, `set`, growth | read without a lock while it grows |
| `GrowableBuffer`, `ResultMask` | vectors that grow to the index asked for | get, insert, mark | private to one executor |
| `NetworkSender` (`fabric/network_sender.rs`) | the two halves of the network, the outbound channel | read loop, write loop, select with the shutdown signal | read loop pushes `Result` jobs; write loop drains payloads |
| `QuicTwoPartyNet` (`network/quic.rs`, `network/stream_buffer.rs`) | `buffered_outbound`, `buffered_inbound`, `buffered_message_length` | Sink and Stream polls, connect, close | QUIC stream of the `quinn` library |
| Authenticated scalars, points, polynomials (`algebra/`) | ids of shares | arithmetic, Beaver multiplication, opening with MAC check | builds operations of the fabric |
| `commitment.rs`, `gadgets.rs` | none | hash commitments; xor, prefix products | builds operations |
| Polynomials (`algebra/poly/`, the FFTs of `algebra/scalar`) | coefficients, as results of the fabric | ring operations, evaluation, FFT multiplication, inversion mod x^t, floor division, opening, mixed with arkworks polynomials | builds gates with as many result ids as the allocated degrees say |
| `offline_prep.rs` | trait | masks, bits, triples, inverse pairs | called under the fabric's mutex |
| LowGear (`src/offline-phase/src/lowgear`, `structs.rs`) | keys, MAC shares, pools of triples, bits, inverses, masks | key exchange, five generators made of sub-protocols that alternate sends and receives, `get_offline_result`, `append_*`, `next_*` | network of the same kind; its pools are the online phase's preprocessing source |
| `src/mp-spdz-rs` | handles of C++ objects | homomorphic encryption | used by LowGear |

What is hard in it, and what correctness means for each part:

* **Executors.**  Ids are taken, operations pushed, results delivered by the peer
  and waiters registered by different threads in any order.  An operation must run
  exactly once, after all of its arguments, on their values; a counter
  (`inflight_args`) and a multi-map (`dependencies`) must agree although repeated
  and already available arguments are registered like the others.
* **Handles.**  Registration of the waiter, insertion of the result and the read
  of the buffer are three steps of two threads: no order may lose the wake-up, and
  what is delivered must be the awaited result.
* **The pool.**  A written output, the notification about it and its mark are
  three different moments; the coordinator must count by the mark, workers must
  find what is marked.
* **The sharded buffer.**  Values may not be lost when several threads find the
  same shard missing.
* **The stream.**  A pending poll drops its future, so partial headers, bodies
  and writes must survive in fields; messages stay whole and in order.
* **Failure and shutdown.**  A loop of the network ends on an error; shutdown is
  a job in a queue beside a broadcast, on any clone of the fabric, while payloads are
  queued or half written.  Nothing that was sent may be lost by it, and it must end.
* **Protocols.**  Both parties build the same circuit and take the same ids; in an
  opening commitments should precede what they commit to; the pools of the offline
  phase are consumed in step.
* **The offline phase.**  Two tasks run the same nested protocols over one stream; a
  wrong order of send and receive blocks both, one bad message must stop both before
  anything is stored, and index k of a pool must pair with index k of the peer's after
  any sequence of generators, restarts and requests.
* **Polynomials.**  A circuit is built from allocated degrees, its gates compute real
  ones.  Where the two differ, quotients are wrong or result ids stay unwritten, and a
  task that awaits them never returns.

The hazards list of `PROJECT.json` has each of these at its line.

## 2. Modules

| Module | Models | State ↔ code |
|---|---|---|
| `Fabric` | `fabric.rs`, `result.rs`, the read loop's push | `next_result_id`, `next_op_id`, `job_queue` are the fields of those names; `call` is the program counter of each thread inside a fabric call; `buffer`, `registered` the fields of a handle and its waiter; `task`, `current`, `woken` the async runtime's side of a poll |
| `SerialExecutor` | the single threaded executor, over `Fabric` | `results`, `inflight_args`, `dependencies`, `waiters` are the executor's maps; `batch`, `ops_queue`, `produced`, `scan` are the loops of the job in progress |
| `Dataflow` | the abstract specification both executors implement | write-once values of a growing graph |
| `ParallelExecutor` | coordinator, ready mask and pool, over `Fabric` | the same maps, `ready_mask`, and one pool task per operation |
| `ResultBuffer` | the sharded buffer by itself | shards as numbers, `next_shard`, cells, `n_shards`, `grow_lock`, and the program counter of each thread |
| `QuicStream` | one direction of the link, and the teardown of one party's fabric around it (`network_sender.rs`, `MpcFabric::shutdown`) | the three buffer fields, `wire` for the bytes inside quinn; `n_queued` is the outbound queue, `fabrics` the clones of the fabric, `calls` those between the two steps of `shutdown`, `signal` the broadcast, `run` the select of `NetworkSender::run` |
| `Field` | the plaintext algebra (`algebra/scalar/scalar.rs`, `algebra/curve/curve.rs`) | constants with the axioms of a field and of a module over it |
| `Shares` | `algebra/*/share.rs`, the protocols over sharings, `gadgets.rs`, `commitment.rs`, the MAC check | `key` is each party's MAC key share; everything else is an operator |
| `IdealCircuit` | the abstract specification of a circuit | `circuit` is the list of gates, `clear` the value of each wire |
| `ShareCircuit` | every operation of the public and the authenticated scalars and points, as gates of a growing circuit | `tape[w][p]` is party `p`'s value of wire `w`; `opening` the outcome of the last authenticated opening |
| `Fhe` | the plaintexts and ciphertexts of `mp-spdz-rs`, by slots | operators; a ciphertext is its slots and the party whose key opens it |
| `LowGear` | the offline phase of both parties, message by message, and `LowGearPrep` | `party[p].lg` is the LowGear struct, `.prep` the LowGearPrep, `.prog` what is left of the running call, `.mem` its local variables, `.calls` what the application calls next; `wire[p]` the messages on their way to `p`; `dev` the deviation |
| `Polynomials` | `algebra/poly`, `fft_with_domain` and `ifft_with_domain` | `acc` and `arg` are polynomials: a kind (arkworks, public, shared) and the allocated coefficients, each written or not; `last` is the operation just done, with its operands |
| `FabricProofs` | lemmas about `Fabric` that the proofs of both executors use: types, the flow of ids and jobs, the values that come from outside | |
| `SerialExecutorProofs` | theorems about `SerialExecutor`: types and delivery; dispatch of operations and the refinement of `Dataflow` | the second extends the first |
| `ParallelExecutorProofs` | theorems about `ParallelExecutor`: types, dispatch, the refinement of `Dataflow`; about its `ResultBuffer` | the names of `ResultBuffer` are its own (`BufferSpec`, ...), so that the module can extend both |
| `QuicStreamProofs` | theorems about `QuicStream` | |
| `SharesProofs`, `ShareCircuitProofs` | theorems about the operators of `Shares`; about circuits of them, `ShareCircuit` | the second extends the first |
| `LowGearProofs` | about `LowGear`: the rounds of commit and reveal; what each sub-protocol and generator does when the two parties run it in lock-step | extends `SharesProofs` |
| `LowGearHonestProofs` | theorems about honest runs of `LowGear`, in any interleaving | extends `LowGearProofs` |
| `MCSerialExecutor`, `MCParallelExecutor`, `MCQuicStream`, `MCShareCircuit`, `MCLowGear`, `MCPolynomials` | constants for TLC | |

Conventions.  `Option<T>` is a sequence of length at most one.  The function of a
gate is a constant operator `Apply(r, args)` per output id, arbitrary in the
proofs, and in the runs an injective-enough affine function over residues mod 11,
so that swapped, stale or wrong arguments show.  A step is what other threads can
tell apart: `new_op` is three steps (output ids, op id, push) because other threads
can get in between; a handler of the executor is split at its loop iterations,
because handles can be polled and jobs pushed meanwhile.  An unwrap or assertion
that fails sets `status` to `panicked`.  A definition called `X_Something`, marked
"Mutant", is a plausible bug in `X`; it is used by no specification and only serves
to show that the properties notice it.

`Fabric` lets any id after the constants turn out to be the peer's (`remote`, chosen
in `Init`): both parties run the same program, so an id is either allocated on this
side or received.  A message of the peer may come at any time, also before the local
program has taken the id.

Memory.  The cells of the sharded buffer and its next pointers are `AtomicCell`s
that are read through `as_ptr`, without synchronisation.  The models give a write a
beginning and an end.  In `ParallelExecutor` a read that overlaps sees `None`, the
value, or an element of `RacyReads`; in `ResultBuffer` a thread that follows a
pointer which is being stored may end up `wild`.  The passing runs of
`ParallelExecutor` set `RacyReads = {}`, that is, they assume that the reading side
sees either state; the violation run `parallel_race` shows that the overlap which
needs this assumption does occur.

The share algebra.  The source writes each operation for scalars and again, with the
same text, for points; `Plus`, `Neg` and `Times` are overloaded over both, so `Shares`
has one definition of each.  A sharing is a function from the two parties to their
shares.  `ShareCircuit` has one action per public method or operator: a gate names its
operation, its argument wires and the kind of its result; the action appends the gates
of one call and what each party holds for them.  Forms of an operator which only differ
in how Rust borrows or captures an argument are one action; batch forms that the source
implements separately are actions of their own.  The refinement mapping to
`IdealCircuit` sends a shared wire to the sum of its shares and a public one to party
0's copy; it keeps `circuit`.

What this abstracts, and what it takes for granted:

* a network round is evaluated in place (both parties send, both hold the sum); the
  delivery of messages and the order in which gates run is the subject of `Dataflow`
  and its refinements;
* the preprocessing phase is its trait's contract: correct, authenticated, freshly
  split shares (`Deal`), with randomness from the deterministic `Rand(seed, i)`, since
  the properties have to hold for every draw;
* the masks of inversions and prefix products are not zero, which holds except with
  probability 1/|F|; an inverse pair never has a zero;
* a zero divisor in the clear unwraps `None` and panics: such gates are not allocated;
* XOR is defined on bits only, and only bits are given to it.  `bit_xor_public` and
  `bit_xor_public_batch` compute the same by different operators and are two actions;
* `modify_mac` and `modify_share`, which the tests use to play a dishonest party, write
  their wire; a modified wire is opened, never computed on;
* a hash commitment is the pair of its arguments, so it is binding and says nothing
  about hiding; in `Verdict` the commitments are compared after both parties have revealed,
  since the source orders neither against the other.

The executors.  A gate computes one value for each of its result ids (`Apply`), and a send
does not fail: outputs that are fewer than the ids, which the executors' `zip` leaves
unwritten, are modelled in `Polynomials`, where gates of that kind are built, and the
`expect` on the outbound channel in `QuicStream`, where the channel can close.

The offline phase.  Every `async fn` of LowGear is an operator that gives the sequence of
steps it awaits through, its sub-protocols inlined: `exchange` is a send and a receive in
the order of the party, `commit_reveal` two exchanges around a hash, `open_and_check_macs`
an opening, a joint coin toss and a commit-reveal, and so on up to `generate_triples`.
A task runs its local steps together up to the next send or receive, because nobody else
can see them.  A failed check, an assertion or an unwrap ends the task; the peer then finds
the stream closed.  (The source returns an `Err`; an application that ignores it and goes on
with the same LowGear is not modelled.)  What a model of one protocol run has to fix, and how:

* the encryption is exact, by slots, and bound to the key of its owner; noise, proofs of
  knowledge and their verification are the C++ library's and are taken to work;
* a deviation is one error, added by one party to one value of one message, at any message
  of the phase (`SendWrong`).  A random check misses an error with probability 1/|F|; the
  draws are fixed, and the field is large enough for them to catch every error of the run;
* input masks and shared randomness are not checked by the protocol when they are
  generated, so the deviating scenario does not generate them;
* `get_offline_result` clones the pools, so what an application does after it decides
  whether triples are used twice.  The scenarios have applications that take the result
  after their last generator, that start again from the setup parameters, and (`Copies`)
  that take it before a generator, twice, or append the same pools again.  The ghost field
  `used` logs each triple when the offline phase consumes it, when it is copied and when it
  is handed to the online phase.

Polynomials.  A coefficient is a wire that is written or never will be (`GateBatch`): the
executor zips the outputs of a batch gate with its result ids, so missing outputs leave
ids unwritten and everything that depends on them as well.  The operations are the
source's, on allocated lengths; the properties read the same polynomials in the clear and
compare with the textbook.  Public, shared and arkworks operands meet in every combination
for which the source has an operator.  The Fourier transform is the plain sum over the
powers of a root of unity.  The extended Euclidean algorithm
(`compute_bezout_polynomials`, `poly/mod.rs`) and `poly_inverse_mod_xt` are the source's;
what they call of arkworks (`divide_with_q_and_r`, multiplication, subtraction, the trimming
of leading zeros) is external.  Opening a polynomial is opening its coefficients; the MAC
check of `open_authenticated` and its error are those of the batched openings of
`ShareCircuit`.

## 3. Runs

| Run | Bounds | Shows |
|---|---|---|
| `serial_executor` | 2 threads, 1 handle, 1 waker, 1 constant, 3 result ids, 2 operations of up to 2 arguments and 2 outputs, any ids remote; 369 k states | no unwrap fails, `inflight_args` is exact at every step, no payload is sent twice; refinement of `Dataflow`; delivered values are the awaited ones; every await ends or the fabric is shut down |
| `serial_moved` (violation) | 2 wakers | a handle polled by a second task is not woken: the comment in `poll` says it registers the current waker |
| `parallel_safety` | 3 operations of up to 2 arguments and 1 output, 4 ids; 2.7 M states | no panic on any thread, marks run behind writes, counters exact, operations run once |
| `parallel_await` | 2 operations, 2 outputs, 1 handle; 0.5 M states | refinement of `Dataflow` and no lost wake-up with workers |
| `parallel_race` (violation) | 1 operation | a waiter's read overlaps a worker's write of the same cell, which the buffer's doc excludes |
| `result_buffer` | 2 threads, shards of 2 cells, 5 ids (3 shards); 64 k states | no written value is unreachable or missed, the count is the length, every set returns |
| `quic_stream` | 3 messages of two lengths, header of 3 bytes, window of 8, two clones of the fabric at the writing or the reading party; 197 k states | bytes in transit are always a gapless run of the byte stream and messages arrive in order; without a loss no loop, executor or first shutdown fails; what the executor sent arrives, whoever shuts down meanwhile; of a fabric that is shut down and dropped, the executor, `run` and the write loop end with nothing unsent (`SendingSideEnds`) |
| `share_circuit` | both parties, field and group of order 5, MAC key 4 split as 1 + 3, batches of at most 2; programs of 1 shared input and 2 gates, and of 5 inputs of every kind and 1 gate; exponents 1, 2, 3, 5; 337 k states | refinement of `IdealCircuit` (every wire's shares add up to its value in the clear); MACs stay authentic; openings accept honest wires and reject modified ones |
| `share_pow` (violation) | the same, exponents 0, 1, 2 | a shared `pow(0)` is 0 |
| `low_gear` | both parties, field of order 31, 3 slots, batches of 2 plaintexts (6 triples); 40 scenarios: a full phase with every kind of request, two appended batches, a restart, triples copied before a generator, twice or appended again, every pair of generators, calls that fail, parties that call different generators, and a phase with an error of 1 or 12 in any one message; 11 k states | pools of the two parties pair up and are authenticated even if one message is wrong; requests hand out matching shares; no triple is used by two generators, copied after its use, or handed out more often than it was copied (`TriplesFresh`); honest parties are not accused and stop alike; reveals follow the peer's commitment; both tasks always end |
| `polynomials` | field of order 17 with roots of unity up to order 16; 3 by 5 coefficient lists of at most 3, with zero constants, leading zeros and the zero polynomial, in all 9 mixes of kinds; programs of 2 operations, moduli x^0 to x^3, one draw with an unlucky mask; 63 k states | ring operations agree with the clear ones and keep MACs; a quotient by a divisor with a non-zero leading coefficient is that of floor division once it is written, and is always written by an arkworks divisor or between public polynomials without leading zeros (`QuotientExact`); written inverses are inverses mod x^t |
| `division` (violation) | a shared polynomial of degree 2 and the public x; public polynomials of degree 0 and 2; 2 operations | the shared quotient by x is never written |

Why the bounds are enough.  Two operations of two arguments are needed for a chain,
for a repeated argument and for one ready and one missing argument; two threads for
pushes that overtake each other's ids.  The parallel safety run has three operations, so
that two workers can finish in either order in front of a common dependent.  A serial
operation that depends on two outputs of one batch needs one id more, with which the
awaits no longer fit into the run; the safety properties and the refinement are proved
for any number of ids (section 4).  Three shards
let a growth add two at once while the other thread asks for one.  The window of the
stream is the size of one message, so writes and reads stop inside headers and
bodies, and two messages can share the window; two body lengths would expose a stale
length, and the shorter one is exactly as long as the header, where the capacity of the
payload is still its length.  Two clones are needed for one to be shut down behind
another, and for one to be dropped while another is inside `shutdown`.

For the offline phase, 6 triples let any two generators run one after the other and the
third request find too few; batches that are not a multiple of the slots exercise the
padding.  The interleavings of two tasks over two FIFO streams are all explored; since the
protocol is lock-step there are few of them.  One in 31 of all pairs of error and draw
would pass a check: `Errors` are values for which the draws are known to catch them, and
the mutant that leaves out the check of the sacrifice shows that the catching is the
protocol's doing.

Two operations in a row are what makes a padded product a dividend or a divisor, an
incomplete inverse a factor, or a reversed polynomial have a zero constant; the longest
product has 16 coefficients, the whole domain.

For the shares, one gate over wires of every kind reaches each operation with every
combination of constants and inputs; two gates in a row reach results of protocols as
arguments of protocols, batches of two, and openings of computed or modified wires.
In the field of 5 elements a value, its negation and its inverse differ, so a swapped
or forgotten sign shows; every identity involved is polynomial of low degree.  The
inputs come first in a program: an input reads no wire, so no gate is lost by that.

Deadlock checking is off in all runs: the application may stop issuing calls, after
which nothing is left to do; whether something that should happen is stuck is what the
liveness properties say.

Fairness.  The executor, and in the multi threaded case each pool task, is a thread
that runs whenever it can: weak fairness of its next step.  A thread completes a
fabric call it is in (no call blocks).  The read loop's task runs, and the peer's
messages arrive, unless the model loses the connection: weak fairness of `ReadLoop` in
`Fabric`, where loss is not modelled, and `lost` as an escape in `QuicStream`.  A task
whose waker was woken is polled.  Nothing is assumed about starting calls, awaiting or
shutting down; `PollAgain` by another context has no fairness either.  In
`ResultBuffer` the lock is taken at most once per id, so weak fairness of each
thread's step is enough for `SetReturns`.

`LowGear` has weak fairness of each party's next step: each party is one task, which is
polled again whenever its stream can make progress; a party that stops drops its
connection, which the other one's receive notices.  In `QuicStream` the executor, `run`,
and a call of `shutdown` that has begun go on; nothing is assumed about the application
shutting down or dropping a clone.

`AwaitedIsDelivered` has `shutdown_sent` as an alternative because a `Shutdown` job
ends the executor with jobs still queued behind it.

## 4. Proofs

`SerialExecutorProofs` proves, for any sets of threads, handles, wakers and values,
any gate functions and any bounds (assumptions `FabricAssumption` and
`ApplyAssumption`: the bounds are naturals, constants fit below `MaxResults`, and
source and gate values are values):

* `TypeCorrect`: `Spec => []TypeOK`.  `TypeOK` is not inductive: what a computed value,
  a counter or a woken waker is depends on what queued ids stand for.  The inductive
  `TypeInv` adds `OpsBuilt` (an op id in a thread's push, in a queued job, in the
  operation buffer or among the ready operations has been issued) and `WaitersPolled`
  (a handle whose waiter is queued or registered was polled, left its waker, and a
  waiter registered for `r` awaits `r`).
* `Delivery`: `Spec => []DeliveredIsResult`.  A filled handle holds what the result
  buffer holds for its id.  The strengthening is `Filled`: a filled handle awaits an id,
  is still among the waiters of that id, and agrees with the buffer.  An insertion, also
  over an earlier value, rewrites the cell and the buffers of all its waiters together.

The proofs go action by action (`FabricNext` is shared work: each of its actions is a
lemma), with lemmas on options, argument lists and appended queues.

Its second part proves, under the same assumptions and on top of `TypeInv`:

* `NeverPanics`: `Spec => []NoPanic`.  The unwraps of `inflight_args`, of the operation
  buffer and of the arguments' values never fail.
* `InflightIsExact`: `Spec => []InflightExact`.  A buffered operation's counter is the
  number of its argument positions whose result has not been announced to it.
* `SendsOnce`: `Spec => []SentOnce`.

None of the three is inductive.  The invariant `DispatchInv` says that every id and every
operation is in one place:

  * `IdInv`: the ids taken by a call, the outputs of the operations that were built and the
    results on their way to the executor have no id in common; all are ids that the program
    took or the peer sent, and none of them, the outputs of finished operations apart, was
    inserted or sent before;
  * `StreamInv`: no result is twice on its way, and the outputs that are computed and not
    yet inserted follow one another;
  * `PlaceInv`: an operation is in one of the pushing call, the job queue, the buffer and
    the ready queue, and unknown to the executor until its job is popped;
  * `CountInv`: a buffered operation is registered for each result once per use, and its
    counter is what is left of these registrations; an operation that is not buffered is in
    no registration that is still to be scanned; a ready one has its arguments.

The decisive step is the decrement: `CountInv` gives that the operation at the head of the
list is still buffered and its counter positive; when the counter reaches zero, the number
of open argument positions is zero, so all values are there.

Its last part proves `SerialImplementsDataflow`: `Spec => ImplementsDataflow`
(the safety part; `Dataflow` has no fairness).  `new_op` maps to `Issue`, a first poll to
`Await`, `handle_new_result` to `Provide` and the insertion of an output to `Resolve`, both
with the deliveries they cause, `handle_new_waiter` to a delivery, and every other action to
a stutter.  The extra invariant is `ValueInv`: a result on its way carries the value of its
source, and the outputs not yet inserted are those of one operation, computed from the
values that its arguments have.

`ParallelExecutorProofs` proves, for any circuit, any threads and any interleaving of the
coordinator with the workers (`RacyAssumption`: the bits that an overlapping read may see
are a value of the cell's type):

* `ParallelTypeCorrect`: `Spec => []TypeOK`;
* `ParallelNeverPanics`: `Spec => []NoPanic`.  No unwrap, debug assertion or subtraction
  fails on the coordinator or on a worker;
* `MarksAreWritten`: `Spec => []MarkedIsWritten`;
* `ParallelInflightIsExact`: `Spec => []InflightExact`;
* `OperationsRunOnce`: `Spec => []RunsOnce`;
* `CellsWrittenOnce`: `Spec => [][CellsKept]_vars`, no step changes a cell that has a value;
* `ParallelImplementsDataflow`: `RacyReads = {} => (Spec => ImplementsDataflow)`.

The first six do not depend on what overlapping reads see; the last one does, because such
a read delivers what it saw to a handle.

The inductive invariant is `DispatchInv`, on top of `TypeInv`.  `Moves` is the fabric's part
(`FlowInv` of `FabricProofs`, with what the executor has made, holds and knows as
parameters): a result id has one origin, comes once, is announced once, and an operation is
in one place.  `OutputsInv` follows the outputs of a task in the pool: they are split into
those that are written and those that are left, each left once, and none is announced or
marked.  `ReadyInv` says that announced and marked ids are written and that nothing is
announced after it was marked; it is why a worker finds its arguments although the
coordinator only looked at the mask.  `CountInv` says that the registrations of a buffered
operation are its uses, its count the arguments that are not marked, and that any other
operation is registered for marked results only, which are never scanned again.

The refinement reads a result as there from the moment in which a worker begins to write it
(`Visible`): computing maps to `Resolve` of the first output, the end of a write to
`Resolve` of the next one, the announcement to a stutter, and `handle_new_waiter`, which may
read in the middle of a write, to a delivery of what became visible before.  It needs
`ValueInv` (what a task has left are the values of its operation, from arguments that cannot
change) and that no cell has two writers (`ShowOK`, from `DispatchInv`).  That a handle which
was handed a value keeps the right one is an invariant of `Dataflow` itself, carried through
the mapping (`GraphKeepsHandles`).

`QuicStreamProofs` proves, for any messages, header length and window (`QuicAssumption`):

* `QuicTypeCorrect`: `Spec => []TypeOK`;
* `StreamIsExact`: `Spec => []StreamExact`.  What was delivered, what is in the read
  buffers, on the wire, in the write buffer and still queued is at each moment the byte
  stream of the messages, without gap or repetition;
* `ErrorsNeedLoss`: `Spec => []NoSpuriousError`.

The invariant relates the two cursors of `stream_buffer.rs` to the position in the message
and the pending header; the errors need in addition which of the loops, the executor, the
clones of the fabric and the broadcast may be in which state together.

The last part of `ParallelExecutorProofs` is about the buffer itself, `ResultBuffer`.  It
proves, for any number of threads, cells per shard and ids:

* `BufferTypeCorrect`: `BufferSpec => []BufferTypeOK`;
* `WrittenStaysReachable`: `BufferSpec => []WrittenIsReachable`;
* `ReadsFindWrites`: `BufferSpec => []ReadAfterWrite`;
* `CountIsExact`: `BufferSpec => []CountExact`.

The list of shards is walked by a recursive function over `next_shard`.  Its meaning is
recovered by `Linked` (shard `k` points to shard `k + 1`, up to the last one) and the lemma
`WalkLinked`: in a linked list the walk from the head to index `n` is `n`.  That lemma is
an induction over data, and the library's induction theorems cannot be instantiated here;
`SetInduction` proves the needed instance (a set of naturals that contains 0 and is closed
under successor below `n` contains `0..n`) without them, from the cardinality of intervals.
The other parts of `BufferInv` are `LockInv` (only the thread inside `grow` changes the
tail, and its copy of the count is current), `PositionInv` (where each thread stands is a
shard of the list, not after the one it looks for) and `ValuesInv` (claimed and written
cells agree).

`SharesProofs` proves what the operators of `Shares` do for every field, every group that
is a module over it (`GroupAssumption`, `ModuleAssumption`, `FieldAssumption`), every MAC
key and every draw of the preprocessing phase.  `Authentic(x, v, M)` says that the shares
of `x` add up to `v` and its MACs to the key times `v`:

* `AddAuthentic`, `NegateAuthentic`, `SubAuthentic`, `AddPublicAuthentic`,
  `MulPublicAuthentic`, `MulPointAuthentic`: the linear operations take authentic sharings
  to authentic sharings of the plain result.
* `DealAuthentic`, `MulAuthentic`, `BatchMulAuthentic`, `BatchMulPointAuthentic`: so do
  the Beaver protocols, also the k-th element of a batch of any length.  They rest on one
  identity, `BeaverIdentity`, over either carrier.
* `SubPublicAuthentic`, `SumAuthentic`, `MulPointSharesAuthentic`: the remaining forms of
  addition, subtraction and multiplication, sums of any length included.
* `BatchInverseAuthentic`: the k-th result of an inversion shares the inverse of the k-th
  argument, and zero for zero, when no mask is zero.
* `PowAuthentic`: repeated squaring shares the power, and zero for the exponent zero.
* `BitXorAuthentic`, `BitXorPublicAuthentic`, `BitXorPublicBatchAuthentic`: the gadgets share the exclusive or of bits.
* `PrefixProductAuthentic`: the k-th result of `prefix_product` shares the product of the
  first k values, because the blinding telescopes (`Telescope`).
* `MacCheckExact`: with a non-zero key, the parties' checks of an opened value cancel if
  and only if it is the value the MACs authenticate, whatever was sent as a share.  The
  carriers have no torsion (`NoTorsion`), which is where the field's inverses are needed.

Sums, products, powers and `Pow` are recursive functions, so the last results are
inductions over data.  `Induction` is the instance they need, for a set of naturals instead
of a predicate, proved from the cardinality of intervals.  That a recursive function
exists at all (`SumSeqExists`, `ProdSeqExists`, `PowerExists`, `PowExists`) is an induction
too: a table of length n extends to one of length n + 1.

`ShareCircuitProofs` proves, for every field, group, key, program and number of gates, and
batches of any length:

* `CircuitTypeOK`: `Spec => []TypeOK`;
* `CircuitMacsAuthentic`: `Spec => []MacsAuthentic`, the SPDZ invariant;
* `CircuitHonestAccepted`: `Spec => []HonestAccepted`;
* `CircuitCorruptionDetected`: `Spec => []CorruptionDetected`;
* `CircuitRefines`: `Spec => Refines`, if 0 is not among the exponents; the run `share_pow`
  shows why that is needed.

The assumptions are those of `Field` and `CircuitAssumption` (scalars and points are two
sets; what a program allocates or shares has the type of its call; exponents and bounds are
naturals), which TLC evaluates on its instances, and one hypothesis of every theorem,
`DrawsInField`: each random scalar the preprocessing phase may draw is in the field.  It
speaks of the draws at every index, so it cannot be evaluated; `MCRand`, a residue, meets it.

`MacsAuthentic` is not inductive: a gate's result is authentic because its arguments are of
the right kind and have shares and MACs in the right carrier, and an opened or public value
must be the same at both parties.  The invariant `CircuitInv` says of every wire what its
cell stands for (`Holds`): a public kind holds two copies of a value of its carrier, a
shared kind an authentic sharing of one; a wire that a test helper wrote differs from an
honest wire of its kind in the shares or in the MACs, not in both (`ModifyOK`).  Every
operation has a lemma, `<Operation>Step`: given `CircuitInv`, it appends gates and cells for
which `GateOK` holds, that is, the cells stand for what the ideal circuit computes from the
values of the argument wires.  The theorems of `SharesProofs` give this for each protocol,
and a few lemmas lift it from one element to a batch (`FunctionStep`, `ProtocolStep`,
`BatchStep`) or an input (`InputStep`).  From there on the operations do not matter:
`StepInv` shows that such a step keeps `CircuitInv`, and `StepIdeal` that it is a step of
`IdealCircuit`, since it changes no earlier wire.

For the openings, `OpeningInv` says what the last one recorded: the values are those of the
wires it names, a verdict accepts a wire only if the parties' MAC checks of it cancel, and
all are accepted if all cancel; this covers both the one commitment of a scalar batch and
the commitment to each check of a point batch.  `CancelsExactly` (checks cancel if and only
if the MACs are the key times the value opened, for any key) and `ModifyOK` give the two
theorems; a changed share needs a non-zero key to be cancelled, a changed MAC does not.

`LowGearProofs` and `LowGearHonestProofs` prove, for every field, every key, any number of
slots, any calls of the application and every interleaving of the two tasks:

* `RevealAfterCommitted`: `Spec => RevealAfterCommit`, an action property.  It holds with
  any calls of the two applications, also different ones, and with one message altered.
* `HandedOutAlwaysFits`: `Spec /\ SameCalls => []HandedOutFits`;
* `HonestRunsClean`: `Spec /\ SameCalls => []HonestNeverAccused`;
* `HonestPoolsAuthentic`: `Spec /\ SameCalls => [](Honest => PoolsAuthentic)`.

The assumptions are those of `Field`, `LowGearAssumption` (a batch has a plaintext, the key
shares are scalars, 2 is not 0, `Sqrt` gives a root of a square) and `CallsAssumption` (the
calls are those an application can make).  The last three theorems have the hypothesis
`DrawsInField`, as those of `ShareCircuit`, and are about behaviours in which the two
applications start out with the same calls (`SameCalls`, a fact about the first state):
parties that run different generators find a message of the wrong type, which is nobody's
deviation.  They need no assumption on the draws beyond their type: in particular the
products that `generate_inverse_tuples` inverts and the squares of `generate_shared_bits` may
be zero, which stops both parties with the same panic.

The reveals.  `RevealAfterCommit` is not inductive, since what a task still has to send is in
its program.  `RoundsInv` says of every program that is left to run (`Orderly`) that a
commitment is followed by a receive of the counterparty's before anything that could reveal,
and of a task that has committed and not heard (`Waits`) that such a receive is still
before the next reveal.  Each sub-protocol is shown to be orderly once, for any names of its
registers; the programs of the generators are concatenations of them (`OrderlyCat`).  A
message that was altered changes values only, and one of the wrong type ends the task or
leaves it the answer it owes.

Honest runs.  The argument has three layers.

* *Lock-step.*  `Micro` moves a joint state, a state per party, by a local step of both or
  by a whole exchange.  `Gives(G, J, K, S, L)` says that the joint program `G` takes `J` to
  `K`, writes only the registers `S` and leaves the LowGears as `L`.  A lemma for each
  sub-protocol says what is in the registers afterwards, from `commit_reveal` (each party
  holds the other's values, and no check failed) over `open_and_check_macs`,
  `share_product` (the results add up to the product), `authenticate_vec` (the MACs to the
  key times the value) and `sacrifice` to the five generators; the algebra is that of
  `SharesProofs`.  `LgOK` says that the pools of the two LowGears pair up; a call leads from
  a state in which it holds (`Between`) to another, or stops both parties by the same error
  (`EndedBoth`).
* *Calls.*  `Rest` is where the tasks can be found when both have run up to their next await:
  between calls, ended, or at an exchange of a program which will end well (`Safe`).
  `AdvanceRests` and `CallRests` show that running on from a rest state leads to one.
* *Interleaving.*  In the real system one party may be many calls ahead, since local calls
  wait for nobody, or inside an exchange.  `LinkInv` is the inductive invariant: as long as
  nobody has deviated, the two states and the two wires are one of `Apart` (one party has the
  calls of a `Path` of joint states still before it, and no message is on its way), `Sent`
  (party 0 has sent its half of an exchange, party 1 may be some calls behind), `Taken` and
  `Replied` (party 1 has answered, and may have gone on).  `PartiesLinked` proves it; every
  step of either party moves from one of the four to another.  Everything handed out before
  a joint state stays handed out after it (`Grows`), so the two logs are prefixes of logs
  that fit.  What is said of joint states mentions the key, which no step changes; that
  these facts hold of the next state too takes the lemmas `...Stable`.

For the pools, parties that have the same calls left must be at the same joint state.  A
call leaves one fewer, except `run_offline_phase`, which puts five in its place: `Later`
orders lists of calls by where the calls of the whole phase stand, counted from the end, and
then by length, and `PathLater` shows that no path returns.

Writing these proofs changed the model in one place: `LocalCall` was a `CASE` whose arms
overlapped before the key exchange, which TLC reads in order and the logic does not; the
arms are now exclusive (`CallOnResult`).

Only model-checked:

* the refinement of `Dataflow` by `ParallelExecutor` with torn reads is not claimed at all:
  `parallel_race` shows the overlap;
* of `LowGear`, what depends on the draws: `PoolsAuthentic` in the presence of a deviation
  (the sacrifice and the MAC check of a batch catch an error for the draws of a run, not for
  every draw, so no theorem can say that they always do) and `TriplesFresh` (two triples may
  be equal by chance).  Its `TypeOK` in the middle of a call says what a deviating peer's
  messages cannot do to the pools; the proofs know the pools of honest parties only, and
  between calls (`LgOK`);
* `Polynomials`, whose long division and Euclidean algorithm are RECURSIVE operators;
* all liveness: fairness and ENABLED are beyond the prover.

## 5. Findings

* `serial_moved`: `ResultHandle::poll` registers a waker only when it creates the
  buffer; its comment says a poll registers the current context's waker.  A handle
  that is moved between tasks after its first poll hangs.
* `parallel_race`: the multi threaded `handle_new_waiter` asks the cell, not the ready
  mask, although the buffer's documentation says that another mechanism accounts values
  as written before they are read.
* `share_pow`: `AuthenticatedScalarResult::pow` returns the shared zero wire for the
  exponent 0, where its doc announces the exponentiation; the public `pow` gives 1.
* `division`: a shared polynomial divided by a public x^m has a quotient that is never
  written, where the doc promises a sharing of the floor quotient
  (`authenticated_poly.rs:479-481`).  The cause is the public inverse, whose gate has t
  result ids while the inverse comes back without leading zeros, where its doc promises the
  inverse mod x^t (`poly.rs:110`).

Observations that no run is about:

* the comment at `src/offline-phase/src/lowgear/triplets.rs:61` says "Increase the size of
  self.triples"; the assignment below it replaces them, and so does the model;
* the public quotient compares allocated lengths, so a divisor whose leading coefficient is
  zero, such as a product padded to its FFT domain, gives the quotient zero, and a padded
  dividend one that is not written as a whole, although the operator is documented as floor
  division (`poly.rs:341`).  Both violate `FloorDivision`, of which `division` shows another
  case; `QuotientExact` says what holds;
* `generate_input_masks` admits as many masks as there are slots (`input_masks.rs:16`), but
  `Plaintext::from_scalars` wants fewer than that (`plaintext.rs:81`): the boundary panics
  at both parties, which scenario `Failing` includes;
* `get_offline_result` leaves the pools in the LowGear: generators that are run after it
  consume triples that the online phase holds too, and a second result holds what the first
  one held (scenario `Copies`).  `TriplesFresh` says what holds nevertheless;
* `generate_input_masks` stores the local masks before the exchange that gives the peer its
  shares (`input_masks.rs:37`); an application that goes on after an error in between has
  pools of different lengths.  The model ends a task with its first error;
* dividing a shared polynomial by a shared or public one with a zero leading coefficient,
  inverting a polynomial without a constant term, and a mask of `mul_inverse_mod_t` whose
  constant coefficient happens to be zero all panic on the executor's thread;
* `shutdown` is documented to end the threads the fabric has spawned (`fabric.rs:483`), but
  `run` detaches its read loop (`network_sender.rs:106`), which nothing but the end of the
  connection ends, and keep-alives hold that open (`network/config.rs:29`);
  `SendingSideEnds` is about the other tasks;
* when the last clone of a fabric is dropped without `shutdown`, `run` returns but the
  executor's thread is never told, and goes on polling its empty queue;
* after a loss of the connection the write loop drops the outbound queue, and the
  executor's next network operation panics its thread (`single_threaded.rs:365`); tasks
  that await results are not told;
* the test helper `modify_share` of points assigns the MAC
  (`algebra/curve/authenticated_curve.rs:852-858`), so the tests never open a point with
  a modified share; the model follows the code;
* the comment at `algebra/scalar/authenticated_scalar.rs:397` says that MACs do not
  change when a public value is added; the code changes them, and has to
  (`algebra/scalar/share.rs:76`, and the mutant `add_public_KeepMac`);
* `batch_add` and `batch_sub` of scalars index element 0 and panic on an empty batch,
  where `batch_mul` returns an empty one; so does `prefix_product`.  Batches in the model
  are not empty.

## 6. Not modelled

The arithmetic inside arkworks, encodings and JSON, hash to curve, TLS and QUIC
configuration, the C++ cryptosystem behind `mp-spdz-rs` (noise, proofs of knowledge, key
material), statistics, mocks, benchmarks and integration drivers.  `PartyIDBeaverSource` is
a test double whose values are constants.  quinn is external: an ordered byte stream with
partial reads and writes that may be lost.  `connect` and `close` are its handshake, and
`LowGear::shutdown` only calls `close`.  An FFT domain larger than the field's two-adicity
makes `D::new` return `None`; products here stay within it.  `QuicAssumption` says that a
serialized message is at least as long as its header.

The sharded buffer's torn pointer read (`result_buffer.rs:175`) is an outcome of the model
(`wild`); whether it happens depends on how wide the platform's stores are.  The messages
of an online opening wait for nothing of the peer's: in `Dataflow` terms they are
independent operations, so no order between a party's reveal and its peer's commitment
exists to be checked.  `ShareCircuit` has the verdict of openings.

`GrowableBuffer` and `ResultMask` are vectors that grow to the index asked for; the
executors' models use them as functions on ids.

## 7. Plan

Modelling left: growth of `GrowableBuffer` and `ResultMask` at the boundary; what a fabric
does after its executor panicked, composed with `QuicStream`.

Theorems: type correctness of `LowGear` in the middle of calls, which needs types for the
registers of every program; honest parties that make different calls; the identities of
`Polynomials` that do not need its RECURSIVE operators.
