----------------------------- MODULE QuicStream -----------------------------
(***************************************************************************)
(* One direction of the QUIC link (network/quic.rs, stream_buffer.rs):      *)
(* NetworkSender's write loop feeds the Sink half of one party's network    *)
(* and the peer's read loop polls the Stream half.  A message travels as    *)
(* its length in HeaderLen bytes, then its serialized form.                 *)
(*                                                                          *)
(* Every poll builds a new receive_message or write_bytes future and drops  *)
(* it when it is pending, so all that survives a poll is in the fields of   *)
(* QuicTwoPartyNet.  The stream itself (quinn) is external: bytes arrive in *)
(* order, any number at a time, until the connection is lost.               *)
(*                                                                          *)
(* The k-th message given to the write loop is the number k, and a byte is  *)
(* its message and its position there.                                      *)
(*                                                                          *)
(* Around the two loops, one of the two parties (side) takes its fabric     *)
(* down: the application shuts down or drops its clones of the MpcFabric    *)
(* while messages are queued or on their way (fabric.rs, network_sender.rs).*)
(* That party's loop of the other direction appears only through the loss   *)
(* of the connection, which ends it too.                                    *)
(***************************************************************************)
EXTENDS Naturals, Sequences

CONSTANTS
    NMsgs,      \* bound: messages that the executor sends
    HeaderLen,  \* BYTES_PER_U64
    BodyLen(_), \* length of the serialized message
    Window,     \* bytes that quinn buffers between the parties
    MaxFabrics  \* bound: clones of the MpcFabric that the application holds

Messages == 1 .. NMsgs

\* The serialized message is at least as long as the header.
ASSUME QuicAssumption ==
    /\ NMsgs \in Nat /\ MaxFabrics \in Nat \ {0} /\ HeaderLen \in Nat \ {0} /\ Window \in Nat \ {0}
    /\ \A m \in Messages : BodyLen(m) \in Nat /\ BodyLen(m) >= HeaderLen

Size(m) == HeaderLen + BodyLen(m)

\* The payload is the header's Vec, extended by the message: a Vec that has to grow
\* at least doubles its capacity.
Capacity(m) == IF Size(m) < 2 * HeaderLen THEN 2 * HeaderLen ELSE Size(m)

Byte    == {b \in [msg : Messages, pos : Nat] : b.pos \in 1 .. Size(b.msg)}

\* The bytes first .. last of a message.
BytesOf(m, first, last) == [i \in 1 .. last - first + 1 |-> [msg |-> m, pos |-> first + i - 1]]

VARIABLES
    writer,            \* the write loop: between messages, in send, or ended
    n_sent,            \* messages taken from the outbound queue
    buffered_outbound, \* <<>> or <<bytes not yet written>>
    wire,              \* bytes between the two parties
    reader,            \* the read loop: between polls, in receive_message, or ended
    buffered_message_length, \* <<>> or <<length>>
    buffered_inbound,  \* <<>> or <<[size, bytes]>>: a buffer and what was read into it
    received,          \* messages pushed to the executor
    lost,              \* the connection is gone
    n_queued,          \* messages that the executor put into the outbound queue
    executor,          \* of the writing party: running, told to shut down, stopped, panicked
    side,              \* the party that takes its fabric down: the writer's or the reader's
    fabrics,           \* its clones of the MpcFabric
    calls,             \* the clones that are inside shutdown, before the broadcast
    signal,            \* the shutdown signal was broadcast
    run,               \* its NetworkSender::run: in select or returned
    panicked           \* a call to shutdown panicked

writeVars == <<writer, n_sent, buffered_outbound>>
readVars  == <<reader, buffered_message_length, buffered_inbound, received>>
fabricVars == <<n_queued, executor, side, fabrics, calls, signal, run, panicked>>
vars == <<writeVars, wire, readVars, lost, fabricVars>>

Init ==
    /\ writer = "recv"
    /\ n_sent = 0
    /\ buffered_outbound = <<>>
    /\ wire = <<>>
    /\ reader = "parked"
    /\ buffered_message_length = <<>>
    /\ buffered_inbound = <<>>
    /\ received = <<>>
    /\ lost = FALSE
    /\ n_queued = 0
    /\ executor = "running"
    /\ side \in {"writer", "reader"}
    /\ fabrics = MaxFabrics
    /\ calls = 0
    /\ signal = FALSE
    /\ run = "select"
    /\ panicked = FALSE

-----------------------------------------------------------------------------
\* Mutant: the payload is sent with a byte of spare capacity.
StartSend_SpareByte ==
    /\ writer = "recv" /\ n_sent < n_queued
    /\ n_sent' = n_sent + 1
    /\ buffered_outbound' = <<BytesOf(n_sent + 1, 1, Size(n_sent + 1) + 1)>>
    /\ writer' = "flush"
    /\ UNCHANGED <<wire, readVars, lost, fabricVars>>

\* write_loop takes a message; send polls poll_ready, which flushes, and then
\* calls start_send.  A buffer that is still occupied is an error, and a payload
\* with spare capacity fails the assertion of BufferWithCursor::new.
StartSend ==
    /\ writer = "recv" /\ n_sent < n_queued
    /\ n_sent' = n_sent + 1
    /\ IF buffered_outbound # <<>>
       THEN writer' = "error" /\ UNCHANGED buffered_outbound
       ELSE /\ buffered_outbound' = <<BytesOf(n_sent + 1, 1, Size(n_sent + 1))>>
            /\ writer' = IF Capacity(n_sent + 1) = Size(n_sent + 1) THEN "flush" ELSE "panicked"
    /\ UNCHANGED <<wire, readVars, lost, fabricVars>>

\* Mutant: write is taken to write the whole buffer.
WriteBytes_AllAtOnce(k) ==
    /\ writer = "flush" /\ ~lost
    /\ buffered_outbound[1] # <<>>
    /\ k <= Len(buffered_outbound[1]) /\ Len(wire) + k <= Window
    /\ wire' = wire \o SubSeq(buffered_outbound[1], 1, k)
    /\ buffered_outbound' = <<<<>>>>
    /\ UNCHANGED <<writer, n_sent, readVars, lost, fabricVars>>

\* write_bytes, one write: the stream takes k bytes and the cursor advances.
WriteBytes(k) ==
    /\ writer = "flush" /\ ~lost
    /\ buffered_outbound[1] # <<>>
    /\ k <= Len(buffered_outbound[1]) /\ Len(wire) + k <= Window
    /\ wire' = wire \o SubSeq(buffered_outbound[1], 1, k)
    /\ buffered_outbound' =
           <<SubSeq(buffered_outbound[1], k + 1, Len(buffered_outbound[1]))>>
    /\ UNCHANGED <<writer, n_sent, readVars, lost, fabricVars>>

\* Mutant: the depleted buffer is kept.
FlushDone_KeepsBuffer ==
    /\ writer = "flush" /\ buffered_outbound[1] = <<>>
    /\ writer' = "recv"
    /\ UNCHANGED <<n_sent, buffered_outbound, wire, readVars, lost, fabricVars>>

\* The buffer is depleted: forget it; send is over.
FlushDone ==
    /\ writer = "flush" /\ buffered_outbound[1] = <<>>
    /\ buffered_outbound' = <<>>
    /\ writer' = "recv"
    /\ UNCHANGED <<n_sent, wire, readVars, lost, fabricVars>>

\* A write on a lost connection fails and ends the write loop.
WriteError ==
    /\ writer = "flush" /\ lost /\ buffered_outbound[1] # <<>>
    /\ writer' = "error"
    /\ UNCHANGED <<n_sent, buffered_outbound, wire, readVars, lost, fabricVars>>

-----------------------------------------------------------------------------
\* The buffer of a read that is about to begin: the one left from an earlier poll
\* if there is one, whatever n asks for.
InboundFor(n) ==
    IF buffered_inbound = <<>> THEN <<[size |-> n, bytes |-> <<>>]>> ELSE buffered_inbound

\* poll_next: a new receive_message reads the length unless it has it already.
PollNext ==
    /\ reader = "parked"
    /\ reader' = IF buffered_message_length = <<>> THEN "length" ELSE "body"
    /\ buffered_inbound' = InboundFor(IF buffered_message_length = <<>> THEN HeaderLen
                                      ELSE buffered_message_length[1])
    /\ UNCHANGED <<writeVars, wire, buffered_message_length, received, lost, fabricVars>>

Reading == reader \in {"length", "body"}
Missing == buffered_inbound[1].size - Len(buffered_inbound[1].bytes)

\* read_bytes, one read: k of the bytes that have arrived go into the buffer.
ReadBytes(k) ==
    /\ Reading
    /\ k <= Missing /\ k <= Len(wire)
    /\ buffered_inbound' = <<[buffered_inbound[1] EXCEPT !.bytes = @ \o SubSeq(wire, 1, k)]>>
    /\ wire' = SubSeq(wire, k + 1, Len(wire))
    /\ UNCHANGED <<writeVars, reader, buffered_message_length, received, lost, fabricVars>>

\* No byte has arrived: the poll is pending and its future is dropped.
Pending ==
    /\ Reading /\ Missing > 0 /\ wire = <<>> /\ ~lost
    /\ reader' = "parked"
    /\ UNCHANGED <<writeVars, wire, buffered_message_length, buffered_inbound, received,
                   lost, fabricVars>>

\* read_message_length has its bytes: take the buffer, keep the length, and begin
\* to read the message.  Anything but a header decodes to no length of a message.
LengthRead ==
    /\ reader = "length" /\ Missing = 0
    /\ LET bytes == buffered_inbound[1].bytes
           m     == bytes[1].msg
       IN IF bytes = BytesOf(m, 1, HeaderLen)
          THEN /\ buffered_message_length' = <<BodyLen(m)>>
               /\ buffered_inbound' = <<[size |-> BodyLen(m), bytes |-> <<>>]>>
               /\ reader' = "body"
          ELSE /\ reader' = "error"
               /\ UNCHANGED <<buffered_message_length, buffered_inbound>>
    /\ UNCHANGED <<writeVars, wire, received, lost, fabricVars>>

\* receive_message has the message: take the buffer, forget the length, parse.
\* read_loop pushes the result, or ends if it does not parse.
MessageRead ==
    /\ reader = "body" /\ Missing = 0
    /\ buffered_inbound' = <<>>
    /\ buffered_message_length' = <<>>
    /\ LET bytes == buffered_inbound[1].bytes
           m     == bytes[1].msg
       IN IF bytes = BytesOf(m, HeaderLen + 1, Size(m))
          THEN received' = Append(received, m) /\ reader' = "parked"
          ELSE reader' = "error" /\ UNCHANGED received
    /\ UNCHANGED <<writeVars, wire, lost, fabricVars>>

\* A read on a lost connection fails and ends the read loop.
ReadError ==
    /\ Reading /\ Missing > 0 /\ lost
    /\ reader' = "error"
    /\ UNCHANGED <<writeVars, wire, buffered_message_length, buffered_inbound, received,
                   lost, fabricVars>>

\* The connection is lost; bytes on the way may still be read, or not.
Lose ==
    /\ ~lost
    /\ lost' = TRUE
    /\ UNCHANGED <<writeVars, wire, readVars, fabricVars>>

-----------------------------------------------------------------------------
(* The fabric around the loops                                              *)

\* The executor sends a payload on the outbound queue, or panics if the write
\* loop is over and has dropped the receiving end.
QueuePayload ==
    /\ executor \in {"running", "told"} /\ n_queued < NMsgs
    /\ IF writer \in {"recv", "flush"}
       THEN n_queued' = n_queued + 1 /\ UNCHANGED executor
       ELSE executor' = "panicked" /\ UNCHANGED n_queued
    /\ UNCHANGED <<writeVars, wire, readVars, lost, side, fabrics, calls, signal, run, panicked>>

\* shutdown(self), on any clone: first a Shutdown job for the executor...
Shutdown ==
    /\ calls < fabrics
    /\ calls' = calls + 1
    /\ executor' = IF side = "writer" /\ executor = "running" THEN "told" ELSE executor
    /\ UNCHANGED <<writeVars, wire, readVars, lost, n_queued, side, fabrics, signal, run, panicked>>

\* ... then the signal, on a channel whose receiver run drops when it returns.
Broadcast ==
    /\ calls > 0
    /\ calls' = calls - 1
    /\ fabrics' = fabrics - 1
    /\ IF run = "select" THEN signal' = TRUE /\ UNCHANGED panicked
       ELSE panicked' = TRUE /\ UNCHANGED signal
    /\ UNCHANGED <<writeVars, wire, readVars, lost, n_queued, executor, side, run>>

\* A clone goes out of scope.
DropFabric ==
    /\ calls < fabrics
    /\ fabrics' = fabrics - 1
    /\ UNCHANGED <<writeVars, wire, readVars, lost, n_queued, executor, side, calls, signal, run,
                   panicked>>

\* Mutant: the Shutdown job does not end the loop of the executor.
ExecutorStops_NoBreak ==
    /\ executor = "told"
    /\ executor' = "running"
    /\ UNCHANGED <<writeVars, wire, readVars, lost, n_queued, side, fabrics, calls, signal, run,
                   panicked>>

\* The executor reaches its Shutdown job.
ExecutorStops ==
    /\ executor = "told"
    /\ executor' = "stopped"
    /\ UNCHANGED <<writeVars, wire, readVars, lost, n_queued, side, fabrics, calls, signal, run,
                   panicked>>

\* write_loop: the executor's and the fabric's ends of the outbound queue are
\* dropped and the queue is empty.
OutboundClosed ==
    /\ writer = "recv" /\ n_sent = n_queued
    /\ side = "writer" /\ fabrics = 0 /\ executor \notin {"running", "told"}
    /\ writer' = "ended"
    /\ UNCHANGED <<n_sent, buffered_outbound, wire, readVars, lost, fabricVars>>

\* Mutant: the loops are not detached but end with run.
RunReturns_AbortsLoops ==
    /\ run = "select" /\ side = "writer"
    /\ signal \/ fabrics = 0 \/ lost
    /\ run' = "returned"
    /\ writer' = "ended"
    /\ UNCHANGED <<n_sent, buffered_outbound, wire, readVars, lost, n_queued, executor, side,
                   fabrics, calls, signal, panicked>>

\* A loop of this party is over, of this direction or, after a loss, of the other.
LoopOver ==
    \/ lost
    \/ side = "writer" /\ writer \in {"error", "panicked", "ended"}
    \/ side = "reader" /\ reader = "error"

\* run: select sees the end of a loop, the signal, or that the last clone of the
\* fabric dropped the sending end.  The loops are tasks, which stay behind.
RunReturns ==
    /\ run = "select"
    /\ LoopOver \/ signal \/ fabrics = 0
    /\ run' = "returned"
    /\ UNCHANGED <<writeVars, wire, readVars, lost, n_queued, executor, side, fabrics, calls,
                   signal, panicked>>

-----------------------------------------------------------------------------
WriterNext ==
    \/ StartSend \/ FlushDone \/ WriteError \/ OutboundClosed
    \/ \E k \in 1 .. Window : WriteBytes(k)
ReaderNext ==
    \/ PollNext \/ Pending \/ LengthRead \/ MessageRead \/ ReadError
    \/ \E k \in 1 .. Window : ReadBytes(k)

Next ==
    \/ WriterNext \/ ReaderNext \/ Lose
    \/ QueuePayload \/ Shutdown \/ Broadcast \/ DropFabric \/ ExecutorStops \/ RunReturns

Spec == Init /\ [][Next]_vars

\* Both loops are tasks that run whenever they can; quinn wakes the reader when
\* bytes arrive and the writer when there is room.  The executor is a thread, run
\* is polled when select has something, and shutdown does not block.
FairSpec ==
    /\ Spec /\ WF_vars(WriterNext) /\ WF_vars(ReaderNext)
    /\ WF_vars(ExecutorStops) /\ WF_vars(Broadcast) /\ WF_vars(RunReturns)

-----------------------------------------------------------------------------
\* Every variable has its type; the link never holds more than the window.
TypeOK ==
    /\ writer \in {"recv", "flush", "error", "panicked", "ended"}
    /\ n_queued \in 0 .. NMsgs /\ n_sent \in 0 .. n_queued
    /\ buffered_outbound = <<>> \/ buffered_outbound \in [1 .. 1 -> Seq(Byte)]
    /\ writer = "flush" => buffered_outbound # <<>>
    /\ wire \in Seq(Byte) /\ Len(wire) <= Window
    /\ reader \in {"parked", "length", "body", "error"}
    /\ buffered_message_length = <<>> \/ buffered_message_length \in [1 .. 1 -> Nat]
    /\ buffered_inbound = <<>>
         \/ buffered_inbound \in [1 .. 1 -> [size : Nat, bytes : Seq(Byte)]]
    /\ received \in Seq(Messages)
    /\ lost \in BOOLEAN
    /\ executor \in {"running", "told", "stopped", "panicked"}
    /\ side \in {"writer", "reader"} /\ run \in {"select", "returned"}
    /\ fabrics \in 0 .. MaxFabrics /\ calls \in 0 .. fabrics
    /\ signal \in BOOLEAN /\ panicked \in BOOLEAN

\* Messages arrive whole, once each and in the order in which they were sent.
InOrder == \A i \in DOMAIN received : received[i] = i

\* The byte after b in the byte stream of all messages.
Succ(b) ==
    IF b.pos < Size(b.msg) THEN [msg |-> b.msg, pos |-> b.pos + 1]
    ELSE [msg |-> b.msg + 1, pos |-> 1]

\* The bytes that are somewhere between the serializer and the parser.
InTransit ==
    (IF buffered_inbound = <<>> THEN <<>> ELSE buffered_inbound[1].bytes)
        \o wire \o (IF buffered_outbound = <<>> THEN <<>> ELSE buffered_outbound[1])

\* The first byte that the parser still needs.
NextByte ==
    [msg |-> Len(received) + 1,
     pos |-> IF buffered_message_length = <<>> THEN 1 ELSE HeaderLen + 1]

\* No byte is lost, repeated or reordered by partial writes, partial reads and
\* dropped futures: messages arrive whole and in order, and what is in transit is
\* a run of the byte stream that begins with the byte the parser needs next and
\* ends with the last message taken.
StreamExact ==
    /\ InOrder
    /\ reader # "error" =>
          IF InTransit = <<>>
          THEN Len(received) = n_sent /\ buffered_message_length = <<>>
          ELSE /\ InTransit[1] = NextByte
               /\ \A i \in 1 .. Len(InTransit) - 1 : InTransit[i + 1] = Succ(InTransit[i])
               /\ InTransit[Len(InTransit)] = [msg |-> n_sent, pos |-> Size(n_sent)]

\* Without a loss of the connection nothing fails: the send buffer is never found
\* occupied or with spare capacity, every message decodes, and the executor can
\* always send.  Shutdown of one clone of the fabric panics only after a loss or
\* after another clone was shut down: run, which ends with the first of these,
\* holds the only receiver of the signal.
NoSpuriousError ==
    /\ writer \in {"error", "panicked"} \/ reader = "error" \/ executor = "panicked" => lost
    /\ panicked => lost \/ signal

\* Every payload the executor sent arrives unless the connection is lost, also
\* when either party shuts down or drops its fabric before it was written or read.
SentArrives == \A m \in Messages : n_queued >= m ~> (Len(received) >= m \/ lost)

\* The sending side of a fabric that is shut down and dropped by all who hold it
\* comes to its end: the executor stops, run returns and the write loop ends, with
\* nothing unsent unless the connection was lost.  The read loop, a detached task of
\* its own, does not end with them: it goes on reading until the connection closes.
SendingSideEnds ==
    (side = "writer" /\ fabrics = 0 /\ executor \in {"told", "stopped"}) ~>
        /\ run = "returned" /\ executor \in {"stopped", "panicked"}
        /\ writer \in {"ended", "error"}
        /\ writer = "ended" => n_sent = n_queued /\ buffered_outbound = <<>>
=============================================================================
