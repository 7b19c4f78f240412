-------------------------- MODULE QuicStreamProofs --------------------------
(***************************************************************************)
(* Proofs about one direction of the QUIC link, for any number of messages  *)
(* of any lengths, any header length, any window of the stream and any      *)
(* number of clones of the fabric.                                          *)
(***************************************************************************)
EXTENDS QuicStream, TLAPS, SequenceTheorems

-----------------------------------------------------------------------------
(* Facts about options and about the bytes of a message. *)

\* Some(x) has the type of an option and is not None.
LEMMA SomeIntro == \A S : \A x \in S : <<x>> \in [1 .. 1 -> S] /\ <<x>> # <<>> /\ <<x>>[1] = x
  OBVIOUS

\* Unwrapping an option that is Some.
LEMMA SomeElim == \A S : \A b \in [1 .. 1 -> S] : b # <<>> /\ b[1] \in S /\ b = <<b[1]>>
  OBVIOUS

\* A message's length on the wire, and its buffer, which has no spare capacity.
LEMMA SizeFacts ==
    ASSUME NEW m \in Messages
    PROVE  /\ m \in Nat \ {0} /\ HeaderLen \in Nat \ {0} /\ BodyLen(m) \in Nat \ {0}
           /\ Size(m) \in Nat /\ Size(m) > HeaderLen /\ Size(m) = HeaderLen + BodyLen(m)
           /\ Capacity(m) = Size(m)
  BY QuicAssumption DEF Messages, Size, Capacity

\* A byte is a message and a position in it.
LEMMA ByteFacts ==
    ASSUME NEW b \in Byte
    PROVE  /\ b.msg \in Messages /\ b.pos \in Nat /\ b.pos >= 1 /\ b.pos <= Size(b.msg)
           /\ b = [msg |-> b.msg, pos |-> b.pos]
  BY SizeFacts DEF Byte

\* A stretch of a message, byte by byte.
LEMMA BytesOfFacts ==
    ASSUME NEW m \in Messages, NEW first \in Nat \ {0}, NEW last \in Nat,
           first <= last + 1, last <= Size(m)
    PROVE  /\ BytesOf(m, first, last) \in Seq(Byte)
           /\ Len(BytesOf(m, first, last)) = last - first + 1
           /\ \A i \in 1 .. last - first + 1 :
                 BytesOf(m, first, last)[i] = [msg |-> m, pos |-> first + i - 1]
  <1>1. Size(m) \in Nat
    BY SizeFacts
  <1>2. last - first + 1 \in Nat
    OBVIOUS
  <1>3. \A i \in 1 .. last - first + 1 : [msg |-> m, pos |-> first + i - 1] \in Byte
    BY <1>1 DEF Byte
  <1>4. BytesOf(m, first, last) \in [1 .. last - first + 1 -> Byte]
    BY <1>3 DEF BytesOf
  <1>5. QED
    BY <1>2, <1>4, <1>3 DEF BytesOf

-----------------------------------------------------------------------------
(* Runs of the byte stream. *)

\* A run of the byte stream.  The second conjunct says in closed form what the
\* first says step by step: from any byte on, the rest of its message follows.
Run(s) ==
    /\ \A i \in 1 .. Len(s) - 1 : s[i + 1] = Succ(s[i])
    /\ \A i, j \in 1 .. Len(s) :
          i <= j /\ s[i].pos + (j - i) <= Size(s[i].msg)
            => s[j] = [msg |-> s[i].msg, pos |-> s[i].pos + (j - i)]

\* What is left of a run when its first k bytes are taken.
LEMMA RunSuffix ==
    ASSUME NEW s \in Seq(Byte), NEW t \in Seq(Byte), Run(s \o t)
    PROVE  Run(t)
  <1>1. /\ Len(s) \in Nat /\ Len(t) \in Nat /\ Len(s \o t) = Len(s) + Len(t)
        /\ \A i \in 1 .. Len(t) : (s \o t)[Len(s) + i] = t[i]
    BY ConcatProperties, LenProperties
  <1>2. ASSUME NEW i \in 1 .. Len(t) - 1 PROVE t[i + 1] = Succ(t[i])
    <2>1. Len(s) + i \in 1 .. Len(s \o t) - 1
      BY <1>1
    <2>2. (s \o t)[Len(s) + i + 1] = Succ((s \o t)[Len(s) + i])
      BY <2>1 DEF Run
    <2>3. (s \o t)[Len(s) + i] = t[i] /\ (s \o t)[Len(s) + (i + 1)] = t[i + 1]
      BY <1>1
    <2>4. Len(s) + i + 1 = Len(s) + (i + 1)
      BY <1>1
    <2>5. QED
      BY <2>2, <2>3, <2>4
  <1>3. ASSUME NEW i \in 1 .. Len(t), NEW j \in 1 .. Len(t),
               i <= j, t[i].pos + (j - i) <= Size(t[i].msg)
        PROVE  t[j] = [msg |-> t[i].msg, pos |-> t[i].pos + (j - i)]
    <2>1. /\ Len(s) + i \in 1 .. Len(s \o t) /\ Len(s) + j \in 1 .. Len(s \o t)
          /\ Len(s) + i <= Len(s) + j /\ (Len(s) + j) - (Len(s) + i) = j - i
      BY <1>1, <1>3
    <2>2. (s \o t)[Len(s) + i] = t[i] /\ (s \o t)[Len(s) + j] = t[j]
      BY <1>1
    <2>3. QED
      BY <2>1, <2>2, <1>3 DEF Run
  <1>4. QED
    BY <1>2, <1>3 DEF Run

\* A run that ends with the last byte of a message goes on with the next message.
LEMMA RunAppend ==
    ASSUME NEW s \in Seq(Byte), NEW m \in Messages, Run(s),
           s # <<>> => s[Len(s)] = [msg |-> m - 1, pos |-> Size(m - 1)]
    PROVE  /\ Run(s \o BytesOf(m, 1, Size(m)))
           /\ s \o BytesOf(m, 1, Size(m)) \in Seq(Byte)
           /\ Len(s \o BytesOf(m, 1, Size(m))) = Len(s) + Size(m)
           /\ (s \o BytesOf(m, 1, Size(m)))[Len(s) + Size(m)] = [msg |-> m, pos |-> Size(m)]
           /\ (s \o BytesOf(m, 1, Size(m)))[1] =
                 IF s = <<>> THEN [msg |-> m, pos |-> 1] ELSE s[1]
  <1> DEFINE t == BytesOf(m, 1, Size(m))
             u == s \o t
             L == Len(s)
  <1>1. Size(m) \in Nat /\ Size(m) > 0 /\ m \in Nat
    BY SizeFacts
  <1>2. /\ t \in Seq(Byte) /\ Len(t) = Size(m)
        /\ \A i \in 1 .. Size(m) : t[i] = [msg |-> m, pos |-> i]
    <2>1. /\ t \in Seq(Byte) /\ Len(t) = Size(m) - 1 + 1
          /\ \A i \in 1 .. Size(m) - 1 + 1 : t[i] = [msg |-> m, pos |-> 1 + i - 1]
      <3>1. 1 \in Nat \ {0} /\ 1 <= Size(m) + 1 /\ Size(m) <= Size(m)
        BY <1>1
      <3>2. QED
        BY <3>1, <1>1, BytesOfFacts
    <2>2. QED
      BY <2>1, <1>1
  <1> HIDE DEF t
  <1>3. /\ L \in Nat /\ u \in Seq(Byte) /\ Len(u) = L + Size(m)
        /\ \A i \in 1 .. L : u[i] = s[i]
        /\ \A i \in L + 1 .. L + Size(m) : u[i] = [msg |-> m, pos |-> i - L]
    <2>1. /\ u \in Seq(Byte) /\ Len(u) = Len(s) + Len(t)
          /\ \A i \in 1 .. Len(s) + Len(t) : u[i] = IF i <= Len(s) THEN s[i] ELSE t[i - Len(s)]
      BY <1>2, ConcatProperties
    <2>2. Len(s) \in Nat
      BY LenProperties
    <2>3. \A i \in L + 1 .. L + Size(m) : u[i] = t[i - L] /\ i - L \in 1 .. Size(m)
      BY <2>1, <2>2, <1>1, <1>2
    <2>4. QED
      BY <2>1, <2>2, <2>3, <1>1, <1>2
  <1> HIDE DEF u
  <1>4. \A i \in 1 .. L : s[i] \in Byte
    BY ElementOfSeq
  <1>5. s # <<>> => L \in 1 .. L
    BY <1>3, EmptySeq
  <1>6. ASSUME NEW i \in 1 .. Len(u) - 1 PROVE u[i + 1] = Succ(u[i])
    <2>1. CASE i < L
      BY <2>1, <1>3 DEF Run
    <2>2. CASE i = L
      <3>1. s # <<>> /\ u[i] = [msg |-> m - 1, pos |-> Size(m - 1)]
        BY <2>2, <1>3, EmptySeq
      <3>2. u[i + 1] = [msg |-> m, pos |-> 1]
        BY <2>2, <1>3, <1>1
      <3>3. s[L] \in Byte
        BY <2>2, <1>4, <1>3
      <3>4. m - 1 \in Messages
        BY <3>1, <3>3, ByteFacts, <2>2, <1>3
      <3>5. Size(m - 1) \in Nat
        BY <3>4, SizeFacts
      <3>6. QED
        BY <3>1, <3>2, <3>5, <1>1 DEF Succ
    <2>3. CASE i > L
      <3>1. /\ u[i] = [msg |-> m, pos |-> i - L] /\ u[i + 1] = [msg |-> m, pos |-> i + 1 - L]
            /\ i - L < Size(m) /\ i + 1 - L = i - L + 1
        BY <2>3, <1>3, <1>1
      <3>2. QED
        BY <3>1 DEF Succ
    <2>4. QED
      BY <2>1, <2>2, <2>3, <1>3
  <1>7. ASSUME NEW i \in 1 .. Len(u), NEW j \in 1 .. Len(u),
               i <= j, u[i].pos + (j - i) <= Size(u[i].msg)
        PROVE  u[j] = [msg |-> u[i].msg, pos |-> u[i].pos + (j - i)]
    <2>1. CASE j <= L
      <3>1. u[i] = s[i] /\ u[j] = s[j] /\ i \in 1 .. L /\ j \in 1 .. L
        BY <2>1, <1>3, <1>7
      <3>2. QED
        BY <3>1, <1>7 DEF Run
    <2>2. CASE i > L
      <3>1. u[i] = [msg |-> m, pos |-> i - L] /\ u[j] = [msg |-> m, pos |-> j - L]
        <4>1. i \in L + 1 .. L + Size(m) /\ j \in L + 1 .. L + Size(m)
          BY <2>2, <1>3, <1>7, <1>1
        <4>2. QED
          BY <4>1, <1>3
      <3>2. j - L = (i - L) + (j - i)
        BY <1>3
      <3>3. QED
        BY <3>1, <3>2
    <2>3. CASE i <= L /\ j > L
      <3>1. u[i] = s[i] /\ s[i] \in Byte /\ i \in 1 .. L /\ L \in 1 .. L /\ s # <<>>
        BY <2>3, <1>3, <1>4, EmptySeq
      <3>2. /\ s[i].msg \in Messages /\ s[i].pos \in Nat /\ Size(s[i].msg) \in Nat
        BY <3>1, ByteFacts, SizeFacts
      <3>3. s[i].pos + (L - i) <= Size(s[i].msg)
        BY <2>3, <3>1, <3>2, <1>3, <1>7
      <3>4. s[L] = [msg |-> s[i].msg, pos |-> s[i].pos + (L - i)]
        BY <3>1, <3>3 DEF Run
      <3>5. s[i].pos + (L - i) = Size(s[i].msg)
        BY <3>1, <3>4
      <3>6. QED
        BY <3>1, <3>2, <3>5, <2>3, <1>3, <1>7
    <2>4. QED
      BY <2>1, <2>2, <2>3, <1>3
  <1>8. Run(u)
    BY <1>6, <1>7 DEF Run
  <1>9. u[L + Size(m)] = [msg |-> m, pos |-> Size(m)]
    BY <1>3, <1>1
  <1>10. u[1] = IF s = <<>> THEN [msg |-> m, pos |-> 1] ELSE s[1]
    BY <1>3, <1>1, <1>5, EmptySeq
  <1>11. QED
    BY <1>3, <1>8, <1>9, <1>10 DEF u, t

\* Taking bytes of one message from the front of a run: they are that stretch of
\* the message, and what is left begins with the byte after it.
LEMMA RunTake ==
    ASSUME NEW s \in Seq(Byte), NEW t \in Seq(Byte), Run(s \o t), s # <<>>,
           NEW m \in Messages, NEW first \in Nat \ {0}, NEW last \in Nat,
           (s \o t)[1] = [msg |-> m, pos |-> first],
           Len(s) = last - first + 1, last <= Size(m)
    PROVE  /\ s = BytesOf(m, first, last) /\ s[1].msg = m
           /\ t = <<>> => (s \o t)[Len(s \o t)] = [msg |-> m, pos |-> last]
           /\ t # <<>> => /\ t[1] = Succ([msg |-> m, pos |-> last])
                          /\ t[Len(t)] = (s \o t)[Len(s \o t)]
  <1> DEFINE u == s \o t
             L == Len(s)
  <1>1. /\ u \in Seq(Byte) /\ L \in Nat \ {0} /\ Len(t) \in Nat /\ Len(u) = L + Len(t)
        /\ \A i \in 1 .. L : u[i] = s[i]
        /\ \A i \in 1 .. Len(t) : u[L + i] = t[i]
    <2>1. /\ u \in Seq(Byte) /\ Len(u) = Len(s) + Len(t)
          /\ \A i \in 1 .. Len(s) + Len(t) : u[i] = IF i <= Len(s) THEN s[i] ELSE t[i - Len(s)]
      BY ConcatProperties
    <2>2. Len(s) \in Nat \ {0} /\ Len(t) \in Nat
      BY LenProperties, EmptySeq
    <2>3. \A i \in 1 .. Len(t) : L + i \in 1 .. Len(s) + Len(t) /\ ~(L + i <= Len(s))
                                  /\ L + i - Len(s) = i
      BY <2>2
    <2>4. \A i \in 1 .. L : i \in 1 .. Len(s) + Len(t) /\ i <= Len(s)
      BY <2>2
    <2>5. \A i \in 1 .. L : u[i] = s[i]
      BY <2>1, <2>4
    <2>6. ASSUME NEW i \in 1 .. Len(t) PROVE u[L + i] = t[i]
      <3> DEFINE j == L + i
      <3>1. j \in 1 .. Len(s) + Len(t) /\ ~(j <= Len(s)) /\ j - Len(s) = i
        BY <2>3
      <3> HIDE DEF j, u
      <3>2. u[j] = t[j - Len(s)]
        BY <2>1, <3>1
      <3>3. QED
        BY <3>1, <3>2 DEF j
    <2>7. QED
      BY <2>1, <2>2, <2>5, <2>6
  <1> HIDE DEF u
  <1>2. u[1] = [msg |-> m, pos |-> first] /\ u[1] = s[1] /\ Run(u)
    BY <1>1 DEF u
  <1>3. \A i \in 1 .. L : s[i] = [msg |-> m, pos |-> first + i - 1]
    <2> SUFFICES ASSUME NEW i \in 1 .. L PROVE s[i] = [msg |-> m, pos |-> first + i - 1]
      OBVIOUS
    <2>1. /\ 1 \in 1 .. Len(u) /\ i \in 1 .. Len(u) /\ 1 <= i
          /\ first + (i - 1) <= Size(m) /\ first + (i - 1) = first + i - 1
      BY <1>1, SizeFacts
    <2>2. u[i] = [msg |-> m, pos |-> first + (i - 1)]
      <3>1. u[1].pos = first /\ u[1].msg = m
        BY <1>2
      <3>2. u[1].pos + (i - 1) <= Size(u[1].msg)
        BY <2>1, <3>1
      <3>3. u[i] = [msg |-> u[1].msg, pos |-> u[1].pos + (i - 1)]
        BY <1>2, <2>1, <3>2 DEF Run
      <3>4. QED
        BY <3>1, <3>3
    <2>3. QED
      BY <1>1, <2>1, <2>2
  <1>4. s = BytesOf(m, first, last)
    <2>1. /\ BytesOf(m, first, last) \in Seq(Byte)
          /\ Len(BytesOf(m, first, last)) = last - first + 1
          /\ \A i \in 1 .. last - first + 1 :
                BytesOf(m, first, last)[i] = [msg |-> m, pos |-> first + i - 1]
      <3>1. first <= last + 1
        BY <1>1
      <3>2. QED
        BY <3>1, BytesOfFacts
    <2>2. QED
      BY <2>1, <1>3, SeqEqual
  <1>5. s[L] = [msg |-> m, pos |-> last]
    <2>1. L \in 1 .. L /\ first + L - 1 = last
      BY <1>1
    <2>2. QED
      BY <2>1, <1>3
  <1>6. ASSUME t = <<>> PROVE u[Len(u)] = [msg |-> m, pos |-> last]
    <2>1. Len(t) = 0
      BY <1>6
    <2>2. QED
      BY <2>1, <1>1, <1>5
  <1>7. ASSUME t # <<>>
        PROVE  t[1] = Succ([msg |-> m, pos |-> last]) /\ t[Len(t)] = u[Len(u)]
    <2>1. Len(t) \in Nat \ {0}
      BY <1>7, EmptySeq
    <2>2. L \in 1 .. Len(u) - 1 /\ 1 \in 1 .. Len(t) /\ Len(t) \in 1 .. Len(t)
      BY <2>1, <1>1
    <2>3. u[L + 1] = Succ(u[L])
      BY <2>2, <1>2 DEF Run
    <2>4. u[L] = s[L] /\ u[L + 1] = t[1] /\ u[L + Len(t)] = t[Len(t)]
      <3>1. u[L] = s[L]
        BY <1>1
      <3>2. u[L + 1] = t[1]
        BY <2>2, <1>1
      <3>3. u[L + Len(t)] = t[Len(t)]
        BY <2>2, <1>1
      <3>4. QED
        BY <3>1, <3>2, <3>3
    <2>5. QED
      BY <2>3, <2>4, <1>1, <1>5
  <1>8. QED
    BY <1>2, <1>4, <1>6, <1>7 DEF u

-----------------------------------------------------------------------------
(* The inductive invariant.  StreamExact is not inductive by itself: that   *)
(* what was read decodes depends on the size of the buffer it was read      *)
(* into, which a poll chooses and later polls, with nothing but the fields  *)
(* of QuicTwoPartyNet to go by, must agree with.                            *)

\* The read loop: a length that is kept is that of the message being read, the
\* buffer is the one for what is read next, and a read in progress has a buffer.
ReaderInv ==
    /\ buffered_message_length # <<>> =>
          /\ Len(received) + 1 \in Messages
          /\ buffered_message_length[1] = BodyLen(Len(received) + 1)
    /\ buffered_inbound # <<>> =>
          /\ buffered_inbound[1].size = IF buffered_message_length = <<>> THEN HeaderLen
                                        ELSE buffered_message_length[1]
          /\ Len(buffered_inbound[1].bytes) <= buffered_inbound[1].size
    /\ Reading => buffered_inbound # <<>>
    /\ reader = "length" => buffered_message_length = <<>>
    /\ reader = "body" => buffered_message_length # <<>>

\* What is in transit is a run from the byte that is needed next to the last byte
\* of the last message taken, also when the read loop has failed.
TransitInv ==
    IF InTransit = <<>>
    THEN Len(received) = n_sent /\ buffered_message_length = <<>>
    ELSE /\ InTransit[1] = NextByte
         /\ InTransit[Len(InTransit)] = [msg |-> n_sent, pos |-> Size(n_sent)]
         /\ Run(InTransit)

\* The write loop leaves no bytes behind, ends only after the executor and the
\* fabric are gone, and NetworkSender::run returns for one of its reasons.
LoopInv ==
    /\ writer \in {"recv", "ended"} => buffered_outbound = <<>>
    /\ writer = "ended" => executor \in {"stopped", "panicked"} /\ fabrics = 0
    /\ run = "returned" => lost \/ signal \/ fabrics = 0

QuicInv == TypeOK /\ ReaderInv /\ InOrder /\ TransitInv /\ LoopInv /\ NoSpuriousError

\* The bytes of the two buffers.
Inbound  == IF buffered_inbound = <<>> THEN <<>> ELSE buffered_inbound[1].bytes
Outbound == IF buffered_outbound = <<>> THEN <<>> ELSE buffered_outbound[1]

\* The three parts of what is in transit.
LEMMA TransitParts ==
    ASSUME TypeOK
    PROVE  /\ Inbound \in Seq(Byte) /\ wire \in Seq(Byte) /\ Outbound \in Seq(Byte)
           /\ InTransit = Inbound \o wire \o Outbound
           /\ InTransit = Inbound \o (wire \o Outbound)
           /\ InTransit \in Seq(Byte) /\ wire \o Outbound \in Seq(Byte)
  <1>1. Inbound \in Seq(Byte)
    <2>1. CASE buffered_inbound = <<>>
      BY <2>1 DEF Inbound
    <2>2. CASE buffered_inbound # <<>>
      <3>1. buffered_inbound[1] \in [size : Nat, bytes : Seq(Byte)]
        BY <2>2, SomeElim DEF TypeOK
      <3>2. QED
        BY <2>2, <3>1 DEF Inbound
    <2>3. QED
      BY <2>1, <2>2
  <1>2. Outbound \in Seq(Byte)
    <2>1. CASE buffered_outbound = <<>>
      BY <2>1 DEF Outbound
    <2>2. CASE buffered_outbound # <<>>
      BY <2>2, SomeElim DEF TypeOK, Outbound
    <2>3. QED
      BY <2>1, <2>2
  <1>3. wire \in Seq(Byte)
    BY DEF TypeOK
  <1>4. InTransit = Inbound \o wire \o Outbound
    BY DEF InTransit, Inbound, Outbound
  <1>5. Inbound \o wire \in Seq(Byte) /\ wire \o Outbound \in Seq(Byte)
    BY <1>1, <1>2, <1>3, ConcatProperties
  <1>6. (Inbound \o wire) \o Outbound = Inbound \o (wire \o Outbound)
    BY <1>1, <1>2, <1>3, ConcatAssociative
  <1>7. InTransit \in Seq(Byte)
    BY <1>2, <1>4, <1>5, ConcatProperties
  <1>8. QED
    BY <1>1, <1>2, <1>3, <1>4, <1>5, <1>6, <1>7

\* Sequences of bytes may be regrouped.
LEMMA Regroup == \A a, b, c \in Seq(Byte) : (a \o b) \o c = a \o (b \o c)
  BY ConcatAssociative

\* A buffer after more bytes were read into it.
LEMMA ReadInto ==
    \A b \in [size : Nat, bytes : Seq(Byte)] : \A s :
        [b EXCEPT !.bytes = s] = [size |-> b.size, bytes |-> s]
  OBVIOUS

\* Splitting a sequence in two parts loses nothing.
LEMMA SplitAt ==
    ASSUME NEW s \in Seq(Byte), NEW k \in Nat, k <= Len(s)
    PROVE  /\ SubSeq(s, 1, k) \in Seq(Byte) /\ Len(SubSeq(s, 1, k)) = k
           /\ SubSeq(s, k + 1, Len(s)) \in Seq(Byte)
           /\ Len(SubSeq(s, k + 1, Len(s))) = Len(s) - k
           /\ SubSeq(s, 1, k) \o SubSeq(s, k + 1, Len(s)) = s
  <1>1. Len(s) \in Nat /\ \A i \in 1 .. Len(s) : s[i] \in Byte
    BY LenProperties, ElementOfSeq
  <1>2. 1 \in 1 .. Len(s) + 1 /\ k \in 1 - 1 .. Len(s) /\ Len(s) \in k .. Len(s)
    BY <1>1
  <1>3. SubSeq(s, 1, k) \o SubSeq(s, k + 1, Len(s)) = SubSeq(s, 1, Len(s))
    BY <1>2, ConcatAdjacentSubSeq
  <1>4. SubSeq(s, 1, Len(s)) = s
    BY SubSeqFull
  <1>5. SubSeq(s, 1, k) \in Seq(Byte) /\ Len(SubSeq(s, 1, k)) = k
    <2>1. 1 \in Int /\ k \in Int /\ \A i \in 1 .. k : s[i] \in Byte
      BY <1>1
    <2>2. /\ SubSeq(s, 1, k) \in Seq(Byte)
          /\ Len(SubSeq(s, 1, k)) = IF 1 <= k THEN k - 1 + 1 ELSE 0
      BY <2>1, SubSeqProperties
    <2>3. QED
      BY <2>2
  <1>6. SubSeq(s, k + 1, Len(s)) \in Seq(Byte) /\ Len(SubSeq(s, k + 1, Len(s))) = Len(s) - k
    <2>1. k + 1 \in Int /\ Len(s) \in Int /\ \A i \in k + 1 .. Len(s) : s[i] \in Byte
      BY <1>1
    <2>2. /\ SubSeq(s, k + 1, Len(s)) \in Seq(Byte)
          /\ Len(SubSeq(s, k + 1, Len(s))) = IF k + 1 <= Len(s) THEN Len(s) - (k + 1) + 1 ELSE 0
      BY <2>1, SubSeqProperties
    <2>3. QED
      BY <2>2, <1>1
  <1>7. QED
    BY <1>3, <1>4, <1>5, <1>6

\* A step that leaves the read loop alone keeps what is said about it.
LEMMA ReaderUnchanged ==
    ASSUME ReaderInv, InOrder, UNCHANGED readVars
    PROVE  ReaderInv' /\ InOrder'
  BY DEF ReaderInv, InOrder, readVars, Reading

\* A step that only moves bytes from one buffer to the next keeps the run.
LEMMA TransitUnchanged ==
    ASSUME TransitInv, InTransit' = InTransit,
           UNCHANGED <<received, buffered_message_length, n_sent>>
    PROVE  TransitInv'
  BY DEF TransitInv, NextByte

\* The same for a step outside the two loops.
LEMMA LoopsUnchanged ==
    ASSUME ReaderInv, InOrder, TransitInv, UNCHANGED <<writeVars, wire, readVars>>
    PROVE  ReaderInv' /\ InOrder' /\ TransitInv'
  <1>1. ReaderInv' /\ InOrder'
    BY ReaderUnchanged
  <1>2. InTransit' = InTransit
    BY DEF InTransit, writeVars, readVars
  <1>3. QED
    BY <1>1, <1>2, TransitUnchanged DEF writeVars, readVars

-----------------------------------------------------------------------------
(* One lemma per action. *)

\* start_send: the buffer is free, and the run goes on with the next message.
LEMMA StartSendStep == QuicInv /\ StartSend => QuicInv'
  <1> SUFFICES ASSUME QuicInv, StartSend PROVE QuicInv'
    OBVIOUS
  <1> DEFINE m == n_sent + 1
  <1>1. TypeOK /\ ReaderInv /\ InOrder /\ TransitInv /\ LoopInv /\ NoSpuriousError
    BY DEF QuicInv
  <1>2. buffered_outbound = <<>>
    BY <1>1 DEF LoopInv, StartSend
  <1>3. m \in Messages /\ n_sent \in Nat /\ m - 1 = n_sent /\ m \in 0 .. n_queued
    BY <1>1, QuicAssumption DEF TypeOK, StartSend, Messages
  <1>4. Capacity(m) = Size(m) /\ Size(m) \in Nat
    BY <1>3, SizeFacts
  <1>5. /\ n_sent' = m /\ writer' = "flush" /\ buffered_outbound' = <<BytesOf(m, 1, Size(m))>>
        /\ UNCHANGED <<wire, readVars, lost, fabricVars>>
    BY <1>2, <1>4 DEF StartSend
  <1>6. BytesOf(m, 1, Size(m)) \in Seq(Byte)
    <2>1. 1 \in Nat \ {0} /\ 1 <= Size(m) + 1 /\ Size(m) <= Size(m)
      BY <1>4
    <2>2. QED
      BY <2>1, <1>3, <1>4, BytesOfFacts
  <1>7. TypeOK'
    <2>1. buffered_outbound' \in [1 .. 1 -> Seq(Byte)] /\ buffered_outbound' # <<>>
      BY <1>5, <1>6, SomeIntro
    <2>2. QED
      BY <1>1, <1>3, <1>5, <2>1 DEF TypeOK, readVars, fabricVars
  <1>8. ReaderInv' /\ InOrder'
    BY <1>1, <1>5, ReaderUnchanged
  <1>9. TransitInv'
    <2>1. InTransit \in Seq(Byte) /\ InTransit' = InTransit \o BytesOf(m, 1, Size(m))
      <3>1. Outbound' = BytesOf(m, 1, Size(m)) /\ Inbound' = Inbound /\ wire' = wire
        BY <1>5, SomeIntro DEF Outbound, Inbound, readVars
      <3>2. Outbound = <<>>
        BY <1>2 DEF Outbound
      <3>3. Inbound \o wire \in Seq(Byte) /\ InTransit = (Inbound \o wire) \o <<>>
        BY <1>1, <3>2, TransitParts, ConcatProperties
      <3>4. InTransit = Inbound \o wire
        BY <3>3, ConcatEmptySeq
      <3>5. InTransit' = Inbound' \o wire' \o Outbound'
        BY DEF InTransit, Inbound, Outbound
      <3>6. QED
        BY <3>1, <3>3, <3>4, <3>5
    <2>2. InTransit # <<>> => InTransit[Len(InTransit)] = [msg |-> m - 1, pos |-> Size(m - 1)]
      BY <1>1, <1>3 DEF TransitInv
    <2>3. Run(InTransit)
      <3>1. CASE InTransit = <<>>
        BY <3>1 DEF Run
      <3>2. CASE InTransit # <<>>
        BY <3>2, <1>1 DEF TransitInv
      <3>3. QED
        BY <3>1, <3>2
    <2>4. /\ Run(InTransit') /\ InTransit' \in Seq(Byte)
          /\ Len(InTransit') = Len(InTransit) + Size(m)
          /\ InTransit'[Len(InTransit')] = [msg |-> m, pos |-> Size(m)]
          /\ InTransit'[1] = IF InTransit = <<>> THEN [msg |-> m, pos |-> 1] ELSE InTransit[1]
      <3> HIDE DEF m
      <3> DEFINE u == InTransit \o BytesOf(m, 1, Size(m))
      <3>1. /\ Run(u) /\ u \in Seq(Byte) /\ Len(u) = Len(InTransit) + Size(m)
            /\ u[Len(InTransit) + Size(m)] = [msg |-> m, pos |-> Size(m)]
            /\ u[1] = IF InTransit = <<>> THEN [msg |-> m, pos |-> 1] ELSE InTransit[1]
        BY <1>3, <2>1, <2>2, <2>3, RunAppend
      <3>2. InTransit' = u
        BY <2>1
      <3> HIDE DEF u
      <3>3. QED
        BY <3>1, <3>2
    <2>5. InTransit' # <<>>
      BY <2>1, <2>4, <1>3, SizeFacts, LenProperties, EmptySeq
    <2>6. InTransit'[1] = NextByte'
      <3>1. NextByte' = NextByte
        BY <1>5 DEF NextByte, readVars
      <3>2. CASE InTransit = <<>>
        BY <3>1, <3>2, <2>4, <1>1 DEF TransitInv, NextByte
      <3>3. CASE InTransit # <<>>
        BY <3>1, <3>3, <2>4, <1>1 DEF TransitInv
      <3>4. QED
        BY <3>2, <3>3
    <2>7. QED
      BY <2>4, <2>5, <2>6, <1>5 DEF TransitInv
  <1>10. LoopInv' /\ NoSpuriousError'
    BY <1>1, <1>5 DEF LoopInv, NoSpuriousError, readVars, fabricVars, StartSend
  <1>11. QED
    BY <1>7, <1>8, <1>9, <1>10 DEF QuicInv

\* write_bytes: the bytes that leave the buffer are those that the stream takes.
LEMMA WriteBytesStep == ASSUME NEW k \in 1 .. Window PROVE QuicInv /\ WriteBytes(k) => QuicInv'
  <1> SUFFICES ASSUME QuicInv, WriteBytes(k) PROVE QuicInv'
    OBVIOUS
  <1> DEFINE out == buffered_outbound[1]
             front == SubSeq(out, 1, k)
             back == SubSeq(out, k + 1, Len(out))
  <1>1. TypeOK /\ ReaderInv /\ InOrder /\ TransitInv /\ LoopInv /\ NoSpuriousError
    BY DEF QuicInv
  <1>2. /\ writer = "flush" /\ k <= Len(out) /\ Len(wire) + k <= Window
        /\ wire' = wire \o front /\ buffered_outbound' = <<back>>
        /\ UNCHANGED <<writer, n_sent, readVars, lost, fabricVars>>
    BY DEF WriteBytes
  <1>3. buffered_outbound # <<>> /\ out \in Seq(Byte) /\ k \in Nat
    BY <1>1, <1>2, SomeElim, QuicAssumption DEF TypeOK
  <1>4. /\ front \in Seq(Byte) /\ Len(front) = k /\ back \in Seq(Byte)
        /\ front \o back = out
    BY <1>2, <1>3, SplitAt
  <1> HIDE DEF front, back
  <1>5. wire' \in Seq(Byte) /\ Len(wire') <= Window
    <2>1. wire \in Seq(Byte)
      BY <1>1 DEF TypeOK
    <2>2. wire \o front \in Seq(Byte) /\ Len(wire \o front) = Len(wire) + Len(front)
      BY <2>1, <1>4, ConcatProperties
    <2>3. QED
      BY <2>2, <1>2, <1>4
  <1>6. buffered_outbound' \in [1 .. 1 -> Seq(Byte)] /\ buffered_outbound' # <<>>
    BY <1>2, <1>4, SomeIntro
  <1>7. TypeOK'
    BY <1>1, <1>2, <1>5, <1>6 DEF TypeOK, readVars, fabricVars
  <1>8. ReaderInv' /\ InOrder'
    BY <1>1, <1>2, ReaderUnchanged
  <1>9. TransitInv'
    <2>1. Inbound' = Inbound /\ Outbound' = back /\ Outbound = out
      BY <1>2, <1>3, <1>6, SomeIntro DEF Inbound, Outbound, readVars
    <2>2. Inbound \in Seq(Byte) /\ wire \in Seq(Byte) /\ InTransit = Inbound \o (wire \o out)
      BY <1>1, <2>1, TransitParts
    <2>3. InTransit' = Inbound \o (wire' \o back)
      <3>1. InTransit' = (Inbound \o wire') \o back
        BY <2>1 DEF InTransit, Inbound, Outbound
      <3>2. QED
        BY <3>1, <2>2, <1>4, <1>5, Regroup
    <2>4. wire' \o back = wire \o out
      <3>1. (wire \o front) \o back = wire \o (front \o back)
        BY <1>4, <2>2, Regroup
      <3>2. QED
        BY <3>1, <1>2, <1>4
    <2>5. QED
      BY <1>1, <1>2, <2>2, <2>3, <2>4, TransitUnchanged DEF readVars
  <1>10. LoopInv' /\ NoSpuriousError'
    BY <1>1, <1>2 DEF LoopInv, NoSpuriousError, readVars, fabricVars
  <1>11. QED
    BY <1>7, <1>8, <1>9, <1>10 DEF QuicInv

\* poll_flush with a depleted buffer: the buffer is forgotten, and no byte with it.
LEMMA FlushDoneStep == QuicInv /\ FlushDone => QuicInv'
  <1> SUFFICES ASSUME QuicInv, FlushDone PROVE QuicInv'
    OBVIOUS
  <1>1. TypeOK /\ ReaderInv /\ InOrder /\ TransitInv /\ LoopInv /\ NoSpuriousError
    BY DEF QuicInv
  <1>2. /\ writer = "flush" /\ buffered_outbound[1] = <<>>
        /\ buffered_outbound' = <<>> /\ writer' = "recv"
        /\ UNCHANGED <<n_sent, wire, readVars, lost, fabricVars>>
    BY DEF FlushDone
  <1>3. TypeOK'
    BY <1>1, <1>2 DEF TypeOK, readVars, fabricVars
  <1>4. ReaderInv' /\ InOrder'
    BY <1>1, <1>2, ReaderUnchanged
  <1>5. TransitInv'
    <2>1. InTransit' = InTransit
      BY <1>2 DEF InTransit, readVars
    <2>2. QED
      BY <1>1, <1>2, <2>1, TransitUnchanged DEF readVars
  <1>6. LoopInv' /\ NoSpuriousError'
    BY <1>1, <1>2 DEF LoopInv, NoSpuriousError, readVars, fabricVars
  <1>7. QED
    BY <1>3, <1>4, <1>5, <1>6 DEF QuicInv

\* The write loop fails after a loss, or ends when nobody can send any more.
LEMMA WriterEndsStep == QuicInv /\ (WriteError \/ OutboundClosed) => QuicInv'
  <1> SUFFICES ASSUME QuicInv, WriteError \/ OutboundClosed PROVE QuicInv'
    OBVIOUS
  <1>1. TypeOK /\ ReaderInv /\ InOrder /\ TransitInv /\ LoopInv /\ NoSpuriousError
    BY DEF QuicInv
  <1>2. UNCHANGED <<n_sent, buffered_outbound, wire, readVars, lost, fabricVars>>
    BY DEF WriteError, OutboundClosed
  <1>3. TypeOK'
    BY <1>1, <1>2 DEF TypeOK, WriteError, OutboundClosed, readVars, fabricVars
  <1>4. ReaderInv' /\ InOrder'
    BY <1>1, <1>2, ReaderUnchanged
  <1>5. TransitInv'
    <2>1. InTransit' = InTransit
      BY <1>2 DEF InTransit, readVars
    <2>2. QED
      BY <1>1, <1>2, <2>1, TransitUnchanged DEF readVars
  <1>6. LoopInv' /\ NoSpuriousError'
    BY <1>1, <1>2 DEF TypeOK, LoopInv, NoSpuriousError, readVars, fabricVars, WriteError,
                      OutboundClosed
  <1>7. QED
    BY <1>3, <1>4, <1>5, <1>6 DEF QuicInv

\* The actions of the fabric and the loss of the connection leave the loops alone.
LEMMA FabricStep ==
    QuicInv /\ (Lose \/ QueuePayload \/ Shutdown \/ Broadcast \/ DropFabric \/ ExecutorStops
                \/ RunReturns) => QuicInv'
  <1> SUFFICES ASSUME QuicInv, Lose \/ QueuePayload \/ Shutdown \/ Broadcast \/ DropFabric
                               \/ ExecutorStops \/ RunReturns
               PROVE  QuicInv'
    OBVIOUS
  <1>1. TypeOK /\ ReaderInv /\ InOrder /\ TransitInv /\ LoopInv /\ NoSpuriousError
    BY DEF QuicInv
  <1>2. UNCHANGED <<writeVars, wire, readVars>>
    BY DEF Lose, QueuePayload, Shutdown, Broadcast, DropFabric, ExecutorStops, RunReturns
  <1>3. ReaderInv' /\ InOrder' /\ TransitInv'
    BY <1>1, <1>2, LoopsUnchanged
  <1>4. TypeOK' /\ LoopInv' /\ NoSpuriousError'
    <2> USE DEF writeVars, readVars
    <2>1. CASE Lose
      BY <2>1, <1>1, <1>2 DEF Lose, TypeOK, LoopInv, NoSpuriousError, fabricVars
    <2>2. CASE QueuePayload
      BY <2>2, <1>1, <1>2, QuicAssumption DEF QueuePayload, TypeOK, LoopInv, NoSpuriousError
    <2>3. CASE Shutdown
      BY <2>3, <1>1, <1>2 DEF Shutdown, TypeOK, LoopInv, NoSpuriousError
    <2>4. CASE Broadcast
      <3>1. /\ calls' = calls - 1 /\ fabrics' = fabrics - 1 /\ calls > 0
            /\ UNCHANGED <<lost, n_queued, executor, side, run>>
            /\ IF run = "select" THEN signal' = TRUE /\ UNCHANGED panicked
               ELSE panicked' = TRUE /\ UNCHANGED signal
        BY <2>4 DEF Broadcast
      <3>2. /\ calls \in Nat /\ fabrics \in Nat /\ calls <= fabrics /\ fabrics <= MaxFabrics
            /\ MaxFabrics \in Nat
        BY <1>1, QuicAssumption DEF TypeOK
      <3>3. fabrics' \in 0 .. MaxFabrics /\ calls' \in 0 .. fabrics' /\ fabrics # 0
        BY <3>1, <3>2
      <3>4. panicked' \in BOOLEAN /\ signal' \in BOOLEAN
        BY <3>1, <1>1 DEF TypeOK
      <3>5. TypeOK'
        BY <3>1, <3>3, <3>4, <1>1, <1>2 DEF TypeOK
      <3>6. LoopInv' /\ NoSpuriousError'
        BY <3>1, <3>3, <1>1, <1>2 DEF TypeOK, LoopInv, NoSpuriousError
      <3>7. QED
        BY <3>5, <3>6
    <2>5. CASE DropFabric
      BY <2>5, <1>1, <1>2, QuicAssumption DEF DropFabric, TypeOK, LoopInv, NoSpuriousError
    <2>6. CASE ExecutorStops
      BY <2>6, <1>1, <1>2 DEF ExecutorStops, TypeOK, LoopInv, NoSpuriousError
    <2>7. CASE RunReturns
      BY <2>7, <1>1, <1>2 DEF RunReturns, LoopOver, TypeOK, LoopInv, NoSpuriousError
    <2>8. QED
      BY <2>1, <2>2, <2>3, <2>4, <2>5, <2>6, <2>7
  <1>5. QED
    BY <1>3, <1>4 DEF QuicInv

-----------------------------------------------------------------------------
(* The read loop. *)

\* poll_next: whatever the last poll left behind is what this one would ask for.
LEMMA PollNextStep == QuicInv /\ PollNext => QuicInv'
  <1> SUFFICES ASSUME QuicInv, PollNext PROVE QuicInv'
    OBVIOUS
  <1> DEFINE n == IF buffered_message_length = <<>> THEN HeaderLen
                  ELSE buffered_message_length[1]
  <1>1. TypeOK /\ ReaderInv /\ InOrder /\ TransitInv /\ LoopInv /\ NoSpuriousError
    BY DEF QuicInv
  <1>2. /\ reader = "parked"
        /\ reader' = IF buffered_message_length = <<>> THEN "length" ELSE "body"
        /\ buffered_inbound' = IF buffered_inbound = <<>> THEN <<[size |-> n, bytes |-> <<>>]>>
                               ELSE buffered_inbound
        /\ UNCHANGED <<writeVars, wire, buffered_message_length, received, lost, fabricVars>>
    BY DEF PollNext, InboundFor
  <1>3. n \in Nat
    BY <1>1, SomeElim, QuicAssumption DEF TypeOK
  <1> HIDE DEF n
  <1>4. /\ buffered_inbound' \in [1 .. 1 -> [size : Nat, bytes : Seq(Byte)]]
        /\ buffered_inbound' # <<>>
    <2>1. [size |-> n, bytes |-> <<>>] \in [size : Nat, bytes : Seq(Byte)]
      BY <1>3
    <2>2. CASE buffered_inbound = <<>>
      BY <1>2, <2>1, <2>2, SomeIntro
    <2>3. CASE buffered_inbound # <<>>
      BY <1>1, <1>2, <2>3 DEF TypeOK
    <2>4. QED
      BY <2>2, <2>3
  <1>5. TypeOK'
    BY <1>1, <1>2, <1>4 DEF TypeOK, writeVars, fabricVars
  <1>6. buffered_inbound'[1].size = n /\ Len(buffered_inbound'[1].bytes) <= n
    <2>1. CASE buffered_inbound = <<>>
      BY <1>2, <1>3, <2>1
    <2>2. CASE buffered_inbound # <<>>
      BY <1>1, <1>2, <2>2 DEF ReaderInv, n
    <2>3. QED
      BY <2>1, <2>2
  <1>7. ReaderInv'
    BY <1>1, <1>2, <1>4, <1>6 DEF ReaderInv, Reading, n
  <1>8. InOrder'
    BY <1>1, <1>2 DEF InOrder
  <1>9. TransitInv'
    <2>1. Inbound' = Inbound
      <3>1. CASE buffered_inbound = <<>>
        BY <1>2, <3>1, SomeIntro DEF Inbound
      <3>2. CASE buffered_inbound # <<>>
        BY <1>2, <3>2 DEF Inbound
      <3>3. QED
        BY <3>1, <3>2
    <2>2. InTransit' = InTransit
      BY <2>1, <1>2 DEF InTransit, Inbound, writeVars
    <2>3. QED
      BY <1>1, <1>2, <2>2, TransitUnchanged DEF writeVars
  <1>10. LoopInv' /\ NoSpuriousError'
    BY <1>1, <1>2 DEF LoopInv, NoSpuriousError, writeVars, fabricVars
  <1>11. QED
    BY <1>5, <1>7, <1>8, <1>9, <1>10 DEF QuicInv

\* A pending poll drops its future but not the buffer; a read after a loss fails.
LEMMA ReaderStopsStep == QuicInv /\ (Pending \/ ReadError) => QuicInv'
  <1> SUFFICES ASSUME QuicInv, Pending \/ ReadError PROVE QuicInv'
    OBVIOUS
  <1>1. TypeOK /\ ReaderInv /\ InOrder /\ TransitInv /\ LoopInv /\ NoSpuriousError
    BY DEF QuicInv
  <1>2. /\ UNCHANGED <<writeVars, wire, buffered_message_length, buffered_inbound, received,
                       lost, fabricVars>>
        /\ reader' = "parked" \/ (reader' = "error" /\ lost)
    BY DEF Pending, ReadError
  <1>3. TypeOK'
    BY <1>1, <1>2 DEF TypeOK, writeVars, fabricVars
  <1>4. ReaderInv' /\ InOrder'
    BY <1>1, <1>2 DEF ReaderInv, InOrder, Reading
  <1>5. TransitInv'
    <2>1. InTransit' = InTransit
      BY <1>2 DEF InTransit, writeVars
    <2>2. QED
      BY <1>1, <1>2, <2>1, TransitUnchanged DEF writeVars
  <1>6. LoopInv' /\ NoSpuriousError'
    BY <1>1, <1>2 DEF LoopInv, NoSpuriousError, writeVars, fabricVars
  <1>7. QED
    BY <1>3, <1>4, <1>5, <1>6 DEF QuicInv

\* read_bytes: the bytes that leave the stream are those that the buffer takes.
LEMMA ReadBytesStep == ASSUME NEW k \in 1 .. Window PROVE QuicInv /\ ReadBytes(k) => QuicInv'
  <1> SUFFICES ASSUME QuicInv, ReadBytes(k) PROVE QuicInv'
    OBVIOUS
  <1> DEFINE size == buffered_inbound[1].size
             bytes == buffered_inbound[1].bytes
             front == SubSeq(wire, 1, k)
             back == SubSeq(wire, k + 1, Len(wire))
  <1>1. TypeOK /\ ReaderInv /\ InOrder /\ TransitInv /\ LoopInv /\ NoSpuriousError
    BY DEF QuicInv
  <1>2. /\ Reading /\ k <= size - Len(bytes) /\ k <= Len(wire) /\ wire' = back
        /\ UNCHANGED <<writeVars, reader, buffered_message_length, received, lost, fabricVars>>
    BY DEF ReadBytes, Missing
  <1>3. buffered_inbound # <<>> /\ buffered_inbound[1] \in [size : Nat, bytes : Seq(Byte)]
    BY <1>1, <1>2, SomeElim DEF TypeOK, ReaderInv
  <1>4. size \in Nat /\ bytes \in Seq(Byte) /\ wire \in Seq(Byte) /\ k \in Nat
    BY <1>1, <1>3, QuicAssumption DEF TypeOK
  <1>5. /\ front \in Seq(Byte) /\ Len(front) = k /\ back \in Seq(Byte)
        /\ Len(back) = Len(wire) - k /\ front \o back = wire
    BY <1>2, <1>4, SplitAt
  <1>6. buffered_inbound' = <<[size |-> size, bytes |-> bytes \o front]>>
    <2>1. buffered_inbound' = <<[buffered_inbound[1] EXCEPT !.bytes = bytes \o front]>>
      BY DEF ReadBytes
    <2>2. [buffered_inbound[1] EXCEPT !.bytes = bytes \o front]
            = [size |-> size, bytes |-> bytes \o front]
      BY <1>3, ReadInto
    <2>3. QED
      BY <2>1, <2>2
  <1> HIDE DEF front, back, size, bytes
  <1>7. bytes \o front \in Seq(Byte) /\ Len(bytes \o front) = Len(bytes) + k
    BY <1>4, <1>5, ConcatProperties
  <1>8. /\ buffered_inbound' \in [1 .. 1 -> [size : Nat, bytes : Seq(Byte)]]
        /\ buffered_inbound' # <<>> /\ buffered_inbound'[1].size = size
        /\ buffered_inbound'[1].bytes = bytes \o front
    <2>1. [size |-> size, bytes |-> bytes \o front] \in [size : Nat, bytes : Seq(Byte)]
      BY <1>4, <1>7
    <2>2. QED
      BY <2>1, <1>6, SomeIntro
  <1>9. TypeOK'
    <2>1. wire' \in Seq(Byte) /\ Len(wire') <= Window
      BY <1>1, <1>2, <1>4, <1>5, QuicAssumption DEF TypeOK
    <2>2. QED
      BY <1>1, <1>2, <1>8, <2>1 DEF TypeOK, writeVars, fabricVars
  <1>10. ReaderInv'
    <2>1. Len(bytes) + k <= size
      BY <1>2, <1>4
    <2>2. size = IF buffered_message_length = <<>> THEN HeaderLen ELSE buffered_message_length[1]
      BY <1>1, <1>3 DEF ReaderInv, size
    <2>3. QED
      BY <1>1, <1>2, <1>7, <1>8, <2>1, <2>2 DEF ReaderInv, Reading
  <1>11. InOrder'
    BY <1>1, <1>2 DEF InOrder
  <1>12. TransitInv'
    <2>1. /\ Inbound' = bytes \o front /\ Outbound' = Outbound /\ Inbound = bytes
      BY <1>2, <1>3, <1>8 DEF Inbound, Outbound, bytes, writeVars
    <2>2. InTransit' = ((bytes \o front) \o back) \o Outbound
      BY <1>2, <2>1 DEF InTransit, Inbound, Outbound
    <2>3. (bytes \o front) \o back = bytes \o wire
      <3>1. (bytes \o front) \o back = bytes \o (front \o back)
        BY <1>4, <1>5, Regroup
      <3>2. QED
        BY <3>1, <1>5
    <2>4. InTransit = (bytes \o wire) \o Outbound
      BY <2>1 DEF InTransit, Inbound, Outbound
    <2>5. QED
      BY <1>1, <1>2, <2>2, <2>3, <2>4, TransitUnchanged DEF writeVars
  <1>13. LoopInv' /\ NoSpuriousError'
    BY <1>1, <1>2 DEF LoopInv, NoSpuriousError, writeVars, fabricVars
  <1>14. QED
    BY <1>9, <1>10, <1>11, <1>12, <1>13 DEF QuicInv

\* When a buffer is full, what it holds is the stretch of the message that the
\* parser needs next, and what is left in transit begins right after it.
LEMMA Decodes ==
    ASSUME QuicInv, Reading, Missing = 0
    PROVE  LET m     == Len(received) + 1
               bytes == buffered_inbound[1].bytes
               first == IF buffered_message_length = <<>> THEN 1 ELSE HeaderLen + 1
               last  == IF buffered_message_length = <<>> THEN HeaderLen ELSE Size(m)
               rest  == wire \o Outbound
           IN /\ m \in Messages /\ bytes[1].msg = m /\ bytes = BytesOf(m, first, last)
              /\ rest \in Seq(Byte) /\ Run(rest)
              /\ rest = <<>> => n_sent = m /\ last = Size(m)
              /\ rest # <<>> =>
                    /\ rest[1] = Succ([msg |-> m, pos |-> last])
                    /\ rest[Len(rest)] = [msg |-> n_sent, pos |-> Size(n_sent)]
  <1> DEFINE m     == Len(received) + 1
             bytes == buffered_inbound[1].bytes
             first == IF buffered_message_length = <<>> THEN 1 ELSE HeaderLen + 1
             last  == IF buffered_message_length = <<>> THEN HeaderLen ELSE Size(m)
             rest  == wire \o Outbound
  <1>1. TypeOK /\ ReaderInv /\ TransitInv
    BY DEF QuicInv
  <1>2. /\ buffered_inbound # <<>> /\ buffered_inbound[1] \in [size : Nat, bytes : Seq(Byte)]
        /\ Inbound = bytes
    BY <1>1, SomeElim DEF TypeOK, ReaderInv, Inbound
  <1>3. /\ bytes \in Seq(Byte) /\ rest \in Seq(Byte) /\ InTransit = bytes \o rest
        /\ InTransit \in Seq(Byte)
    BY <1>1, <1>2, TransitParts
  <1>4. Len(bytes) = IF buffered_message_length = <<>> THEN HeaderLen ELSE BodyLen(m)
    <2>1. Len(bytes) \in Nat /\ buffered_inbound[1].size \in Nat
      BY <1>2, LenProperties
    <2>2. Len(bytes) = buffered_inbound[1].size
      BY <2>1 DEF Missing
    <2>3. QED
      BY <1>1, <1>2, <2>2 DEF ReaderInv
  <1>5. Len(bytes) > 0
    <2>1. CASE buffered_message_length = <<>>
      BY <2>1, <1>4, QuicAssumption
    <2>2. CASE buffered_message_length # <<>>
      <3>1. m \in Messages
        BY <2>2, <1>1 DEF ReaderInv
      <3>2. QED
        BY <2>2, <1>4, <3>1, SizeFacts
    <2>3. QED
      BY <2>1, <2>2
  <1>6. bytes # <<>> /\ InTransit # <<>>
    BY <1>3, <1>5, ConcatEqualIffEmpty
  <1>7. /\ InTransit[1] = [msg |-> m, pos |-> first] /\ Run(InTransit)
        /\ InTransit[Len(InTransit)] = [msg |-> n_sent, pos |-> Size(n_sent)]
    BY <1>1, <1>6 DEF TransitInv, NextByte
  <1>8. m \in Messages
    <2>1. 1 \in 1 .. Len(InTransit)
      <3>1. Len(InTransit) \in Nat \ {0}
        BY <1>3, <1>6, EmptySeq
      <3>2. QED
        BY <3>1
    <2>2. InTransit[1] \in Byte
      BY <2>1, <1>3, ElementOfSeq
    <2>3. QED
      BY <2>2, <1>7, ByteFacts
  <1>9. /\ first \in Nat \ {0} /\ last \in Nat /\ last <= Size(m)
        /\ Len(bytes) = last - first + 1
    BY <1>4, <1>8, SizeFacts
  <1>10. Run(rest)
    BY <1>3, <1>7, RunSuffix
  <1> HIDE DEF m, bytes, first, last, rest
  <1>11. /\ bytes = BytesOf(m, first, last) /\ bytes[1].msg = m
         /\ rest = <<>> => InTransit[Len(InTransit)] = [msg |-> m, pos |-> last]
         /\ rest # <<>> => /\ rest[1] = Succ([msg |-> m, pos |-> last])
                           /\ rest[Len(rest)] = InTransit[Len(InTransit)]
    <2>1. Run(bytes \o rest) /\ (bytes \o rest)[1] = [msg |-> m, pos |-> first]
      BY <1>3, <1>7
    <2>2. /\ bytes = BytesOf(m, first, last) /\ bytes[1].msg = m
          /\ rest = <<>> => (bytes \o rest)[Len(bytes \o rest)] = [msg |-> m, pos |-> last]
          /\ rest # <<>> => /\ rest[1] = Succ([msg |-> m, pos |-> last])
                            /\ rest[Len(rest)] = (bytes \o rest)[Len(bytes \o rest)]
      BY <2>1, <1>3, <1>6, <1>8, <1>9, RunTake
    <2>3. QED
      BY <2>2, <1>3
  <1>12. rest = <<>> => n_sent = m /\ last = Size(m)
    BY <1>7, <1>11
  <1>13. QED
    BY <1>3, <1>7, <1>8, <1>10, <1>11, <1>12 DEF m, bytes, first, last, rest

\* read_message_length: the bytes are a header, and its length is the message's.
LEMMA LengthReadStep == QuicInv /\ LengthRead => QuicInv'
  <1> SUFFICES ASSUME QuicInv, LengthRead PROVE QuicInv'
    OBVIOUS
  <1> DEFINE m == Len(received) + 1
             bytes == buffered_inbound[1].bytes
             rest == wire \o Outbound
  <1>1. TypeOK /\ ReaderInv /\ InOrder /\ TransitInv /\ LoopInv /\ NoSpuriousError
    BY DEF QuicInv
  <1>2. Reading /\ Missing = 0 /\ buffered_message_length = <<>>
    BY <1>1 DEF LengthRead, Reading, ReaderInv
  <1>3. /\ m \in Messages /\ bytes[1].msg = m /\ bytes = BytesOf(m, 1, HeaderLen)
        /\ rest \in Seq(Byte) /\ Run(rest)
        /\ rest = <<>> => n_sent = m /\ HeaderLen = Size(m)
        /\ rest # <<>> => /\ rest[1] = Succ([msg |-> m, pos |-> HeaderLen])
                          /\ rest[Len(rest)] = [msg |-> n_sent, pos |-> Size(n_sent)]
    BY <1>2, Decodes
  <1>4. /\ buffered_message_length' = <<BodyLen(m)>>
        /\ buffered_inbound' = <<[size |-> BodyLen(m), bytes |-> <<>>]>>
        /\ reader' = "body"
        /\ UNCHANGED <<writeVars, wire, received, lost, fabricVars>>
    BY <1>3 DEF LengthRead
  <1>5. /\ BodyLen(m) \in Nat /\ Size(m) \in Nat /\ HeaderLen < Size(m) /\ HeaderLen \in Nat
        /\ m \in Nat
    BY <1>3, SizeFacts
  <1> HIDE DEF m, bytes, rest
  <1>6. /\ buffered_message_length' \in [1 .. 1 -> Nat] /\ buffered_message_length' # <<>>
        /\ buffered_message_length'[1] = BodyLen(m)
    BY <1>4, <1>5, SomeIntro
  <1>7. /\ buffered_inbound' \in [1 .. 1 -> [size : Nat, bytes : Seq(Byte)]]
        /\ buffered_inbound' # <<>> /\ buffered_inbound'[1].size = BodyLen(m)
        /\ buffered_inbound'[1].bytes = <<>>
    <2>1. [size |-> BodyLen(m), bytes |-> <<>>] \in [size : Nat, bytes : Seq(Byte)]
      BY <1>5
    <2>2. QED
      BY <2>1, <1>4, SomeIntro
  <1>8. TypeOK'
    BY <1>1, <1>4, <1>6, <1>7 DEF TypeOK, writeVars, fabricVars
  <1>9. ReaderInv'
    <2>1. Len(received') + 1 = m
      BY <1>4 DEF m
    <2>2. Len(buffered_inbound'[1].bytes) <= buffered_inbound'[1].size
      BY <1>5, <1>7
    <2>3. QED
      BY <1>3, <1>4, <1>6, <1>7, <2>1, <2>2 DEF ReaderInv, Reading
  <1>10. InOrder'
    BY <1>1, <1>4 DEF InOrder
  <1>11. TransitInv'
    <2>1. rest # <<>>
      BY <1>3, <1>5
    <2>2. InTransit' = rest
      <3>1. Inbound' = <<>> /\ Outbound' = Outbound
        BY <1>4, <1>7 DEF Inbound, Outbound, writeVars
      <3>2. InTransit' = (<<>> \o wire) \o Outbound
        BY <3>1, <1>4 DEF InTransit, Inbound, Outbound
      <3>3. <<>> \o wire = wire
        BY <1>1, ConcatEmptySeq DEF TypeOK
      <3>4. QED
        BY <3>2, <3>3 DEF rest
    <2>3. Succ([msg |-> m, pos |-> HeaderLen]) = [msg |-> m, pos |-> HeaderLen + 1]
      BY <1>5 DEF Succ
    <2>4. NextByte' = [msg |-> m, pos |-> HeaderLen + 1]
      BY <1>4, <1>6 DEF NextByte, m
    <2>5. n_sent' = n_sent
      BY <1>4 DEF writeVars
    <2>6. QED
      BY <1>3, <2>1, <2>2, <2>3, <2>4, <2>5 DEF TransitInv
  <1>12. LoopInv' /\ NoSpuriousError'
    BY <1>1, <1>4 DEF LoopInv, NoSpuriousError, writeVars, fabricVars
  <1>13. QED
    BY <1>8, <1>9, <1>10, <1>11, <1>12 DEF QuicInv

\* receive_message: the bytes are the whole of the next message.
LEMMA MessageReadStep == QuicInv /\ MessageRead => QuicInv'
  <1> SUFFICES ASSUME QuicInv, MessageRead PROVE QuicInv'
    OBVIOUS
  <1> DEFINE m == Len(received) + 1
             bytes == buffered_inbound[1].bytes
             rest == wire \o Outbound
  <1>1. TypeOK /\ ReaderInv /\ InOrder /\ TransitInv /\ LoopInv /\ NoSpuriousError
    BY DEF QuicInv
  <1>2. Reading /\ Missing = 0 /\ buffered_message_length # <<>>
    BY <1>1 DEF MessageRead, Reading, ReaderInv
  <1>3. /\ m \in Messages /\ bytes[1].msg = m /\ bytes = BytesOf(m, HeaderLen + 1, Size(m))
        /\ rest \in Seq(Byte) /\ Run(rest)
        /\ rest = <<>> => n_sent = m
        /\ rest # <<>> => /\ rest[1] = Succ([msg |-> m, pos |-> Size(m)])
                          /\ rest[Len(rest)] = [msg |-> n_sent, pos |-> Size(n_sent)]
    BY <1>2, Decodes
  <1>4. /\ buffered_message_length' = <<>> /\ buffered_inbound' = <<>>
        /\ received' = Append(received, m) /\ reader' = "parked"
        /\ UNCHANGED <<writeVars, wire, lost, fabricVars>>
    BY <1>3 DEF MessageRead
  <1>5. Size(m) \in Nat /\ m \in Nat
    BY <1>3, SizeFacts
  <1>6. /\ received \in Seq(Messages) /\ Len(received) \in Nat
        /\ received' \in Seq(Messages) /\ Len(received') = m
        /\ \A i \in 1 .. m : received'[i] = IF i <= Len(received) THEN received[i] ELSE m
    BY <1>1, <1>3, <1>4 DEF TypeOK
  <1>7. TypeOK'
    BY <1>1, <1>4, <1>6 DEF TypeOK, writeVars, fabricVars
  <1>8. ReaderInv'
    BY <1>4 DEF ReaderInv, Reading
  <1>9. InOrder'
    <2>1. DOMAIN received' = 1 .. m /\ DOMAIN received = 1 .. Len(received)
      BY <1>6
    <2>2. ASSUME NEW i \in 1 .. m PROVE received'[i] = i
      <3>1. CASE i <= Len(received)
        BY <3>1, <2>1, <1>1, <1>6 DEF InOrder
      <3>2. CASE i > Len(received)
        BY <3>2, <1>6
      <3>3. QED
        BY <3>1, <3>2, <1>6
    <2>3. QED
      BY <2>1, <2>2 DEF InOrder
  <1> HIDE DEF m, bytes, rest
  <1>10. TransitInv'
    <2>1. InTransit' = rest
      <3>1. Inbound' = <<>> /\ Outbound' = Outbound
        BY <1>4 DEF Inbound, Outbound, writeVars
      <3>2. InTransit' = (<<>> \o wire) \o Outbound
        BY <3>1, <1>4 DEF InTransit, Inbound, Outbound
      <3>3. <<>> \o wire = wire
        BY <1>1, ConcatEmptySeq DEF TypeOK
      <3>4. QED
        BY <3>2, <3>3 DEF rest
    <2>2. Succ([msg |-> m, pos |-> Size(m)]) = [msg |-> m + 1, pos |-> 1]
      BY <1>5 DEF Succ
    <2>3. NextByte' = [msg |-> m + 1, pos |-> 1]
      BY <1>4, <1>6 DEF NextByte
    <2>4. n_sent' = n_sent
      BY <1>4 DEF writeVars
    <2>5. QED
      BY <1>3, <1>4, <1>6, <2>1, <2>2, <2>3, <2>4 DEF TransitInv
  <1>11. LoopInv' /\ NoSpuriousError'
    BY <1>1, <1>4 DEF LoopInv, NoSpuriousError, writeVars, fabricVars
  <1>12. QED
    BY <1>7, <1>8, <1>9, <1>10, <1>11 DEF QuicInv

-----------------------------------------------------------------------------
(* The theorems. *)

\* A new link, with nothing sent and nothing read.
LEMMA InitQuicInv == Init => QuicInv
  <1> SUFFICES ASSUME Init PROVE QuicInv
    OBVIOUS
  <1>1. TypeOK
    <2>1. wire \in Seq(Byte) /\ Len(wire) <= Window /\ received \in Seq(Messages)
      BY QuicAssumption, EmptySeq DEF Init
    <2>2. /\ n_queued \in 0 .. NMsgs /\ n_sent \in 0 .. n_queued
          /\ fabrics \in 0 .. MaxFabrics /\ calls \in 0 .. fabrics
      BY QuicAssumption DEF Init
    <2>3. QED
      BY <2>1, <2>2 DEF Init, TypeOK
  <1>2. ReaderInv /\ InOrder /\ LoopInv /\ NoSpuriousError
    BY DEF Init, ReaderInv, InOrder, LoopInv, NoSpuriousError, Reading
  <1>3. TransitInv
    <2>1. InTransit = <<>>
      BY DEF Init, InTransit
    <2>2. QED
      BY <2>1 DEF Init, TransitInv
  <1>4. QED
    BY <1>1, <1>2, <1>3 DEF QuicInv

\* Every step of the two loops, of the fabric and of the network keeps QuicInv.
LEMMA QuicInvStep == QuicInv /\ [Next]_vars => QuicInv'
  <1> SUFFICES ASSUME QuicInv, [Next]_vars PROVE QuicInv'
    OBVIOUS
  <1>1. CASE WriterNext
    BY <1>1, StartSendStep, FlushDoneStep, WriterEndsStep, WriteBytesStep DEF WriterNext
  <1>2. CASE ReaderNext
    BY <1>2, PollNextStep, ReaderStopsStep, LengthReadStep, MessageReadStep, ReadBytesStep
       DEF ReaderNext
  <1>3. CASE Lose \/ QueuePayload \/ Shutdown \/ Broadcast \/ DropFabric \/ ExecutorStops
             \/ RunReturns
    BY <1>3, FabricStep
  <1>4. CASE UNCHANGED vars
    <2>1. UNCHANGED <<writeVars, wire, readVars>> /\ UNCHANGED lost /\ UNCHANGED fabricVars
      BY <1>4 DEF vars
    <2>2. ReaderInv' /\ InOrder' /\ TransitInv'
      BY <2>1, LoopsUnchanged DEF QuicInv
    <2>3. TypeOK' /\ LoopInv' /\ NoSpuriousError'
      BY <2>1 DEF QuicInv, TypeOK, LoopInv, NoSpuriousError, writeVars, readVars, fabricVars
    <2>4. QED
      BY <2>2, <2>3 DEF QuicInv
  <1>5. QED
    BY <1>1, <1>2, <1>3, <1>4 DEF Next

\* The inductive invariant holds in every reachable state.
THEOREM QuicInvariant == Spec => []QuicInv
  <1>1. Init => QuicInv
    BY InitQuicInv
  <1>2. QuicInv /\ [Next]_vars => QuicInv'
    BY QuicInvStep
  <1>3. QED
    BY <1>1, <1>2, PTL DEF Spec

\* The link is correctly typed and never holds more than the stream's window.
THEOREM QuicTypeCorrect == Spec => []TypeOK
  <1>1. QuicInv => TypeOK
    BY DEF QuicInv
  <1>2. QED
    BY <1>1, QuicInvariant, PTL

\* StreamExact for any messages and any window: however writes and reads are cut
\* and however often a pending future of poll_next or poll_flush is dropped, the
\* messages arrive whole, once each and in order, and no byte on its way is lost,
\* repeated or reordered.
THEOREM StreamIsExact == Spec => []StreamExact
  <1>1. QuicInv => StreamExact
    BY DEF QuicInv, TransitInv, StreamExact, Run
  <1>2. QED
    BY <1>1, QuicInvariant, PTL

\* NoSpuriousError for any messages and any number of clones of the fabric:
\* without a loss no write, read, decode or send fails, and shutdown panics only
\* after a loss or after another clone was shut down.
THEOREM ErrorsNeedLoss == Spec => []NoSpuriousError
  <1>1. QuicInv => NoSpuriousError
    BY DEF QuicInv
  <1>2. QED
    BY <1>1, QuicInvariant, PTL
=============================================================================
