------------------------ MODULE TcpConnection_proofs -------------------------
(* Proofs about the two directions of a connection.                           *)
(*                                                                            *)
(* TcpReceive: every peer's messages get through as they were sent as long as *)
(* no readv goes on in the second iovec.  The peer of a server that answers   *)
(* never gets there: one that sends groups of messages, each group when the   *)
(* one before was delivered and none longer than half of a receive buffer.    *)
(* Its messages pass through a buffer that never grows.                       *)
(* TcpSend: the send list stays well formed whatever writev returns, and      *)
(* buffers of one size that are written whole are sent once and in order.     *)
EXTENDS TcpReceive, TcpSend, SequenceLemmas

\* No message is a bare header or longer than the signed length (32767 in the
\* code).
Encodable == \A i \in Messages : Size(i) > HeaderLen /\ 2 * Size(i) < LenRange

\* What the peer sends without waiting when k messages are delivered.
Burst(k) == Bounds[Ahead[k] + 1] - Bounds[k + 1]

\* The groups of messages the theorems are about: a group is sent to its end
\* before the next one begins, and is at most half a buffer (512 in the code).
Modest ==
  /\ Encodable
  /\ \A k \in 0 .. Len(Bounds) - 1 : Ahead[k] >= k /\ Burst(k) >= 0
  /\ \A k \in 0 .. Len(Bounds) - 2 : Ahead[k] > k + 1 => Ahead[k + 1] = Ahead[k]
  /\ \A k \in 0 .. Len(Bounds) - 1 : 2 * Burst(k) <= PredLen

\* TypeOK is inductive.  Received is inductive relative to it for every peer:
\* what a readv took went to the end of rcv or into the second iovec.  Contained
\* is inductive relative to both: with the buffer's size bounded, RestFits says
\* that what is missing of the group that began fits behind what is there, so
\* that readv never reaches its second iovec.

------------------------------------------------------------------------------
(* Streams of bytes *)

LEMMA BytesSeq ==
  ASSUME NEW a \in Nat, NEW b \in Nat, a <= b
  PROVE  /\ Bytes(a, b) \in Seq(Nat)
         /\ Len(Bytes(a, b)) = b - a
         /\ \A k \in 1 .. b - a : Bytes(a, b)[k] = a + k
  BY DEF Bytes

LEMMA BytesEmpty == ASSUME NEW a \in Nat PROVE Bytes(a, a) = <<>>
<1>1. Bytes(a, a) \in Seq(Nat) /\ Len(Bytes(a, a)) = 0
  BY BytesSeq
<1> QED
  BY <1>1, EmptySeq

LEMMA BytesConcat ==
  ASSUME NEW a \in Nat, NEW b \in Nat, NEW c \in Nat, a <= b, b <= c
  PROVE  Bytes(a, b) \o Bytes(b, c) = Bytes(a, c)
<1> DEFINE p == Bytes(a, b)
           q == Bytes(b, c)
           r == Bytes(a, c)
<1>0. a <= c
  OBVIOUS
<1>1. p \in Seq(Nat) /\ Len(p) = b - a /\ \A k \in 1 .. b - a : p[k] = a + k
  BY BytesSeq
<1>2. q \in Seq(Nat) /\ Len(q) = c - b /\ \A k \in 1 .. c - b : q[k] = b + k
  BY BytesSeq
<1>3. r \in Seq(Nat) /\ Len(r) = c - a /\ \A k \in 1 .. c - a : r[k] = a + k
  BY <1>0, BytesSeq
<1> HIDE DEF p, q, r
<1> DEFINE t == p \o q
<1>4. /\ t \in Seq(Nat) /\ Len(t) = Len(p) + Len(q)
      /\ \A k \in 1 .. Len(p) + Len(q) :
           t[k] = IF k <= Len(p) THEN p[k] ELSE q[k - Len(p)]
  BY <1>1, <1>2, ConcatProperties
<1> HIDE DEF t
<1>5. Len(t) = c - a
  BY <1>1, <1>2, <1>4
<1>6. ASSUME NEW k \in 1 .. Len(t)  PROVE t[k] = r[k]
  <2>1. CASE k <= b - a
    BY <2>1, <1>1, <1>2, <1>3, <1>4, <1>5
  <2>2. CASE ~(k <= b - a)
    <3>1. k - (b - a) \in 1 .. c - b
      BY <2>2, <1>5
    <3>2. t[k] = q[k - (b - a)]
      BY <2>2, <1>1, <1>2, <1>4, <1>5
    <3> QED
      BY <3>1, <3>2, <1>2, <1>3, <1>5
  <2> QED
    BY <2>1, <2>2
<1>7. t = r
  BY <1>3, <1>4, <1>5, <1>6, SeqEqual
<1> QED
  BY <1>7 DEF p, q, r, t

LEMMA BytesFromStart ==
  ASSUME NEW b \in Nat, NEW c \in Nat, b <= c
  PROVE  Bytes(0, b) \o Bytes(b, c) = Bytes(0, c)
<1>1. PICK a \in Nat : a = 0
  OBVIOUS
<1>2. a <= b
  BY <1>1
<1>3. Bytes(a, b) \o Bytes(b, c) = Bytes(a, c)
  BY <1>2, BytesConcat
<1> QED BY <1>1, <1>3

LEMMA BytesPart ==
  ASSUME NEW a \in Nat, NEW b \in Nat, a <= b,
         NEW c \in Nat, a <= c, NEW d \in Nat, c <= d, d <= b,
         NEW i \in Nat, i = (c - a) + 1, NEW n \in Nat, n = d - a
  PROVE  SubSeq(Bytes(a, b), i, n) = Bytes(c, d)
<1> DEFINE p == Bytes(a, b)
           q == SubSeq(p, i, n)
           r == Bytes(c, d)
<1>1. p \in Seq(Nat) /\ Len(p) = b - a /\ \A k \in 1 .. b - a : p[k] = a + k
  BY BytesSeq
<1>2. r \in Seq(Nat) /\ Len(r) = d - c /\ \A k \in 1 .. d - c : r[k] = c + k
  <2>1. c <= d
    OBVIOUS
  <2> QED
    BY <2>1, BytesSeq
<1> HIDE DEF p, r
<1>3. /\ q \in Seq(Nat) /\ Len(q) = d - c
      /\ \A k \in 1 .. d - c : q[k] = p[(c - a) + k]
  <2>1. \A k \in i .. n : p[k] \in Nat
    BY <1>1
  <2>2. /\ q \in Seq(Nat)
        /\ Len(q) = IF i <= n THEN n - i + 1 ELSE 0
        /\ \A k \in 1 .. n - i + 1 : q[k] = p[i + k - 1]
    BY <2>1, SubSeqProperties
  <2>3. i <= n + 1 /\ n - i + 1 = d - c
    OBVIOUS
  <2>4. \A k \in 1 .. d - c : i + k - 1 = (c - a) + k
    OBVIOUS
  <2> HIDE DEF q
  <2>5. Len(q) = d - c
    BY <2>2, <2>3
  <2> QED
    BY <2>2, <2>3, <2>4, <2>5
<1> HIDE DEF q
<1>4. \A k \in 1 .. Len(q) : q[k] = r[k]
  BY <1>1, <1>2, <1>3
<1>5. q = r
  BY <1>2, <1>3, <1>4, SeqEqual
<1> QED
  BY <1>5 DEF p, q, r

\* Messages follow each other, and none is empty.
LEMMA BoundsGrow ==
  ASSUME NEW i \in Messages
  PROVE  /\ Bounds[i] \in Nat /\ Bounds[i + 1] \in Nat
         /\ Size(i) \in Nat /\ Size(i) > 0
         /\ Bounds[i + 1] = Bounds[i] + Size(i)
         /\ Size(i) >= LenBytes
<1>1. /\ Bounds \in Seq(Nat) /\ LenBytes \in Nat /\ LenBytes > 0
      /\ HeaderLen \in Nat /\ HeaderLen >= LenBytes
      /\ Size(i) >= HeaderLen
  BY ReceiveAssumption
<1>2. Bounds[i] \in Nat /\ Bounds[i + 1] \in Nat
  <2>1. i \in 1 .. Len(Bounds) /\ i + 1 \in 1 .. Len(Bounds)
    BY <1>1 DEF Messages
  <2> QED
    BY <2>1, <1>1
<1>3. Size(i) = Bounds[i + 1] - Bounds[i]
  BY DEF Size
<1> HIDE DEF Size
<1> QED
  BY <1>1, <1>2, <1>3

\* What the peer may send ends where a message ends.
LEMMA AheadEnds ==
  ASSUME NEW k \in Nat, k <= Len(Bounds) - 1
  PROVE  /\ Len(Bounds) \in Nat
         /\ Ahead[k] \in Nat /\ Ahead[k] <= Len(Bounds) - 1
         /\ Bounds[Ahead[k] + 1] \in Nat /\ Bounds[k + 1] \in Nat
<1>1. Bounds \in Seq(Nat)
  BY ReceiveAssumption
<1>2. Ahead \in [0 .. Len(Bounds) - 1 -> 0 .. Len(Bounds) - 1]
  BY ReceiveAssumption
<1>3. Len(Bounds) \in Nat /\ \A i \in 1 .. Len(Bounds) : Bounds[i] \in Nat
  BY <1>1
<1>4. k \in 0 .. Len(Bounds) - 1
  BY <1>3
<1>5. Ahead[k] \in 0 .. Len(Bounds) - 1
  BY <1>2, <1>4
<1>6. Ahead[k] \in Nat /\ Ahead[k] + 1 \in 1 .. Len(Bounds) /\ k + 1 \in 1 .. Len(Bounds)
  BY <1>3, <1>4, <1>5
<1> QED
  BY <1>3, <1>5, <1>6

LEMMA SmallModulo ==
  ASSUME NEW x \in Nat, NEW m \in Nat, x < m
  PROVE  x % m = x
  OBVIOUS

------------------------------------------------------------------------------
(* The buffer and its types *)

\* The buffer a round of handleRead reads into: replaced, or as it was.
Offset == Current.offset

LEMMA ReadInto ==
  ASSUME offset \in Nat, size \in Nat, rcv \in Seq(Nat), offset + Len(rcv) <= size
  PROVE  /\ Room \in Nat /\ Offset \in Nat
         /\ Replaced => Room = PredLen /\ Offset = 0 /\ Len(rcv) = 0
         /\ ~Replaced => Offset = offset /\ offset + Len(rcv) + Room = size
         /\ ~Replaced /\ Len(rcv) = 0 => 2 * Room >= PredLen
         /\ \A n \in Nat : Enlarge(Current, n).size = Offset + Len(rcv) + Room + n
<1>0. PredLen \in Nat /\ Len(rcv) \in Nat
  BY ReceiveAssumption
<1>1. CASE Replaced
  <2>1. Current = [offset |-> 0, len |-> 0, size |-> PredLen]
    BY <1>1 DEF Current, New
  <2>2. Len(rcv) = 0
    BY <1>1 DEF Replaced, ReadableSize, Buf
  <2>3. Offset = 0 /\ Room = PredLen
    BY <2>1, <1>0 DEF Offset, Room, WrittableSize
  <2>4. \A n \in Nat : Enlarge(Current, n).size = PredLen + n
    BY <2>1 DEF Enlarge
  <2> QED
    BY <1>0, <1>1, <2>2, <2>3, <2>4
<1>2. CASE ~Replaced
  <2>1. Current = [offset |-> offset, len |-> Len(rcv), size |-> size]
    BY <1>2 DEF Current, Buf
  <2>2. Offset = offset /\ Room = size - (offset + Len(rcv))
    BY <2>1 DEF Offset, Room, WrittableSize
  <2>3. \A n \in Nat : Enlarge(Current, n).size = size + n
    BY <2>1 DEF Enlarge
  <2>4. ~(Len(rcv) = 0 /\ 2 * Room < PredLen)
    BY <1>2, <2>2 DEF Replaced, ReadableSize, WrittableSize, Buf
  <2> QED
    BY <1>0, <1>2, <2>2, <2>3, <2>4
<1> QED
  BY <1>1, <1>2

\* What split and ensure do to the buffer.
LEMMA SplitOff ==
  ASSUME NEW n \in Int
  PROVE  /\ CanSplit(Buf, n) <=> n <= Len(rcv)
         /\ SplitAt(Buf, n).left.offset = offset + n
         /\ ReadableSize(SplitAt(Buf, n).piece) = n
         /\ Ensure(Buf, n).size = IF n + offset > size THEN n + offset ELSE size
<1>1. CanSplit(Buf, n) <=> n <= Len(rcv)
  BY DEF CanSplit, Buf
<1>2. SplitAt(Buf, n).left.offset = offset + n
  BY DEF SplitAt, MarkRead, Buf
<1>3. Ensure(Buf, n).size = IF n + offset > size THEN n + offset ELSE size
  BY DEF Ensure, Buf
<1>4. ReadableSize(SplitAt(Buf, n).piece) = n
  BY DEF SplitAt, ReadableSize, Buf
<1> QED
  BY <1>1, <1>2, <1>3, <1>4

LEMMA PackLengthInt == PackLength \in Int
<1>1. CASE Len(rcv) >= LenBytes /\ AtMessage
  <2>1. Size(Len(delivered) + 1) \in Nat
    BY <1>1, BoundsGrow DEF AtMessage
  <2>2. Size(Len(delivered) + 1) % LenRange \in Int /\ LenRange \in Int
    BY <2>1, ReceiveAssumption
  <2> QED
    BY <1>1, <2>2 DEF PackLength, Signed, LenField
<1>2. CASE ~(Len(rcv) >= LenBytes /\ AtMessage)
  BY <1>2 DEF PackLength
<1> QED
  BY <1>1, <1>2

\* One readv: what it took, and what of that went into the buffer.
LEMMA ReadvForm ==
  ASSUME TypeOK, Readv
  PROVE  \E n \in Nat, kept \in Nat :
           /\ n = Least(wrote - taken, Capacity) /\ kept = Least(n, Room)
           /\ n <= wrote - taken /\ kept <= n /\ kept <= Room
           /\ n # Capacity => n = wrote - taken
           /\ Capacity > 0
           /\ taken' = taken + n /\ rcv' = rcv \o Bytes(taken, taken + kept)
           /\ rcv' \in Seq(Nat) /\ Len(rcv') = Len(rcv) + kept
           /\ offset' = Offset /\ size' = Offset + Len(rcv) + Room + (n - kept)
           /\ full' = (n = Capacity) /\ pc' = (IF n = 0 THEN "idle" ELSE "dispatch")
           /\ spilled' \in BOOLEAN
           /\ ~spilled' => ~spilled /\ n = kept
           /\ ~spilled /\ n = kept => ~spilled'
           /\ pc = "readv" /\ UNCHANGED <<wrote, edge, delivered, failed, burst>>
<1>0. /\ wrote \in Nat /\ taken \in Nat /\ taken <= wrote /\ Len(rcv) \in Nat
      /\ rcv \in Seq(Nat) /\ offset \in Nat /\ size \in Nat
      /\ offset + Len(rcv) <= size
      /\ PredLen \in Nat /\ Pending \in Nat /\ Pending > 0
  BY ReceiveAssumption DEF TypeOK
<1> DEFINE n == Least(wrote - taken, Capacity)
           kept == Least(n, Room)
<1>1. /\ Room \in Nat /\ Offset \in Nat
  BY <1>0, ReadInto
<1>2. Capacity \in Nat /\ Capacity > 0
  BY <1>1, <1>0 DEF Capacity
<1>3. /\ n \in Nat /\ n <= wrote - taken
      /\ n # Capacity => n = wrote - taken
  BY <1>0, <1>2 DEF Least
<1>a. n = Least(wrote - taken, Capacity)
  OBVIOUS
<1> HIDE DEF n
<1>4. kept \in Nat /\ kept <= n /\ kept <= Room /\ kept = Least(n, Room)
  BY <1>1, <1>3 DEF Least
<1> HIDE DEF kept
<1>5. /\ taken' = taken + n /\ rcv' = rcv \o Bytes(taken, taken + kept)
      /\ offset' = Offset /\ size' = Enlarge(Current, n - kept).size
      /\ full' = (n = Capacity) /\ pc' = (IF n = 0 THEN "idle" ELSE "dispatch")
      /\ spilled' = (spilled \/ n > kept)
      /\ pc = "readv" /\ UNCHANGED <<wrote, edge, delivered, failed, burst>>
  BY DEF Readv, Offset, n, kept
<1>6. /\ Bytes(taken, taken + kept) \in Seq(Nat)
      /\ Len(Bytes(taken, taken + kept)) = kept
  <2>1. taken + kept \in Nat /\ taken <= taken + kept
        /\ (taken + kept) - taken = kept
    BY <1>0, <1>4
  <2> QED
    BY <2>1, <1>0, BytesSeq
<1>7. rcv' \in Seq(Nat) /\ Len(rcv') = Len(rcv) + kept
  BY <1>0, <1>5, <1>6, ConcatProperties
<1>8. size' = Offset + Len(rcv) + Room + (n - kept)
  <2>1. n - kept \in Nat
    BY <1>3, <1>4
  <2> QED
    BY <2>1, <1>5, <1>0, ReadInto
<1>9. /\ spilled' \in BOOLEAN
      /\ ~spilled' => ~spilled /\ n = kept
      /\ ~spilled /\ n = kept => ~spilled'
  <2>1. n > kept <=> n # kept
    BY <1>3, <1>4
  <2>2. spilled' = (spilled \/ n > kept)
    BY <1>5
  <2> QED
    BY <2>1, <2>2, Zenon
<1> QED
  BY <1>a, <1>2, <1>3, <1>4, <1>5, <1>7, <1>8, <1>9

\* A message is split off.
LEMMA DeliverForm ==
  ASSUME TypeOK, Deliver
  PROVE  /\ PackLength \in Nat /\ PackLength > 0 /\ PackLength <= Len(rcv)
         /\ Len(delivered) + 1 \in Messages
         /\ delivered' = Append(delivered, SubSeq(rcv, 1, PackLength))
         /\ delivered' \in Seq(Seq(Nat)) /\ Len(delivered') = Len(delivered) + 1
         /\ rcv' = SubSeq(rcv, PackLength + 1, Len(rcv))
         /\ rcv' \in Seq(Nat) /\ Len(rcv') = Len(rcv) - PackLength
         /\ offset' = offset + PackLength
         /\ failed' = (PackLength <= HeaderLen)
         /\ UNCHANGED <<wrote, edge, taken, size, pc, full, burst, spilled>>
<1>0. Len(rcv) \in Nat /\ rcv \in Seq(Nat) /\ delivered \in Seq(Seq(Nat))
  BY DEF TypeOK
<1>1. PackLength \in Nat /\ PackLength > 0 /\ PackLength <= Len(rcv)
  BY <1>0, PackLengthInt, SplitOff DEF Deliver
<1>2. /\ rcv' = SubSeq(rcv, PackLength + 1, Len(rcv))
      /\ offset' = offset + PackLength
      /\ delivered' = Append(delivered, SubSeq(rcv, 1, PackLength))
      /\ failed' = (PackLength <= HeaderLen)
      /\ UNCHANGED <<wrote, edge, taken, size, pc, full, burst, spilled>>
  BY PackLengthInt, SplitOff DEF Deliver
<1>3. rcv' \in Seq(Nat) /\ Len(rcv') = Len(rcv) - PackLength
  <2>1. \A j \in PackLength + 1 .. Len(rcv) : rcv[j] \in Nat
    BY <1>0, <1>1
  <2>2. /\ SubSeq(rcv, PackLength + 1, Len(rcv)) \in Seq(Nat)
        /\ Len(SubSeq(rcv, PackLength + 1, Len(rcv)))
             = IF PackLength + 1 <= Len(rcv)
               THEN Len(rcv) - (PackLength + 1) + 1 ELSE 0
    BY <1>0, <1>1, <2>1, SubSeqProperties
  <2>3. PackLength + 1 <= Len(rcv) + 1
    BY <1>0, <1>1
  <2>4. Len(SubSeq(rcv, PackLength + 1, Len(rcv))) = Len(rcv) - PackLength
    BY <1>0, <1>1, <2>2, <2>3
  <2> QED
    BY <1>2, <2>2, <2>4
<1>4. SubSeq(rcv, 1, PackLength) \in Seq(Nat)
  <2>1. \A j \in 1 .. PackLength : rcv[j] \in Nat
    BY <1>0, <1>1
  <2> QED
    BY <1>0, <1>1, <2>1, SubSeqProperties
<1>5. delivered' \in Seq(Seq(Nat)) /\ Len(delivered') = Len(delivered) + 1
  BY <1>0, <1>2, <1>4, AppendProperties
<1>6. Len(delivered) + 1 \in Messages
  BY DEF Deliver, PackLength, AtMessage
<1> QED
  BY <1>1, <1>2, <1>3, <1>5, <1>6

\* ensure() makes room for the message that began.
LEMMA DispatchEndForm ==
  ASSUME TypeOK, DispatchEnd
  PROVE  /\ UNCHANGED <<wrote, edge, taken, rcv, offset, full, delivered, failed, burst, spilled>>
         /\ pc = "dispatch" /\ pc' = (IF full THEN "readv" ELSE "idle")
         /\ size' = IF PackLength > 0 /\ PackLength + offset > size
                    THEN PackLength + offset ELSE size
         /\ size' \in Nat /\ size <= size'
         /\ PackLength <= 0 \/ PackLength > Len(rcv)
<1>1. /\ UNCHANGED <<wrote, edge, taken, rcv, offset, full, delivered, failed, burst, spilled>>
      /\ pc = "dispatch" /\ pc' = (IF full THEN "readv" ELSE "idle")
      /\ size' = IF PackLength > 0 /\ PackLength + offset > size
                 THEN PackLength + offset ELSE size
      /\ PackLength <= 0 \/ PackLength > Len(rcv)
  <2>1. PackLength \in Int /\ Len(rcv) \in Nat /\ size \in Nat /\ offset \in Nat
    BY PackLengthInt DEF TypeOK
  <2>2. /\ CanSplit(Buf, PackLength) <=> PackLength <= Len(rcv)
        /\ Ensure(Buf, PackLength).size
             = IF PackLength + offset > size THEN PackLength + offset ELSE size
    BY <2>1, SplitOff
  <2>3. /\ size' = IF PackLength > 0 THEN Ensure(Buf, PackLength).size ELSE size
        /\ PackLength <= 0 \/ ~CanSplit(Buf, PackLength)
        /\ pc = "dispatch" /\ pc' = (IF full THEN "readv" ELSE "idle")
        /\ UNCHANGED <<wrote, edge, taken, rcv, offset, full, delivered, failed, burst, spilled>>
    BY DEF DispatchEnd
  <2> HIDE DEF DispatchEnd
  <2>4. PackLength <= 0 \/ PackLength > Len(rcv)
    BY <2>1, <2>2, <2>3
  <2>5. size' = IF PackLength > 0 /\ PackLength + offset > size
                THEN PackLength + offset ELSE size
    BY <2>2, <2>3
  <2> QED
    BY <2>3, <2>4, <2>5
<1>2. size' \in Nat /\ size <= size'
  BY <1>1, PackLengthInt DEF TypeOK
<1> QED BY <1>1, <1>2

LEMMA InitTypes == Init => TypeOK
<1> SUFFICES ASSUME Init PROVE TypeOK
  OBVIOUS
<1>1. rcv \in Seq(Nat) /\ Len(rcv) = 0
  BY EmptySeq DEF Init
<1>2. delivered \in Seq(Seq(Nat)) /\ Len(delivered) = 0
  BY EmptySeq DEF Init
<1>3. /\ wrote = 0 /\ taken = 0 /\ offset = 0 /\ size = PredLen
      /\ edge \in BOOLEAN /\ full \in BOOLEAN /\ failed \in BOOLEAN
      /\ burst \in BOOLEAN /\ spilled \in BOOLEAN
      /\ pc \in {"idle", "readv", "dispatch"}
  BY DEF Init
<1>4. Len(Bounds) \in Nat /\ Len(Bounds) >= 2 /\ PredLen \in Nat
  BY ReceiveAssumption
<1> QED
  BY <1>1, <1>2, <1>3, <1>4 DEF TypeOK

LEMMA TypesStep == ASSUME TypeOK, [Next]_vars PROVE TypeOK'
<1>0. /\ wrote \in Nat /\ taken \in Nat /\ taken <= wrote /\ Len(rcv) \in Nat
      /\ rcv \in Seq(Nat) /\ offset \in Nat /\ size \in Nat
      /\ offset + Len(rcv) <= size
  BY DEF TypeOK
<1>1. CASE PeerWrite
  <2>1. Stream \in Nat
    BY ReceiveAssumption DEF Stream
  <2>2. wrote' \in Nat /\ wrote <= wrote'
    BY <1>0, <1>1, <2>1 DEF PeerWrite
  <2>3. burst' \in BOOLEAN
    BY <1>1, Zenon DEF PeerWrite, TypeOK
  <2> QED
    BY <1>0, <1>1, <2>2, <2>3 DEF PeerWrite, TypeOK
<1>2. CASE Event
  BY <1>2 DEF Event, TypeOK
<1>3. CASE Readv
  <2>1. PICK n \in Nat, kept \in Nat :
           /\ n <= wrote - taken /\ kept <= n /\ kept <= Room
           /\ taken' = taken + n
           /\ rcv' \in Seq(Nat) /\ Len(rcv') = Len(rcv) + kept
           /\ offset' = Offset /\ size' = Offset + Len(rcv) + Room + (n - kept)
           /\ full' = (n = Capacity) /\ pc' = (IF n = 0 THEN "idle" ELSE "dispatch")
           /\ spilled' \in BOOLEAN
           /\ UNCHANGED <<wrote, edge, delivered, failed, burst>>
    BY <1>3, ReadvForm
  <2>2. /\ Room \in Nat /\ Offset \in Nat
    BY <1>0, ReadInto
  <2>3. offset' \in Nat /\ size' \in Nat /\ offset' + Len(rcv') <= size'
    BY <1>0, <2>1, <2>2
  <2>4. wrote' \in Nat /\ taken' \in 0 .. wrote'
    BY <1>0, <2>1
  <2>5. full' \in BOOLEAN /\ spilled' \in BOOLEAN
    BY <2>1, Zenon DEF TypeOK
  <2> QED
    BY <2>1, <2>3, <2>4, <2>5 DEF TypeOK
<1>4. CASE Deliver
  <2>1. /\ PackLength \in Nat /\ PackLength <= Len(rcv)
        /\ Len(delivered) + 1 \in Messages
        /\ delivered' \in Seq(Seq(Nat)) /\ Len(delivered') = Len(delivered) + 1
        /\ rcv' \in Seq(Nat) /\ Len(rcv') = Len(rcv) - PackLength
        /\ offset' = offset + PackLength
        /\ failed' \in BOOLEAN
        /\ UNCHANGED <<wrote, edge, taken, size, pc, full, burst, spilled>>
    BY <1>4, DeliverForm
  <2>2. offset' \in Nat /\ offset' + Len(rcv') <= size'
    BY <1>0, <2>1
  <2>3. Len(delivered') <= Len(Bounds) - 1
    <3>1. Len(Bounds) \in Nat /\ Len(delivered) \in Nat
      BY ReceiveAssumption DEF TypeOK
    <3> QED
      BY <2>1, <3>1 DEF Messages
  <2> QED
    BY <2>1, <2>2, <2>3 DEF TypeOK
<1>5. CASE DispatchEnd
  <2>1. /\ UNCHANGED <<wrote, edge, taken, rcv, offset, full, delivered, failed, burst, spilled>>
        /\ pc' \in {"readv", "idle"} /\ size' \in Nat /\ size <= size'
    BY <1>5, DispatchEndForm
  <2> QED
    BY <1>0, <2>1 DEF TypeOK
<1>6. CASE UNCHANGED vars
  BY <1>6 DEF vars, TypeOK
<1> QED
  BY <1>1, <1>2, <1>3, <1>4, <1>5, <1>6 DEF Next, Handle

------------------------------------------------------------------------------
(* The socket is emptied: for every stream and every peer *)

\* Why the loop may end: without a new edge, a read that was not full has taken
\* everything.
Emptied ==
  /\ pc = "idle" /\ ~edge => taken = wrote
  /\ pc = "dispatch" /\ ~full /\ ~edge => taken = wrote

LEMMA EmptiedStep == ASSUME TypeOK, Emptied, [Next]_vars PROVE Emptied'
<1>1. CASE PeerWrite
  BY <1>1 DEF PeerWrite, Emptied
<1>2. CASE Event
  BY <1>2 DEF Event, Emptied
<1>3. CASE Readv
  <2>1. PICK n \in Nat :
           /\ n # Capacity => n = wrote - taken
           /\ Capacity > 0 /\ taken' = taken + n /\ wrote' = wrote
           /\ full' = (n = Capacity) /\ pc' = (IF n = 0 THEN "idle" ELSE "dispatch")
    BY <1>3, ReadvForm
  <2>2. n = wrote - taken => taken' = wrote'
    BY <2>1 DEF TypeOK
  <2>3. (pc' = "idle" => n = 0) /\ (~full' => n # Capacity)
    BY <2>1
  <2> QED
    BY <2>1, <2>2, <2>3 DEF Emptied
<1>4. CASE Deliver
  BY <1>4, DeliverForm DEF Emptied
<1>5. CASE DispatchEnd
  BY <1>5, DispatchEndForm DEF Emptied
<1>6. CASE UNCHANGED vars
  BY <1>6 DEF vars, Emptied
<1> QED
  BY <1>1, <1>2, <1>3, <1>4, <1>5, <1>6 DEF Next, Handle

\* handleRead leaves nothing in an edge triggered socket without an edge that
\* brings it back, for every stream, buffer size and peer.
THEOREM SocketEmptied == SafetySpec => []NoStrandedBytes
<1>1. Init => TypeOK /\ Emptied
  BY InitTypes DEF Init, Emptied
<1>2. TypeOK /\ Emptied /\ [Next]_vars => (TypeOK /\ Emptied)'
  BY TypesStep, EmptiedStep
<1>3. Emptied => NoStrandedBytes
  BY DEF Emptied, NoStrandedBytes
<1> QED
  BY <1>1, <1>2, <1>3, PTL DEF SafetySpec

------------------------------------------------------------------------------
(* The stream: for every peer, up to the first readv into the second iovec *)

\* Where the stream is: what rcv is in terms of the positions.
LEMMA WhereIs ==
  ASSUME TypeOK, Received, ~spilled
  PROVE  /\ Len(delivered) \in Nat /\ Len(delivered) <= Len(Bounds) - 1
         /\ Parsed \in Nat /\ taken \in Nat /\ wrote \in Nat
         /\ Parsed <= taken /\ taken <= wrote
         /\ rcv = Bytes(Parsed, taken)
         /\ rcv \in Seq(Nat) /\ Len(rcv) = taken - Parsed
         /\ \A k \in 1 .. taken - Parsed : rcv[k] = Parsed + k
<1>1. /\ Len(delivered) \in Nat /\ Len(delivered) <= Len(Bounds) - 1
      /\ wrote \in Nat /\ taken \in Nat /\ taken <= wrote /\ rcv \in Seq(Nat)
  BY DEF TypeOK
<1>2. rcv = Bytes(Parsed, taken) /\ Parsed <= taken
  BY DEF Received, StreamIntact
<1>3. Len(Bounds) \in Nat /\ \A i \in 1 .. Len(Bounds) : Bounds[i] \in Nat
  BY ReceiveAssumption
<1>4. Parsed \in Nat
  BY <1>1, <1>3 DEF Parsed
<1>5. Len(rcv) = taken - Parsed /\ \A k \in 1 .. taken - Parsed : rcv[k] = Parsed + k
  BY <1>1, <1>2, <1>4, BytesSeq
<1> QED
  BY <1>1, <1>2, <1>4, <1>5

\* The length field in front of the buffer is that of the message that began.
LEMMA LengthSeen ==
  ASSUME Encodable, PackLength > 0
  PROVE  /\ Len(delivered) + 1 \in Messages
         /\ PackLength = Size(Len(delivered) + 1)
         /\ Len(rcv) >= LenBytes
<1> DEFINE d == Len(delivered)
<1>1. d + 1 \in Messages /\ Len(rcv) >= LenBytes
      /\ PackLength = Signed(Size(d + 1) % LenRange)
  BY DEF PackLength, AtMessage, LenField
<1>2. Size(d + 1) \in Nat /\ 2 * Size(d + 1) < LenRange /\ LenRange \in Nat
  BY <1>1, BoundsGrow, ReceiveAssumption DEF Encodable
<1>3. Size(d + 1) % LenRange = Size(d + 1)
  BY <1>2, SmallModulo
<1>4. PackLength = Size(d + 1)
  BY <1>1, <1>2, <1>3 DEF Signed
<1> QED
  BY <1>1, <1>4

LEMMA InitReceived == Init => Received
<1> SUFFICES ASSUME Init PROVE Received
  OBVIOUS
<1>1. Parsed = 0 /\ taken = 0 /\ rcv = <<>> /\ delivered = <<>> /\ failed = FALSE
  BY ReceiveAssumption DEF Init, Parsed
<1>2. StreamIntact
  BY <1>1, BytesEmpty DEF StreamIntact
<1>3. DeliveredAsSent /\ DecodeAccepts /\ Parsed <= taken
  BY <1>1 DEF DeliveredAsSent, DecodeAccepts
<1> QED
  BY <1>2, <1>3 DEF Received

\* What a readv took that did not reach the second iovec is all in rcv.
LEMMA ReadvReceived == ASSUME TypeOK, Received, Readv PROVE Received'
<1> SUFFICES ASSUME ~spilled'
             PROVE  (StreamIntact /\ DeliveredAsSent /\ Parsed <= taken /\ DecodeAccepts)'
  BY DEF Received
<1>1. PICK n \in Nat, kept \in Nat :
        /\ taken' = taken + n /\ rcv' = rcv \o Bytes(taken, taken + kept)
        /\ ~spilled' => ~spilled /\ n = kept
        /\ UNCHANGED <<delivered, failed>>
  BY ReadvForm
<1>2. ~spilled /\ n = kept
  BY <1>1
<1>3. /\ Parsed \in Nat /\ taken \in Nat /\ Parsed <= taken
      /\ rcv = Bytes(Parsed, taken) /\ Parsed' = Parsed
  BY <1>1, <1>2, WhereIs DEF Parsed
<1>4. taken + n \in Nat /\ taken <= taken + n /\ Parsed <= taken + n
  BY <1>3
<1>5. rcv' = Bytes(Parsed, taken + n)
  BY <1>1, <1>2, <1>3, <1>4, BytesConcat
<1>6. StreamIntact'
  BY <1>1, <1>3, <1>5 DEF StreamIntact
<1>7. DeliveredAsSent' /\ DecodeAccepts'
  BY <1>1, <1>2 DEF Received, DeliveredAsSent, DecodeAccepts
<1> QED
  BY <1>1, <1>3, <1>4, <1>6, <1>7

\* A message is split off: the front of the stream that rcv holds.
LEMMA DeliverReceived == ASSUME Encodable, TypeOK, Received, Deliver PROVE Received'
<1> SUFFICES ASSUME ~spilled'
             PROVE  (StreamIntact /\ DeliveredAsSent /\ Parsed <= taken /\ DecodeAccepts)'
  BY DEF Received
<1> DEFINE d == Len(delivered)
           m == Size(d + 1)
           next == Bytes(Bounds[d + 1], Bounds[(d + 1) + 1])
<1>c. /\ PackLength > 0 /\ PackLength <= Len(rcv)
      /\ d + 1 \in Messages
      /\ delivered' = Append(delivered, SubSeq(rcv, 1, PackLength))
      /\ rcv' = SubSeq(rcv, PackLength + 1, Len(rcv))
      /\ failed' = (PackLength <= HeaderLen)
      /\ taken' = taken /\ spilled' = spilled
  BY DeliverForm
<1>a. /\ d \in Nat /\ taken \in Nat /\ Parsed \in Nat /\ Parsed <= taken
      /\ Len(rcv) = taken - Parsed /\ rcv \in Seq(Nat)
  BY <1>c, WhereIs
<1>b. rcv = Bytes(Parsed, taken) /\ delivered \in Seq(Seq(Nat))
  BY <1>c, WhereIs DEF TypeOK
<1>1. PackLength = m
  BY <1>c, LengthSeen
<1>2. /\ m \in Nat /\ m > 0 /\ Bounds[(d + 1) + 1] = Parsed + m
      /\ Bounds[(d + 1) + 1] \in Nat
  BY <1>c, BoundsGrow DEF Parsed
<1>3. m <= Len(rcv) /\ m <= taken - Parsed
  BY <1>1, <1>c, <1>a
<1>5. SubSeq(rcv, 1, m) = Bytes(Parsed, Parsed + m)
  <2>0. /\ Parsed \in Nat /\ taken \in Nat /\ Parsed <= taken
        /\ Parsed <= Parsed /\ Parsed + m \in Nat /\ Parsed <= Parsed + m
        /\ Parsed + m <= taken
        /\ 1 \in Nat /\ 1 = (Parsed - Parsed) + 1
        /\ m \in Nat /\ m = (Parsed + m) - Parsed
    <3> HIDE DEF m
    <3> QED
      BY <1>2, <1>3, <1>a
  <2> HIDE DEF m
  <2>1. SubSeq(Bytes(Parsed, taken), 1, m) = Bytes(Parsed, Parsed + m)
    BY ONLY <2>0, BytesPart
  <2> QED
    BY <2>1, <1>b
<1>6. rcv' = Bytes(Parsed + m, taken)
  <2>1. rcv' = SubSeq(rcv, m + 1, Len(rcv))
    BY <1>1, <1>c
  <2> HIDE DEF m
  <2>2. SubSeq(Bytes(Parsed, taken), m + 1, taken - Parsed) = Bytes(Parsed + m, taken)
    <3> DEFINE c == Parsed + m
               i == m + 1
               n == taken - Parsed
    <3>1. /\ Parsed \in Nat /\ taken \in Nat /\ Parsed <= taken
          /\ c \in Nat /\ Parsed <= c /\ c <= taken /\ taken <= taken
          /\ i \in Nat /\ i = (c - Parsed) + 1
          /\ n \in Nat /\ n = taken - Parsed
      BY <1>2, <1>3, <1>a
    <3> HIDE DEF c, i, n
    <3>2. SubSeq(Bytes(Parsed, taken), i, n) = Bytes(c, taken)
      BY ONLY <3>1, BytesPart
    <3> QED
      BY <3>2 DEF c, i, n
  <2> QED
    BY <2>1, <2>2, <1>a, <1>b
<1>7. delivered' = Append(delivered, next) /\ next \in Seq(Nat)
  <2>1. next = Bytes(Parsed, Parsed + m) /\ Parsed + m \in Nat /\ Parsed <= Parsed + m
    BY <1>2, <1>a DEF Parsed
  <2>2. SubSeq(rcv, 1, PackLength) = Bytes(Parsed, Parsed + m)
    BY <1>1, <1>5
  <2> HIDE DEF next, m
  <2>3. Bytes(Parsed, Parsed + m) \in Seq(Nat)
    BY <2>1, <1>a, BytesSeq
  <2> QED
    BY <2>1, <2>2, <2>3, <1>c
<1> HIDE DEF next
<1>8. /\ Len(delivered') = d + 1
      /\ \A i \in 1 .. d : delivered'[i] = delivered[i]
      /\ delivered'[d + 1] = next
  BY <1>b, <1>7, AppendProperties
<1>9. Parsed' = Parsed + m
  BY <1>2, <1>8 DEF Parsed
<1>12. StreamIntact'
  BY <1>6, <1>9, <1>c DEF StreamIntact
<1>13. DeliveredAsSent'
  <2> SUFFICES ASSUME NEW i \in 1 .. d + 1
               PROVE  delivered'[i] = Bytes(Bounds[i], Bounds[i + 1])
    BY <1>8 DEF DeliveredAsSent
  <2>1. CASE i = d + 1
    BY <2>1, <1>8 DEF next
  <2>2. CASE i # d + 1
    <3>1. i \in 1 .. d
      BY <2>2, <1>a
    <3> QED
      BY <3>1, <1>8, <1>c DEF Received, DeliveredAsSent
  <2> QED
    BY <2>1, <2>2
<1>14. (Parsed <= taken)'
  <2> HIDE DEF m
  <2> QED
    BY <1>2, <1>3, <1>9, <1>a, <1>c
<1>15. DecodeAccepts'
  <2>1. m > HeaderLen /\ HeaderLen \in Nat
    BY <1>c, ReceiveAssumption DEF Encodable
  <2>2. failed' = (m <= HeaderLen)
    BY <1>1, <1>c
  <2> HIDE DEF m
  <2>3. ~(m <= HeaderLen)
    BY <2>1, <1>2
  <2> QED
    BY <2>2, <2>3 DEF DecodeAccepts
<1> QED
  BY <1>12, <1>13, <1>14, <1>15

LEMMA ReceivedStep ==
  ASSUME Encodable, TypeOK, Received, [Next]_vars PROVE Received'
<1> USE DEF Received, StreamIntact, DeliveredAsSent, DecodeAccepts, Parsed
<1>1. CASE PeerWrite
  BY <1>1 DEF PeerWrite
<1>2. CASE Event
  BY <1>2 DEF Event
<1>3. CASE Readv
  BY <1>3, ReadvReceived
<1>4. CASE Deliver
  BY <1>4, DeliverReceived
<1>5. CASE DispatchEnd
  BY <1>5, DispatchEndForm
<1>6. CASE UNCHANGED vars
  BY <1>6 DEF vars
<1> QED
  BY <1>1, <1>2, <1>3, <1>4, <1>5, <1>6 DEF Next, Handle

\* For every stream of messages that the format can carry and every peer, also
\* one that writes without waiting: what handleRead and the packet reader make
\* of the stream is the messages as the peer sent them, in that order, wherever
\* the reads cut them and however the buffer grew and was replaced - up to the
\* first readv that fills the buffer and goes on in the second iovec.
THEOREM DeliveredUnchanged ==
  ASSUME Encodable PROVE SafetySpec => []Received
<1>1. Init => TypeOK /\ Received
  BY InitTypes, InitReceived
<1>2. TypeOK /\ Received /\ [Next]_vars => (TypeOK /\ Received)'
  BY TypesStep, ReceivedStep
<1> QED
  BY <1>1, <1>2, PTL DEF SafetySpec

------------------------------------------------------------------------------
(* No whole message stays behind *)

\* Outside the dispatch loop the buffer holds less than a message.
NothingWhole ==
  ~spilled /\ pc # "dispatch" /\ Len(delivered) + 1 \in Messages =>
    Len(rcv) < Size(Len(delivered) + 1)

\* A buffer that dispatch() leaves does not hold a whole message.
LEMMA LeftIsPart ==
  ASSUME Encodable, TypeOK, Received, ~spilled,
         PackLength <= 0 \/ PackLength > Len(rcv),
         Len(delivered) + 1 \in Messages
  PROVE  Len(rcv) < Size(Len(delivered) + 1)
<1> DEFINE i == Len(delivered) + 1
<1>1. /\ Size(i) \in Nat /\ Size(i) > 0 /\ Size(i) >= LenBytes
      /\ 2 * Size(i) < LenRange
  BY BoundsGrow DEF Encodable
<1>2. Len(rcv) \in Nat /\ LenBytes \in Nat /\ LenBytes > 0 /\ LenRange \in Nat
  BY WhereIs, ReceiveAssumption
<1>3. CASE Len(rcv) < LenBytes
  BY <1>1, <1>2, <1>3
<1>4. CASE Len(rcv) >= LenBytes
  <2>1. 1 \in 1 .. taken - Parsed
    BY <1>2, <1>4, WhereIs
  <2>2. AtMessage
    BY <2>1, WhereIs DEF AtMessage
  <2>3. PackLength = Signed(Size(i) % LenRange)
    BY <1>4, <2>2 DEF PackLength, LenField
  <2>4. Size(i) % LenRange = Size(i)
    BY <1>1, <1>2, SmallModulo
  <2>5. PackLength = Size(i)
    BY <2>3, <2>4, <1>1 DEF Signed
  <2> QED
    BY <2>5, <1>1, <1>2
<1> QED
  BY <1>2, <1>3, <1>4

LEMMA NothingWholeStep ==
  ASSUME Encodable, TypeOK, Received, NothingWhole, [Next]_vars PROVE NothingWhole'
<1>1. CASE PeerWrite
  BY <1>1 DEF PeerWrite, NothingWhole, Messages, Size
<1>2. CASE Event
  BY <1>2 DEF Event, NothingWhole, Messages, Size
<1>3. CASE Readv
  <2> SUFFICES ASSUME pc' # "dispatch", ~spilled' PROVE NothingWhole'
    BY DEF NothingWhole
  <2>1. PICK n \in Nat, kept \in Nat :
          /\ rcv' \in Seq(Nat) /\ Len(rcv') = Len(rcv) + kept
          /\ pc' = (IF n = 0 THEN "idle" ELSE "dispatch") /\ pc = "readv"
          /\ ~spilled' => ~spilled /\ n = kept
          /\ delivered' = delivered
    BY <1>3, ReadvForm
  <2>2. n = 0 /\ kept = 0 /\ ~spilled
    BY <2>1
  <2>3. Len(rcv') = Len(rcv)
    BY <2>1, <2>2 DEF TypeOK
  <2> QED
    BY <2>1, <2>2, <2>3 DEF NothingWhole, Messages, Size
<1>4. CASE Deliver
  BY <1>4 DEF Deliver, NothingWhole
<1>5. CASE DispatchEnd
  <2>1. /\ rcv' = rcv /\ delivered' = delivered /\ spilled' = spilled
        /\ PackLength <= 0 \/ PackLength > Len(rcv)
    BY <1>5, DispatchEndForm
  <2> QED
    BY <2>1, LeftIsPart DEF NothingWhole, Messages, Size
<1>6. CASE UNCHANGED vars
  BY <1>6 DEF vars, NothingWhole, Messages, Size
<1> QED
  BY <1>1, <1>2, <1>3, <1>4, <1>5, <1>6 DEF Next, Handle

\* No message that arrived completely waits in the buffer for the peer to send
\* more, for every stream and every peer, up to the first readv into the second
\* iovec.
THEOREM NoMessageStays == ASSUME Encodable PROVE SafetySpec => []NoMessageLeft
<1>1. Init => NothingWhole
  BY BoundsGrow, EmptySeq DEF Init, NothingWhole
<1>2. TypeOK /\ Received /\ NothingWhole /\ [Next]_vars => NothingWhole'
  BY NothingWholeStep
<1>3. NothingWhole => NoMessageLeft
  BY DEF NothingWhole, NoMessageLeft
<1>4. Init => TypeOK
  BY InitTypes
<1>5. TypeOK /\ [Next]_vars => TypeOK'
  BY TypesStep
<1> QED
  BY <1>1, <1>2, <1>3, <1>4, <1>5, DeliveredUnchanged, PTL DEF SafetySpec

------------------------------------------------------------------------------
(* The buffer: for peers that wait for answers *)

\* What a peer that waits has sent is within its group, and the message that
\* began is too.
LEMMA Group ==
  ASSUME Modest, TypeOK, Received, Contained, ~burst
  PROVE  /\ ~spilled /\ wrote <= Limit /\ Limit \in Nat /\ BufferBounded
         /\ rcv # <<>> => offset + (Limit - Parsed) <= size
         /\ Limit - Parsed \in Nat /\ 2 * (Limit - Parsed) <= PredLen
         /\ taken > Parsed =>
              /\ Len(delivered) + 1 \in Messages
              /\ Size(Len(delivered) + 1) <= Limit - Parsed
<1> DEFINE d == Len(delivered)
<1>0. ~spilled /\ wrote <= Limit /\ RestFits /\ BufferBounded
  BY DEF Contained
<1>1. /\ d \in Nat /\ d <= Len(Bounds) - 1
      /\ wrote \in Nat /\ taken \in Nat /\ Parsed \in Nat
      /\ taken <= wrote /\ Parsed <= taken
  BY <1>0, WhereIs
<1>2. Len(Bounds) \in Nat /\ \A i \in 1 .. Len(Bounds) : Bounds[i] \in Nat
  BY ReceiveAssumption
<1>4. /\ Ahead[d] \in Nat /\ Ahead[d] <= Len(Bounds) - 1
      /\ Limit = Bounds[Ahead[d] + 1] /\ Limit \in Nat
  BY <1>1, AheadEnds DEF Limit
<1>6. Limit - Parsed \in Nat /\ 2 * (Limit - Parsed) <= PredLen
  <2>1. Limit - Parsed = Burst(d) /\ d \in 0 .. Len(Bounds) - 1
    BY <1>1, <1>2, <1>4 DEF Burst, Parsed
  <2>2. Burst(d) >= 0 /\ 2 * Burst(d) <= PredLen
    BY <2>1 DEF Modest
  <2>3. Parsed \in Nat /\ Limit \in Nat /\ PredLen \in Nat
    BY <1>1, <1>4, ReceiveAssumption
  <2>4. Limit - Parsed >= 0 /\ 2 * (Limit - Parsed) <= PredLen
    BY <2>1, <2>2
  <2> QED
    BY <2>3, <2>4
<1>7. ASSUME taken > Parsed
      PROVE  d + 1 \in Messages /\ Size(d + 1) <= Limit - Parsed
  <2>1. Ahead[d] # d
    <3>1. Ahead[d] = d => Limit = Parsed
      BY <1>4 DEF Parsed
    <3> QED
      BY <3>1, <1>0, <1>1, <1>4, <1>7
  <2>2. Ahead[d] >= d
    BY <1>1, <1>2 DEF Modest
  <2>3. d + 1 <= Ahead[d] /\ d <= Len(Bounds) - 2 /\ d + 1 \in Messages
    BY <2>1, <2>2, <1>1, <1>2, <1>4 DEF Messages
  <2>4. Bounds[(d + 1) + 1] <= Limit
    <3>1. CASE Ahead[d] = d + 1
      BY <3>1, <1>2, <1>4, <2>3
    <3>2. CASE Ahead[d] > d + 1
      <4>1. Ahead[d + 1] = Ahead[d]
        BY <3>2, <2>3, <1>1, <1>2 DEF Modest
      <4>2. Burst(d + 1) >= 0
        BY <2>3, <1>1, <1>2 DEF Modest
      <4>3. Burst(d + 1) = Limit - Bounds[(d + 1) + 1]
        BY <4>1, <1>4 DEF Burst
      <4>4. Bounds[(d + 1) + 1] \in Nat
        BY <2>3, BoundsGrow
      <4> QED
        BY <4>2, <4>3, <4>4, <1>4
    <3> QED
      BY <3>1, <3>2, <2>3, <1>1, <1>4
  <2>5. Bounds[(d + 1) + 1] = Parsed + Size(d + 1) /\ Size(d + 1) \in Nat
    BY <2>3, BoundsGrow DEF Parsed
  <2> HIDE DEF d
  <2> QED
    BY <2>3, <2>4, <2>5, <1>1, <1>4
<1> QED
  BY <1>0, <1>4, <1>6, <1>7 DEF RestFits

LEMMA InitContained == ASSUME Modest, Init PROVE Contained
<1>1. /\ Len(Bounds) \in Nat /\ Len(Bounds) >= 2
      /\ wrote = 0 /\ rcv = <<>> /\ size = PredLen /\ ~spilled
      /\ Len(delivered) = 0 /\ 0 \in 0 .. Len(Bounds) - 1
  BY ReceiveAssumption, EmptySeq DEF Init
<1>2. Limit \in Nat
  BY <1>1, AheadEnds DEF Limit
<1>3. wrote <= Limit
  BY <1>1, <1>2
<1>4. RestFits /\ BufferBounded
  BY <1>1, ReceiveAssumption DEF RestFits, BufferBounded
<1> QED
  BY <1>1, <1>3, <1>4 DEF Contained

\* A peer that still waits has not written beyond what it may send.
LEMMA PeerWriteContained ==
  ASSUME TypeOK, Contained, PeerWrite PROVE Contained'
<1> SUFFICES ASSUME ~burst'
             PROVE  (~spilled /\ wrote <= Limit /\ RestFits /\ BufferBounded)'
  BY DEF Contained
<1>1. /\ burst' = (burst \/ wrote' > Limit) /\ wrote' \in Int
      /\ UNCHANGED <<rcv, offset, size, delivered, spilled>>
  <2>1. Stream \in Nat /\ wrote \in Nat
    BY ReceiveAssumption DEF Stream, TypeOK
  <2> QED
    BY <2>1 DEF PeerWrite
<1>2. Limit \in Nat
  <2>1. Len(delivered) \in Nat /\ Len(delivered) <= Len(Bounds) - 1
    BY DEF TypeOK
  <2> QED
    BY <2>1, AheadEnds DEF Limit
<1>3. ~burst /\ wrote' <= Limit
  <2>1. ~burst /\ ~(wrote' > Limit)
    BY <1>1, Zenon
  <2> QED
    BY <2>1, <1>1, <1>2
<1>4. ~spilled /\ RestFits /\ BufferBounded
  BY <1>3 DEF Contained
<1> QED
  BY <1>1, <1>3, <1>4 DEF RestFits, BufferBounded, Limit, Parsed

\* One readv: what the socket has fits the first iovec.
LEMMA ReadvContained ==
  ASSUME Modest, TypeOK, Received, Contained, Readv PROVE Contained'
<1> SUFFICES ASSUME ~burst'
             PROVE  (~spilled /\ wrote <= Limit /\ RestFits /\ BufferBounded)'
  BY DEF Contained
<1>1. PICK n \in Nat, kept \in Nat :
        /\ n = Least(wrote - taken, Capacity) /\ kept = Least(n, Room)
        /\ offset' = Offset /\ size' = Offset + Len(rcv) + Room + (n - kept)
        /\ ~spilled /\ n = kept => ~spilled'
        /\ UNCHANGED <<wrote, delivered, burst>>
  BY ReadvForm
<1>2. ~burst
  BY <1>1
<1>3. /\ ~spilled /\ wrote <= Limit /\ Limit \in Nat /\ size <= PredLen
      /\ rcv # <<>> => offset + (Limit - Parsed) <= size
      /\ Limit - Parsed \in Nat /\ 2 * (Limit - Parsed) <= PredLen
  BY <1>2, Group DEF BufferBounded
<1>4. /\ wrote \in Nat /\ taken \in Nat /\ offset \in Nat /\ size \in Nat
      /\ Parsed \in Nat /\ Parsed <= taken /\ taken <= wrote
      /\ Len(rcv) = taken - Parsed /\ PredLen \in Nat
      /\ rcv \in Seq(Nat) /\ offset + Len(rcv) <= size
  BY <1>3, WhereIs, ReceiveAssumption DEF TypeOK
<1>5. /\ Room \in Nat /\ Offset \in Nat /\ Len(rcv) \in Nat
      /\ Offset + Len(rcv) + Room <= PredLen
      /\ rcv = <<>> => 2 * Room >= PredLen
      /\ rcv # <<>> => Offset = offset /\ offset + Len(rcv) + Room = size
  <2>1. Len(rcv) \in Nat /\ (rcv = <<>> <=> Len(rcv) = 0)
    BY <1>4, EmptySeq
  <2>2. /\ Room \in Nat /\ Offset \in Nat
        /\ Replaced => Room = PredLen /\ Offset = 0 /\ Len(rcv) = 0
        /\ ~Replaced => Offset = offset /\ offset + Len(rcv) + Room = size
        /\ ~Replaced /\ Len(rcv) = 0 => 2 * Room >= PredLen
    BY <1>4, ReadInto
  <2>3. CASE Replaced
    BY <2>1, <2>2, <2>3, <1>3, <1>4
  <2>4. CASE ~Replaced
    BY <2>1, <2>2, <2>4, <1>3, <1>4
  <2> QED
    BY <2>3, <2>4
<1>6. wrote - taken <= Room
  <2>1. wrote - taken <= (Limit - Parsed) - Len(rcv)
    BY <1>3, <1>4
  <2>2. CASE rcv # <<>>
    BY <2>1, <2>2, <1>3, <1>4, <1>5
  <2>3. CASE rcv = <<>>
    BY <2>1, <2>3, <1>3, <1>4, <1>5
  <2> QED
    BY <2>2, <2>3
<1>7. n = kept
  <2>1. n <= wrote - taken
    <3>1. Capacity \in Nat
      BY <1>5, ReceiveAssumption DEF Capacity
    <3> QED
      BY <3>1, <1>1, <1>4 DEF Least
  <2>2. n <= Room
    BY <2>1, <1>4, <1>5, <1>6
  <2> QED
    BY <2>2, <1>1 DEF Least
<1>8. /\ ~spilled' /\ size' = Offset + Len(rcv) + Room /\ size' <= PredLen
      /\ wrote' <= Limit' /\ Limit' = Limit /\ Parsed' = Parsed
  <2>1. ~spilled' /\ wrote' <= Limit' /\ Limit' = Limit /\ Parsed' = Parsed
    BY <1>1, <1>3, <1>7 DEF Limit, Parsed
  <2>2. size' = Offset + Len(rcv) + Room
    BY <1>1, <1>5, <1>7
  <2> QED
    BY <2>1, <2>2, <1>5
<1>9. offset' + (Limit - Parsed) <= size'
  <2>1. CASE rcv # <<>>
    BY <2>1, <1>1, <1>3, <1>5, <1>8
  <2>2. CASE rcv = <<>>
    <3>1. Len(rcv) = 0
      BY <2>2, EmptySeq
    <3> QED
      BY <2>2, <3>1, <1>1, <1>3, <1>4, <1>5, <1>8
  <2> QED
    BY <2>1, <2>2
<1> QED
  BY <1>8, <1>9 DEF RestFits, BufferBounded

\* A message is split off: what is left is a part of the same group, or nothing.
LEMMA DeliverContained ==
  ASSUME Modest, TypeOK, Received, Contained, Deliver PROVE Contained'
<1> SUFFICES ASSUME ~burst'
             PROVE  (~spilled /\ wrote <= Limit /\ RestFits /\ BufferBounded)'
  BY DEF Contained
<1> DEFINE d == Len(delivered)
           m == Size(d + 1)
<1>1. /\ PackLength > 0 /\ PackLength <= Len(rcv) /\ d + 1 \in Messages
      /\ Len(delivered') = d + 1
      /\ rcv' \in Seq(Nat) /\ Len(rcv') = Len(rcv) - PackLength
      /\ offset' = offset + PackLength
      /\ UNCHANGED <<wrote, taken, size, burst, spilled>>
  BY DeliverForm
<1>2. PackLength = m
  BY <1>1, LengthSeen DEF Modest
<1>3. /\ ~spilled /\ wrote <= Limit /\ Limit \in Nat /\ BufferBounded
      /\ rcv # <<>> => offset + (Limit - Parsed) <= size
  BY <1>1, Group
<1>4. /\ d \in Nat /\ wrote \in Nat /\ taken \in Nat /\ Parsed \in Nat
      /\ Parsed <= taken /\ taken <= wrote
      /\ Len(rcv) = taken - Parsed /\ rcv \in Seq(Nat)
      /\ offset \in Nat /\ size \in Nat
  BY <1>3, WhereIs DEF TypeOK
<1>5. /\ m \in Nat /\ m > 0 /\ Bounds[(d + 1) + 1] = Parsed + m
      /\ Bounds[(d + 1) + 1] \in Nat
  BY <1>1, BoundsGrow DEF Parsed
<1>6. m <= taken - Parsed
  BY <1>1, <1>2, <1>4
<1>7. Parsed' = Parsed + m
  BY <1>1, <1>5 DEF Parsed
<1>8. /\ wrote <= Limit'
      /\ taken > Parsed + m => Limit' = Limit
  <2>1. /\ d \in 0 .. Len(Bounds) - 2 /\ d + 1 \in 0 .. Len(Bounds) - 1
        /\ d <= Len(Bounds) - 1 /\ d + 1 \in Nat /\ d + 1 <= Len(Bounds) - 1
    <3>1. Len(Bounds) \in Nat
      BY ReceiveAssumption
    <3> HIDE DEF d
    <3> QED
      BY <3>1, <1>1, <1>4 DEF Messages
  <2>2. /\ Ahead[d] \in Nat /\ Ahead[d + 1] \in Nat
        /\ Bounds[Ahead[d + 1] + 1] \in Nat
    BY <2>1, <1>4, AheadEnds
  <2>3. Limit = Bounds[Ahead[d] + 1] /\ Limit' = Bounds[Ahead[d + 1] + 1]
    BY <1>1 DEF Limit
  <2>4. Ahead[d] >= d /\ Burst(d + 1) >= 0
    BY <2>1 DEF Modest
  <2>5. CASE Ahead[d] > d + 1
    <3>1. Ahead[d + 1] = Ahead[d]
      BY <2>1, <2>5 DEF Modest
    <3> QED
      BY <3>1, <2>3, <1>3
  <2>6. CASE Ahead[d] = d + 1
    <3>1. Limit = Parsed + m
      BY <2>3, <2>6, <1>5
    <3> DEFINE last == Bounds[Ahead[d + 1] + 1]
               end == Bounds[(d + 1) + 1]
    <3>2. last \in Nat /\ end \in Nat /\ last - end >= 0
      BY <2>2, <2>4, <1>5 DEF Burst
    <3>3. Limit' = last /\ end = Parsed + m
      BY <2>3, <1>5
    <3> HIDE DEF last, end, m, d
    <3>4. end <= last
      BY <3>2
    <3> QED
      BY <3>1, <3>2, <3>3, <3>4, <1>3, <1>4, <1>5
  <2>7. Ahead[d] # d
    <3>1. Ahead[d] = d => Limit = Parsed
      BY <2>3 DEF Parsed
    <3> HIDE DEF m, d
    <3> QED
      BY <3>1, <1>3, <1>4, <1>5, <1>6
  <2> QED
    BY <2>2, <2>4, <2>5, <2>6, <2>7, <1>4
<1>9. ASSUME rcv' # <<>>
      PROVE  offset' + (Limit' - Parsed') <= size'
  <2>1. Len(rcv') # 0
    BY <1>9, <1>1, EmptySeq
  <2>2. Len(rcv) # 0 /\ taken > Parsed + m
    <3>1. Len(rcv') = Len(rcv) - m /\ m <= Len(rcv)
      BY <1>1, <1>2
    <3> HIDE DEF m
    <3> QED
      BY <2>1, <3>1, <1>4, <1>5
  <2>3. rcv # <<>>
    BY <2>2, EmptySeq
  <2>4. offset + (Limit - Parsed) <= size
    BY <2>3, <1>3
  <2>5. Limit' = Limit
    BY <2>2, <1>8
  <2> HIDE DEF m
  <2> QED
    BY <2>4, <2>5, <1>1, <1>2, <1>3, <1>4, <1>5, <1>7
<1> QED
  BY <1>1, <1>3, <1>8, <1>9 DEF RestFits, BufferBounded

\* ensure() never has to make room for a peer that waits: RestFits.
LEMMA DispatchEndContained ==
  ASSUME Modest, TypeOK, Received, Contained, DispatchEnd PROVE Contained'
<1> SUFFICES ASSUME ~burst'
             PROVE  (~spilled /\ wrote <= Limit /\ RestFits /\ BufferBounded)'
  BY DEF Contained
<1>1. /\ UNCHANGED <<wrote, taken, rcv, offset, delivered, burst, spilled>>
      /\ size' = IF PackLength > 0 /\ PackLength + offset > size
                 THEN PackLength + offset ELSE size
  BY DispatchEndForm
<1>2. ~spilled /\ wrote <= Limit /\ RestFits /\ BufferBounded
  BY <1>1 DEF Contained
<1>3. ASSUME PackLength > 0  PROVE PackLength + offset <= size
  <2>1. /\ Len(delivered) + 1 \in Messages
        /\ PackLength = Size(Len(delivered) + 1) /\ Len(rcv) >= LenBytes
    BY <1>3, LengthSeen DEF Modest
  <2>2. /\ taken \in Nat /\ Parsed \in Nat /\ Len(rcv) = taken - Parsed
        /\ offset \in Nat /\ size \in Nat /\ LenBytes \in Nat /\ LenBytes > 0
    BY <1>2, WhereIs, ReceiveAssumption DEF TypeOK
  <2>3. Len(rcv) # 0 /\ taken > Parsed
    BY <2>1, <2>2
  <2>4. rcv # <<>>
    BY <2>3, EmptySeq
  <2>5. /\ offset + (Limit - Parsed) <= size /\ Limit - Parsed \in Nat
        /\ PackLength <= Limit - Parsed /\ PackLength \in Nat
    BY <2>1, <2>3, <2>4, <1>1, Group, BoundsGrow
  <2> QED
    BY <2>2, <2>5
<1>4. size' = size
  BY <1>1, <1>3, PackLengthInt DEF TypeOK
<1> QED
  BY <1>1, <1>2, <1>4 DEF RestFits, BufferBounded, Limit, Parsed

LEMMA ContainedStep ==
  ASSUME Modest, TypeOK, Received, Contained, [Next]_vars PROVE Contained'
<1>1. CASE PeerWrite
  BY <1>1, PeerWriteContained
<1>2. CASE Event
  BY <1>2 DEF Event, Contained, RestFits, BufferBounded, Limit, Parsed
<1>3. CASE Readv
  BY <1>3, ReadvContained
<1>4. CASE Deliver
  BY <1>4, DeliverContained
<1>5. CASE DispatchEnd
  BY <1>5, DispatchEndContained
<1>6. CASE UNCHANGED vars
  BY <1>6 DEF vars, Contained, RestFits, BufferBounded, Limit, Parsed
<1> QED
  BY <1>1, <1>2, <1>3, <1>4, <1>5, <1>6 DEF Next, Handle

\* The invariant that run receive checks, for streams of any length.
THEOREM ReceiveInvariant == ASSUME Modest PROVE SafetySpec => []ReceiveInv
<1>1. Init => ReceiveInv
  BY InitTypes, InitReceived, InitContained DEF ReceiveInv
<1>2. ReceiveInv /\ [Next]_vars => ReceiveInv'
  BY TypesStep, ReceivedStep, ContainedStep DEF ReceiveInv, Modest
<1> QED
  BY <1>1, <1>2, PTL DEF SafetySpec

\* With a peer that waits for answers no readv reaches the second iovec, and
\* the receive buffer never grows beyond its first size.
THEOREM BufferStaysSmall == ASSUME Modest PROVE SafetySpec => []Contained
<1>1. ReceiveInv => Contained
  BY DEF ReceiveInv
<1> QED
  BY <1>1, ReceiveInvariant, PTL

------------------------------------------------------------------------------
(* Sums of sizes *)

LEMMA MinOfTwo ==
  ASSUME NEW a \in Nat, NEW b \in Nat
  PROVE  Min({a, b}) = IF a <= b THEN a ELSE b
<1> DEFINE m == IF a <= b THEN a ELSE b
<1>1. m \in {a, b} /\ \A y \in {a, b} : m <= y
  OBVIOUS
<1>2. \A x \in {a, b} : (\A y \in {a, b} : x <= y) => x = m
  OBVIOUS
<1> HIDE DEF m
<1>3. Min({a, b}) = m
  BY <1>1, <1>2 DEF Min
<1> QED BY <1>3 DEF m

LEMMA EndsSums ==
  ASSUME NEW z \in Seq(Nat)
  PROVE  /\ Ends(z) \in [0 .. Len(z) -> Nat]
         /\ Ends(z)[0] = 0
         /\ \A n \in 1 .. Len(z) : Ends(z)[n] = Ends(z)[n - 1] + z[n]
<1> DEFINE N == Len(z)
           e == 0
           step == [p \in (1 .. N) \X Nat |-> p[2] + z[p[1]]]
           Fun(h) == h = [n \in 0 .. N |-> IF n = 0 THEN 0 ELSE h[n - 1] + z[n]]
           f == CHOOSE h : Fun(h)
<1>1. N \in Nat /\ e \in Nat /\ \A n \in 1 .. N : z[n] \in Nat
  OBVIOUS
<1>2. step \in Steps(N, Nat) /\ \A n \in 1 .. N, m \in Nat : step[<<n, m>>] = m + z[n]
  BY <1>1 DEF Steps
<1> HIDE DEF N, e, step
<1>3. PICK g : Recurs(g, Nat, e, N, step)
  BY <1>1, <1>2, RecursionExists, Zenon
<1>4. Fun(g)
  <2>1. \A n \in 0 .. N : n # 0 => n \in 1 .. N /\ g[n - 1] \in Nat
    BY <1>1, <1>3 DEF Recurs
  <2>2. \A n \in 0 .. N : g[n] = IF n = 0 THEN 0 ELSE g[n - 1] + z[n]
    BY <1>2, <1>3, <2>1 DEF Recurs, e
  <2> QED BY <1>3, <2>2 DEF Recurs
<1>5. Fun(f)
  BY <1>4
<1>6. Ends(z) = f
  BY DEF Ends, N
<1> HIDE DEF f
<1>7. f[0] = 0 /\ \A n \in 1 .. N : f[n] = f[n - 1] + z[n]
  BY <1>1, <1>5
<1>8. \A n \in Nat : n \in 0 .. N => f[n] \in Nat
  <2> DEFINE T == {n \in Nat : n \in 0 .. N => f[n] \in Nat}
  <2>1. 0 \in T
    BY <1>7
  <2>2. ASSUME NEW n \in T PROVE n + 1 \in T
    <3> SUFFICES ASSUME n + 1 \in 0 .. N PROVE f[n + 1] \in Nat
      OBVIOUS
    <3>1. n + 1 \in 1 .. N /\ (n + 1) - 1 = n /\ f[n] \in Nat
      BY <1>1, <2>2
    <3>2. f[n + 1] = f[n] + z[n + 1] /\ z[n + 1] \in Nat
      BY <1>1, <1>7, <3>1
    <3> QED BY <3>1, <3>2
  <2> HIDE DEF T
  <2>3. T \in SUBSET Nat
    BY DEF T
  <2>4. T = Nat
    BY <2>1, <2>2, <2>3, SetInduction
  <2> QED BY <2>4 DEF T
<1>9. f \in [0 .. N -> Nat]
  BY <1>1, <1>5, <1>8
<1> QED BY <1>6, <1>7, <1>9 DEF N

------------------------------------------------------------------------------
(* The send list *)

Ranges == {r \in [from : Nat, to : Nat] : r.from <= r.to}

\* Each buffer goes on where the one before ends.
Chained(bufs) == \A i \in 1 .. Len(bufs) - 1 : bufs[i].to = bufs[i + 1].from

\* The buffers come in the order of the stream.
Ordered(bufs) == \A i, j \in DOMAIN bufs : i < j => bufs[i].to <= bufs[j].from

LEMMA BuffersChained ==
  ASSUME NEW z \in Seq(Nat), NEW p \in Nat
  PROVE  LET b == Buffers(z, p) IN
         /\ b \in Seq(Ranges) /\ Len(b) = Len(z) /\ Chained(b)
         /\ Len(z) > 0 => b[1].from = p
         /\ \A i \in 1 .. Len(z) : Readable(b[i]) = z[i]
<1> DEFINE b == Buffers(z, p)
           E == Ends(z)
<1>1. /\ E \in [0 .. Len(z) -> Nat] /\ E[0] = 0
      /\ \A n \in 1 .. Len(z) : E[n] = E[n - 1] + z[n]
  BY EndsSums
<1>2. Len(z) \in Nat /\ DOMAIN z = 1 .. Len(z) /\ \A n \in 1 .. Len(z) : z[n] \in Nat
  OBVIOUS
<1>3. b = [i \in 1 .. Len(z) |-> [from |-> p + E[i - 1], to |-> p + E[i]]]
  BY <1>2 DEF Buffers
<1> HIDE DEF b, E
<1>4. \A i \in 1 .. Len(z) : i \in 0 .. Len(z) /\ i - 1 \in 0 .. Len(z)
  BY <1>2
<1>5. \A i \in 1 .. Len(z) :
        /\ b[i] \in Ranges /\ b[i].from = p + E[i - 1] /\ b[i].to = p + E[i]
        /\ Readable(b[i]) = z[i]
  <2> TAKE i \in 1 .. Len(z)
  <2>1. b[i] = [from |-> p + E[i - 1], to |-> p + E[i]]
    BY <1>3
  <2>2. E[i] \in Nat /\ E[i - 1] \in Nat /\ E[i] = E[i - 1] + z[i] /\ z[i] \in Nat
    BY <1>1, <1>2, <1>4
  <2>3. PICK e \in Nat, m \in Nat : e = E[i - 1] /\ m = z[i] /\ E[i] = e + m
    BY <2>2
  <2>4. PICK x \in Nat, y \in Nat : x = p + e /\ y = p + (e + m) /\ x <= y /\ y - x = m
    <3> SUFFICES /\ p + e \in Nat /\ p + (e + m) \in Nat /\ p + e <= p + (e + m)
                 /\ (p + (e + m)) - (p + e) = m
      OBVIOUS
    <3> QED OBVIOUS
  <2>5. b[i] = [from |-> x, to |-> y]
    BY <2>1, <2>3, <2>4
  <2> QED BY <2>3, <2>4, <2>5 DEF Ranges, Readable
<1>6. b \in Seq(Ranges) /\ Len(b) = Len(z)
  BY <1>2, <1>3, <1>5
<1>7. Chained(b)
  <2> SUFFICES ASSUME NEW i \in 1 .. Len(z) - 1 PROVE b[i].to = b[i + 1].from
    BY <1>6 DEF Chained
  <2>1. i \in 1 .. Len(z) /\ i + 1 \in 1 .. Len(z) /\ (i + 1) - 1 = i
    BY <1>2
  <2> QED BY <1>5, <2>1
<1>8. Len(z) > 0 => b[1].from = p
  <2> SUFFICES ASSUME Len(z) > 0 PROVE b[1].from = p
    OBVIOUS
  <2>1. 1 \in 1 .. Len(z) /\ 1 - 1 = 0
    BY <1>2
  <2> QED BY <1>1, <1>5, <2>1
<1> QED BY <1>5, <1>6, <1>7, <1>8 DEF b

\* Chained buffers are in order.
LEMMA ChainedOrdered ==
  ASSUME NEW b \in Seq(Ranges), b # <<>>, Chained(b)
  PROVE  /\ \A i \in 1 .. Len(b) : b[1].from <= b[i].from /\ b[i].to <= b[Len(b)].to
         /\ \A i, j \in 1 .. Len(b) : i < j => b[i].to <= b[j].from
<1> DEFINE N == Len(b)
<1>1. N \in Nat /\ N >= 1
  OBVIOUS
<1>2. \A i \in 1 .. N : b[i].from \in Nat /\ b[i].to \in Nat /\ b[i].from <= b[i].to
  <2> TAKE i \in 1 .. N
  <2>1. b[i] \in Ranges
    OBVIOUS
  <2> QED BY <2>1 DEF Ranges
<1>3. \A n \in 1 .. N : n + 1 \in 1 .. N => b[n].to = b[n + 1].from
  BY <1>1 DEF Chained
<1> HIDE DEF N
<1>4. ASSUME NEW i \in 1 .. N, NEW j \in 1 .. N, i < j PROVE b[i].to <= b[j].from
  <2> DEFINE T == {n \in Nat : i + (n + 1) \in 1 .. N => b[i].to <= b[i + (n + 1)].from}
  <2>1. 0 \in T
    <3>1. i + (0 + 1) = i + 1
      BY <1>1
    <3> QED BY <1>2, <1>3, <3>1
  <2>2. ASSUME NEW n \in T PROVE n + 1 \in T
    <3> SUFFICES ASSUME i + ((n + 1) + 1) \in 1 .. N
                 PROVE  b[i].to <= b[i + ((n + 1) + 1)].from
      OBVIOUS
    <3>1. /\ n \in Nat /\ i + (n + 1) \in 1 .. N
          /\ i + ((n + 1) + 1) = (i + (n + 1)) + 1
      BY <1>1
    <3>2. b[i + (n + 1)].to = b[i + ((n + 1) + 1)].from /\ b[i].to <= b[i + (n + 1)].from
      BY <1>3, <3>1
    <3> QED BY <1>2, <3>1, <3>2
  <2> HIDE DEF T
  <2>3. T \in SUBSET Nat
    BY DEF T
  <2>4. T = Nat
    BY <2>1, <2>2, <2>3, SetInduction
  <2>5. (j - i) - 1 \in T /\ i + (((j - i) - 1) + 1) = j
    BY <1>1, <1>4, <2>4
  <2> QED BY <2>5 DEF T
<1>5. ASSUME NEW i \in 1 .. N PROVE b[1].from <= b[i].from /\ b[i].to <= b[N].to
  <2>1. 1 \in 1 .. N /\ N \in 1 .. N
    BY <1>1
  <2>2. b[1].from <= b[i].from
    <3>1. CASE i = 1
      BY <1>2, <3>1
    <3>2. CASE i # 1
      <4>1. b[1].to <= b[i].from
        BY <1>1, <1>4, <2>1, <3>2
      <4> QED BY <1>2, <2>1, <4>1
    <3> QED BY <3>1, <3>2
  <2>3. b[i].to <= b[N].to
    <3>1. CASE i = N
      BY <1>2, <3>1
    <3>2. CASE i # N
      <4>1. b[i].to <= b[N].from
        BY <1>1, <1>4, <2>1, <3>2
      <4> QED BY <1>2, <2>1, <4>1
    <3> QED BY <3>1, <3>2
  <2> QED BY <2>2, <2>3
<1> QED BY <1>4, <1>5 DEF N

\* Chained buffers hold what is between the start of the first and the end of
\* the last one.
LEMMA TotalChained ==
  ASSUME NEW b \in Seq(Ranges)
  PROVE  /\ Total(b) \in Nat
         /\ Chained(b) /\ b # <<>> => Total(b) = b[Len(b)].to - b[1].from
<1> DEFINE N == Len(b)
           z == [i \in 1 .. N |-> Readable(b[i])]
           E == Ends(z)
<1>1. N \in Nat /\ DOMAIN b = 1 .. N
  OBVIOUS
<1>2. \A i \in 1 .. N : /\ b[i].from \in Nat /\ b[i].to \in Nat /\ b[i].from <= b[i].to
                        /\ Readable(b[i]) \in Nat /\ Readable(b[i]) = b[i].to - b[i].from
  <2> TAKE i \in 1 .. N
  <2>1. b[i] \in Ranges
    OBVIOUS
  <2> QED BY <2>1 DEF Ranges, Readable
<1> HIDE DEF N
<1>3. z \in Seq(Nat) /\ Len(z) = N /\ \A i \in 1 .. N : z[i] = Readable(b[i])
  BY <1>1, <1>2
<1>4. Total(b) = E[N]
  BY <1>1 DEF Total, N
<1> HIDE DEF z
<1>5. E \in [0 .. N -> Nat] /\ E[0] = 0 /\ \A n \in 1 .. N : E[n] = E[n - 1] + Readable(b[n])
  BY <1>3, EndsSums
<1> HIDE DEF E
<1>6. E[N] \in Nat
  BY <1>1, <1>5
<1>7. ASSUME Chained(b), b # <<>> PROVE E[N] = b[N].to - b[1].from
  <2>1. \A n \in 1 .. N : n + 1 \in 1 .. N => b[n].to = b[n + 1].from
    BY <1>1, <1>7 DEF Chained, N
  <2>2. N >= 1
    BY <1>1, <1>7 DEF N
  <2> DEFINE T == {n \in Nat : n + 1 \in 1 .. N => E[n + 1] = b[n + 1].to - b[1].from}
  <2>3. 0 \in T
    <3>1. 1 \in 1 .. N /\ 1 - 1 = 0
      BY <1>1, <2>2
    <3>2. E[1] = Readable(b[1])
      BY <1>2, <1>5, <3>1
    <3> QED BY <1>2, <3>1, <3>2
  <2>4. ASSUME NEW n \in T PROVE n + 1 \in T
    <3> SUFFICES ASSUME (n + 1) + 1 \in 1 .. N
                 PROVE  E[(n + 1) + 1] = b[(n + 1) + 1].to - b[1].from
      OBVIOUS
    <3>1. n \in Nat /\ n + 1 \in 1 .. N /\ ((n + 1) + 1) - 1 = n + 1 /\ 1 \in 1 .. N
      BY <1>1, <2>2
    <3>2. E[(n + 1) + 1] = E[n + 1] + Readable(b[(n + 1) + 1])
      BY <1>5, <3>1
    <3>3. E[n + 1] = b[n + 1].to - b[1].from
      BY <3>1
    <3>4. b[n + 1].to = b[(n + 1) + 1].from
      BY <2>1, <3>1
    <3> QED BY <1>2, <3>1, <3>2, <3>3, <3>4
  <2> HIDE DEF T
  <2>5. T \in SUBSET Nat
    BY DEF T
  <2>6. T = Nat
    BY <2>3, <2>4, <2>5, SetInduction
  <2>7. N - 1 \in T /\ (N - 1) + 1 = N /\ N \in 1 .. N
    BY <1>1, <2>2, <2>6
  <2> QED BY <2>7 DEF T
<1> QED BY <1>4, <1>6, <1>7 DEF N

\* So the positions in them are all of those.
LEMMA PositionsChained ==
  ASSUME NEW b \in Seq(Ranges), b # <<>>, Chained(b)
  PROVE  /\ b[1].from \in Nat /\ b[Len(b)].to \in Nat /\ b[1].from <= b[Len(b)].to
         /\ Positions(b) = Bytes(b[1].from, b[Len(b)].to)
<1> DEFINE N == Len(b)
           a == b[1].from
           q == [i \in 1 .. N |-> Bytes(b[i].from, b[i].to)]
           g == [n \in 0 .. N |-> IF n = 0 THEN Bytes(a, a) ELSE Bytes(a, b[n].to)]
<1>1. N \in Nat /\ N >= 1 /\ DOMAIN b = 1 .. N
  OBVIOUS
<1>2. \A i \in 1 .. N : b[i].from \in Nat /\ b[i].to \in Nat /\ b[i].from <= b[i].to
  <2> TAKE i \in 1 .. N
  <2>1. b[i] \in Ranges
    OBVIOUS
  <2> QED BY <2>1 DEF Ranges
<1>3. \A n \in 1 .. N : n + 1 \in 1 .. N => b[n].to = b[n + 1].from
  BY <1>1 DEF Chained
<1>4. a \in Nat
  BY <1>1, <1>2
<1>5. \A n \in 1 .. N : a <= b[n].to
  <2> HIDE DEF N, a
  <2> DEFINE T == {n \in Nat : n + 1 \in 1 .. N => a <= b[n + 1].to}
  <2>1. 0 \in T
    BY <1>1, <1>2 DEF a
  <2>2. ASSUME NEW n \in T PROVE n + 1 \in T
    <3> SUFFICES ASSUME (n + 1) + 1 \in 1 .. N PROVE a <= b[(n + 1) + 1].to
      OBVIOUS
    <3>1. n \in Nat /\ n + 1 \in 1 .. N
      BY <1>1
    <3>2. a <= b[n + 1].to /\ b[n + 1].to = b[(n + 1) + 1].from
      BY <1>3, <3>1
    <3>3. /\ b[n + 1].to \in Nat /\ b[(n + 1) + 1].to \in Nat
          /\ b[(n + 1) + 1].from <= b[(n + 1) + 1].to
      BY <1>2, <3>1
    <3> QED BY <1>4, <3>2, <3>3
  <2> HIDE DEF T
  <2>3. T \in SUBSET Nat
    BY DEF T
  <2>4. T = Nat
    BY <2>1, <2>2, <2>3, SetInduction
  <2>5. \A n \in 1 .. N : n - 1 \in T /\ (n - 1) + 1 = n
    BY <1>1, <2>4
  <2> QED BY <2>5 DEF T
<1>6. Positions(b) = FlattenSeq(q)
  <2>1. \A i \in 1 .. N :
          [k \in 1 .. Readable(b[i]) |-> b[i].from + k] = Bytes(b[i].from, b[i].to)
    BY DEF Readable, Bytes
  <2>2. [i \in DOMAIN b |-> [k \in 1 .. Readable(b[i]) |-> b[i].from + k]] = q
    BY <1>1, <2>1
  <2> HIDE DEF q
  <2> QED BY <2>2, Zenon DEF Positions
<1> HIDE DEF N, a
<1>7. q \in Seq(Seq(Nat)) /\ Len(q) = N /\ \A n \in 1 .. N : q[n] = Bytes(b[n].from, b[n].to)
  <2>1. \A n \in 1 .. N : Bytes(b[n].from, b[n].to) \in Seq(Nat)
    BY <1>2, BytesSeq
  <2> QED BY <1>1, <2>1
<1>8. Concats(g, q, Nat)
  <2>1. g \in [0 .. N -> Seq(Nat)]
    <3>1. Bytes(a, a) \in Seq(Nat)
      BY <1>4, BytesSeq
    <3>2. \A n \in 1 .. N : Bytes(a, b[n].to) \in Seq(Nat)
      BY <1>2, <1>4, <1>5, BytesSeq
    <3> QED BY <1>1, <3>1, <3>2
  <2>2. g[0] = <<>>
    BY <1>1, <1>4, BytesEmpty
  <2>3. ASSUME NEW n \in 1 .. N PROVE g[n] = g[n - 1] \o q[n]
    <3>1. q[n] = Bytes(b[n].from, b[n].to) /\ g[n] = Bytes(a, b[n].to)
      BY <1>1, <1>7
    <3>2. g[n - 1] = Bytes(a, b[n].from) /\ a <= b[n].from
      <4>1. CASE n = 1
        BY <1>1, <1>4, <4>1 DEF a
      <4>2. CASE n # 1
        <5>1. n - 1 \in 1 .. N /\ (n - 1) + 1 = n /\ n - 1 \in 0 .. N /\ n - 1 # 0
          BY <1>1, <4>2
        <5>2. b[n - 1].to = b[n].from /\ a <= b[n - 1].to
          BY <1>3, <1>5, <5>1
        <5>3. g[n - 1] = Bytes(a, b[n - 1].to)
          BY <5>1
        <5> QED BY <5>2, <5>3
      <4> QED BY <4>1, <4>2
    <3>3. Bytes(a, b[n].from) \o Bytes(b[n].from, b[n].to) = Bytes(a, b[n].to)
      BY <1>2, <1>4, <3>2, BytesConcat
    <3> QED BY <3>1, <3>2, <3>3
  <2> HIDE DEF g, q
  <2> QED BY <1>7, <2>1, <2>2, <2>3 DEF Concats
<1>9. FlattenSeq(q) = g[N]
  <2> HIDE DEF g, q
  <2> QED BY <1>7, <1>8, FlattenConcats
<1>10. g[N] = Bytes(a, b[N].to)
  BY <1>1
<1>11. N \in 1 .. N
  BY <1>1
<1> QED BY <1>2, <1>4, <1>5, <1>6, <1>9, <1>10, <1>11 DEF N, a

------------------------------------------------------------------------------
(* markSended *)

\* The list after markSended is the end of the list before, its first buffer
\* read in part: d buffers are gone.
EndOf(r, bufs, d) ==
  /\ r \in Seq(Ranges) /\ Len(r) = Len(bufs) - d
  /\ \A i \in 1 .. Len(r) : r[i].to = bufs[i + d].to /\ bufs[i + d].from <= r[i].from

\* What the loop has left is a size.
LEMMA LeftSize ==
  ASSUME NEW b \in Seq(Ranges), NEW s \in Nat,
         \A i \in 1 .. Len(b) : Readable(b[i]) <= MaxBytes
  PROVE  /\ \A n \in 1 .. Len(b) : Left(b, s)[n] \in Nat
         /\ Len(b) > 0 => Left(b, s)[1] = s
         /\ \A n \in 1 .. Len(b) : n + 1 \in 1 .. Len(b) =>
              Left(b, s)[n + 1] = Minus(Left(b, s)[n], Readable(b[n + 1]))
<1> DEFINE N == Len(b)
           e == s
           step == [p \in (1 .. N) \X Nat |-> IF p[1] = 1 THEN s ELSE Minus(p[2], Readable(b[p[1]]))]
           Fun(h) == h = [n \in 1 .. N |-> IF n = 1 THEN s ELSE Minus(h[n - 1], Readable(b[n]))]
           f == CHOOSE h : Fun(h)
<1>1. N \in Nat /\ e \in Nat
  OBVIOUS
<1>2. \A n \in 1 .. N : Readable(b[n]) \in Nat /\ Readable(b[n]) <= MaxBytes
  <2> TAKE n \in 1 .. N
  <2>1. b[n] \in Ranges
    OBVIOUS
  <2> QED BY <2>1 DEF Ranges, Readable
<1>3. \A n \in 1 .. N, m \in Nat : Minus(m, Readable(b[n])) \in Nat
  <2> TAKE n \in 1 .. N, m \in Nat
  <2>1. MaxBytes \in Nat
    BY SendAssumption
  <2>2. PICK x \in Nat : x = Readable(b[n]) /\ x <= MaxBytes
    BY <1>2
  <2>3. m < x => 2 * MaxBytes + 1 + 1 + m - x \in Nat
    BY <2>1, <2>2
  <2>4. m >= x => m - x \in Nat
    BY <2>2
  <2>5. m >= x \/ m < x
    BY <2>2
  <2>6. Minus(m, x) \in Nat
    BY <2>3, <2>4, <2>5 DEF Minus, SizeMax
  <2> QED BY <2>2, <2>6
<1>4. step \in Steps(N, Nat) /\ \A n \in 1 .. N, m \in Nat :
        step[<<n, m>>] = IF n = 1 THEN s ELSE Minus(m, Readable(b[n]))
  BY <1>3 DEF Steps
<1> HIDE DEF N, e, step
<1>5. PICK g : Recurs(g, Nat, e, N, step)
  BY <1>1, <1>4, RecursionExists, Zenon
<1> DEFINE r == [n \in 1 .. N |-> g[n]]
<1>6. Fun(r) /\ \A n \in 1 .. N : r[n] \in Nat
  <2>1. \A n \in 1 .. N : n - 1 \in 0 .. N /\ n \in 0 .. N /\ (n # 1 => n - 1 \in 1 .. N)
    BY <1>1
  <2>2. \A n \in 1 .. N : g[n] \in Nat /\ g[n - 1] \in Nat
    BY <1>5, <2>1 DEF Recurs
  <2>3. \A n \in 1 .. N : g[n] = IF n = 1 THEN s ELSE Minus(g[n - 1], Readable(b[n]))
    BY <1>4, <1>5, <2>2 DEF Recurs
  <2> QED BY <2>1, <2>2, <2>3
<1>7. Fun(f)
  BY <1>6
<1>8. Left(b, s) = f
  BY DEF Left, N
<1> HIDE DEF f, r
<1>9. /\ N > 0 => f[1] = s
      /\ \A n \in 1 .. N : n + 1 \in 1 .. N => f[n + 1] = Minus(f[n], Readable(b[n + 1]))
  <2>1. \A n \in 1 .. N : (n + 1) - 1 = n /\ n + 1 # 1
    BY <1>1
  <2>2. N > 0 => 1 \in 1 .. N
    BY <1>1
  <2> QED BY <1>7, <2>1, <2>2
<1>10. \A n \in Nat : n + 1 \in 1 .. N => f[n + 1] \in Nat
  <2> DEFINE T == {n \in Nat : n + 1 \in 1 .. N => f[n + 1] \in Nat}
  <2>1. 0 \in T
    BY <1>1, <1>9
  <2>2. ASSUME NEW n \in T PROVE n + 1 \in T
    <3> SUFFICES ASSUME (n + 1) + 1 \in 1 .. N PROVE f[(n + 1) + 1] \in Nat
      OBVIOUS
    <3>1. n \in Nat /\ n + 1 \in 1 .. N
      BY <1>1
    <3> QED BY <1>3, <1>9, <3>1
  <2> HIDE DEF T
  <2>3. T \in SUBSET Nat
    BY DEF T
  <2>4. T = Nat
    BY <2>1, <2>2, <2>3, SetInduction
  <2> QED BY <2>4 DEF T
<1>11. \A n \in 1 .. N : f[n] \in Nat
  <2>1. \A n \in 1 .. N : n - 1 \in Nat /\ (n - 1) + 1 = n
    BY <1>1
  <2> QED BY <1>10, <2>1
<1> QED BY <1>8, <1>9, <1>11 DEF N

\* The loop ends at one of the buffers.
LEMMA StopIsLeast ==
  ASSUME NEW b \in Seq(Ranges), b # <<>>, NEW s \in Nat
  PROVE  /\ Stops(b, s) \in SUBSET (1 .. Len(b))
         /\ Min(Stops(b, s)) \in Stops(b, s)
         /\ \A n \in Stops(b, s) : Min(Stops(b, s)) <= n
<1> DEFINE S == Stops(b, s)
<1>1. Len(b) \in Nat /\ Len(b) >= 1
  OBVIOUS
<1>2. S \in SUBSET (1 .. Len(b)) /\ Len(b) \in S
  BY <1>1 DEF Stops
<1> HIDE DEF S
<1>3. S \in SUBSET Nat /\ S # {}
  BY <1>1, <1>2
<1>4. \E x \in S : \A y \in S : x <= y
  BY <1>3, LeastNat
<1>5. Min(S) \in S /\ \A y \in S : Min(S) <= y
  BY <1>4 DEF Min
<1> QED BY <1>2, <1>5 DEF S

LEMMA MarkSendedEnd ==
  ASSUME NEW b \in Seq(Ranges), NEW s \in Nat,
         \A i \in 1 .. Len(b) : Readable(b[i]) <= MaxBytes
  PROVE  \E d \in 0 .. Len(b) : EndOf(MarkSended(b, s), b, d)
<1>1. CASE b = <<>>
  <2>1. MarkSended(b, s) = b /\ Len(b) = 0
    BY <1>1 DEF MarkSended
  <2>2. EndOf(b, b, 0)
    BY <2>1 DEF EndOf
  <2>3. 0 \in 0 .. Len(b)
    BY <2>1
  <2> QED BY <2>1, <2>2, <2>3
<1>2. CASE b # <<>>
  <2> DEFINE N == Len(b)
             stop == Min(Stops(b, s))
             left == Left(b, s)[stop]
             behind == SubSeq(b, stop + 1, N)
             part == [b[stop] EXCEPT !.from = @ + left]
  <2>1. N \in Nat /\ stop \in 1 .. N
    BY <1>2, StopIsLeast
  <2>2. left \in Nat
    BY <2>1, LeftSize
  <2>3. /\ behind \in Seq(Ranges) /\ Len(behind) = N - stop
        /\ \A i \in 1 .. N - stop : behind[i] = b[i + stop]
    <3> HIDE DEF stop
    <3> QED BY <2>1
  <2>4. MarkSended(b, s) = IF left >= Readable(b[stop]) THEN behind ELSE <<part>> \o behind
    BY <1>2, Zenon DEF MarkSended
  <2> HIDE DEF stop, left, behind
  <2>5. \A i \in 1 .. N : b[i] \in Ranges /\ b[i].from \in Nat /\ b[i].to \in Nat
    BY <2>1 DEF Ranges
  <2>6. CASE left >= Readable(b[stop])
    <3>1. MarkSended(b, s) = behind /\ stop \in 0 .. N
      BY <2>1, <2>4, <2>6
    <3>2. \A i \in 1 .. N - stop : i + stop \in 1 .. N
      BY <2>1
    <3>3. EndOf(behind, b, stop)
      BY <2>1, <2>3, <2>5, <3>2 DEF EndOf
    <3> QED BY <3>1, <3>3
  <2>7. CASE ~(left >= Readable(b[stop]))
    <3>1. /\ b[stop] \in Ranges /\ b[stop].from \in Nat /\ b[stop].to \in Nat
          /\ left < b[stop].to - b[stop].from
      BY <2>1, <2>2, <2>5, <2>7 DEF Readable
    <3>2. part = [from |-> b[stop].from + left, to |-> b[stop].to]
      <4>1. b[stop] \in [from : Nat, to : Nat]
        BY <3>1 DEF Ranges
      <4> QED BY <4>1
    <3> HIDE DEF part
    <3>3. /\ part \in Ranges /\ part.to = b[stop].to
          /\ b[stop].from <= part.from
      BY <2>2, <3>1, <3>2 DEF Ranges
    <3> DEFINE r == <<part>> \o behind
    <3>4. /\ r \in Seq(Ranges) /\ Len(r) = (N - stop) + 1 /\ r[1] = part
          /\ \A i \in 2 .. (N - stop) + 1 : r[i] = behind[i - 1]
      <4> DEFINE h == <<part>>
      <4>1. h \in Seq(Ranges) /\ Len(h) = 1 /\ h[1] = part
        BY <3>3
      <4> HIDE DEF h
      <4>2. /\ h \o behind \in Seq(Ranges) /\ Len(h \o behind) = Len(h) + Len(behind)
            /\ \A i \in 1 .. Len(h) + Len(behind) :
                 (h \o behind)[i] = IF i <= Len(h) THEN h[i] ELSE behind[i - Len(h)]
        BY <2>3, <4>1, ConcatProperties
      <4> QED BY <2>1, <2>3, <4>1, <4>2 DEF h
    <3> HIDE DEF r
    <3>5. stop - 1 \in 0 .. N /\ Len(r) = N - (stop - 1)
      BY <2>1, <3>4
    <3>6. ASSUME NEW i \in 1 .. Len(r)
          PROVE  r[i].to = b[i + (stop - 1)].to /\ b[i + (stop - 1)].from <= r[i].from
      <4>1. CASE i = 1
        <5>1. i + (stop - 1) = stop
          BY <2>1, <4>1
        <5> QED BY <3>3, <3>4, <4>1, <5>1
      <4>2. CASE i # 1
        <5>1. i - 1 \in 1 .. N - stop /\ i \in 2 .. (N - stop) + 1
              /\ (i - 1) + stop = i + (stop - 1) /\ i + (stop - 1) \in 1 .. N
          BY <2>1, <3>4, <4>2
        <5>2. r[i] = b[i + (stop - 1)]
          BY <2>3, <3>4, <5>1
        <5> QED BY <2>5, <5>1, <5>2
      <4> QED BY <4>1, <4>2
    <3>7. EndOf(r, b, stop - 1)
      BY <3>4, <3>5, <3>6 DEF EndOf
    <3> QED BY <2>4, <2>7, <3>5, <3>7 DEF r
  <2> QED BY <2>6, <2>7
<1> QED BY <1>1, <1>2

LEMMA GapLeft ==
  ASSUME NEW x \in Nat, NEW y \in Nat, NEW m \in Nat, m > 0, NEW w \in Nat,
         w = y + m, x + m <= y
  PROVE  /\ w - x \in Nat /\ w - x >= m
         /\ (w - x) - m = w - (x + m) /\ w - (x + m) # 0
  OBVIOUS

\* Of buffers of one size, k of which were written whole, k are erased: each
\* subtraction takes the size of the next buffer for that of the erased one.
LEMMA MarkSendedWhole ==
  ASSUME NEW b \in Seq(Ranges), Chained(b), Ordered(b), NEW k \in 1 .. Len(b),
         NEW m \in Nat, m > 0, m <= MaxBytes,
         \A i \in 1 .. Len(b) : Readable(b[i]) = m,
         NEW s \in Nat, s = b[k].to - b[1].from
  PROVE  MarkSended(b, s) = SubSeq(b, k + 1, Len(b))
<1> DEFINE N == Len(b)
           left == Left(b, s)
           S == Stops(b, s)
<1>1. N \in Nat /\ b # <<>> /\ MaxBytes \in Nat /\ DOMAIN b = 1 .. N
  BY SendAssumption
<1>2. \A i \in 1 .. N : /\ b[i].from \in Nat /\ b[i].to \in Nat
                        /\ b[i].to = b[i].from + m /\ Readable(b[i]) = m
  <2> TAKE i \in 1 .. N
  <2>1. b[i] \in Ranges /\ Readable(b[i]) = m
    OBVIOUS
  <2> QED BY <2>1 DEF Ranges, Readable
<1>3. /\ N > 0 => left[1] = s
      /\ \A n \in 1 .. N : n + 1 \in 1 .. N => left[n + 1] = Minus(left[n], m)
  <2>1. \A i \in 1 .. N : Readable(b[i]) <= MaxBytes
    BY <1>1, <1>2
  <2> QED BY <1>2, <2>1, LeftSize
<1>4. \A n \in 1 .. N : n + 1 \in 1 .. N => b[n].to = b[n + 1].from
  BY <1>1 DEF Chained
<1>5. \A n \in 1 .. k : n # k => b[n].to <= b[k].from /\ n + 1 \in 1 .. k /\ n \in 1 .. N
  BY <1>1 DEF Ordered
<1>6. Min(S) \in S /\ \A n \in S : Min(S) <= n
  BY <1>1, StopIsLeast
<1>7. S = {n \in 1 .. N : left[n] < Readable(b[n]) \/ n = N \/ left[n + 1] = 0}
  BY DEF Stops
<1>8. MarkSended(b, s) =
        IF left[Min(S)] >= Readable(b[Min(S)]) THEN SubSeq(b, Min(S) + 1, N)
        ELSE <<[b[Min(S)] EXCEPT !.from = @ + left[Min(S)]]>> \o SubSeq(b, Min(S) + 1, N)
  BY <1>1, Zenon DEF MarkSended
<1> HIDE DEF N, left, S
<1>9. k \in 1 .. N /\ 1 \in 1 .. N /\ 1 \in 1 .. k
  BY <1>1 DEF N
<1>10. \A n \in Nat : n + 1 \in 1 .. k => left[n + 1] = b[k].to - b[n + 1].from
  <2> DEFINE T == {n \in Nat : n + 1 \in 1 .. k => left[n + 1] = b[k].to - b[n + 1].from}
  <2>1. 0 \in T
    BY <1>1, <1>3, <1>9
  <2>2. ASSUME NEW n \in T PROVE n + 1 \in T
    <3> SUFFICES ASSUME (n + 1) + 1 \in 1 .. k
                 PROVE  left[(n + 1) + 1] = b[k].to - b[(n + 1) + 1].from
      OBVIOUS
    <3>1. /\ n \in Nat /\ n + 1 \in 1 .. k /\ n + 1 # k
          /\ n + 1 \in 1 .. N /\ (n + 1) + 1 \in 1 .. N
      BY <1>1, <1>9
    <3>2. left[n + 1] = b[k].to - b[n + 1].from
      BY <3>1
    <3>3. left[(n + 1) + 1] = Minus(left[n + 1], m)
      BY <1>3, <3>1
    <3>4. b[n + 1].to = b[(n + 1) + 1].from /\ b[n + 1].to <= b[k].from
      BY <1>4, <1>5, <3>1
    <3>5. left[n + 1] >= m /\ left[n + 1] - m = b[k].to - b[n + 1].to /\ left[n + 1] \in Nat
      <4>1. PICK x \in Nat, y \in Nat, w \in Nat :
              /\ x = b[n + 1].from /\ y = b[k].from /\ w = b[k].to
              /\ b[n + 1].to = x + m /\ w = y + m
        BY <1>2, <1>9, <3>1
      <4>2. x + m <= y /\ left[n + 1] = w - x
        <5>1. x + m <= y
          BY ONLY <3>4, <4>1
        <5>2. left[n + 1] = w - x
          BY ONLY <3>2, <4>1
        <5> QED BY <5>1, <5>2
      <4>3. w - x >= m /\ (w - x) - m = w - (x + m) /\ w - x \in Nat
        <5>1. w = y + m /\ x + m <= y
          BY <4>1, <4>2
        <5> QED BY ONLY <5>1, GapLeft, m \in Nat, m > 0, x \in Nat, y \in Nat, w \in Nat
      <4> QED BY <4>1, <4>2, <4>3
    <3> QED BY <3>3, <3>4, <3>5 DEF Minus
  <2> HIDE DEF T
  <2>3. T \in SUBSET Nat
    BY DEF T
  <2>4. T = Nat
    BY <2>1, <2>2, <2>3, SetInduction
  <2> QED BY <2>4 DEF T
<1>11. \A n \in 1 .. k : left[n] = b[k].to - b[n].from
  <2>1. \A n \in 1 .. k : n - 1 \in Nat /\ (n - 1) + 1 = n
    BY <1>9
  <2> QED BY <1>10, <2>1
<1>12. ASSUME NEW n \in 1 .. k, n # k PROVE n \notin S
  <2>1. /\ n \in 1 .. N /\ n + 1 \in 1 .. k /\ n + 1 \in 1 .. N /\ n # N
        /\ b[n].to <= b[k].from /\ b[n].to = b[n + 1].from
    BY <1>1, <1>4, <1>5, <1>9, <1>12
  <2>2. left[n] = b[k].to - b[n].from /\ left[n + 1] = b[k].to - b[n + 1].from
    BY <1>11, <2>1
  <2>6. PICK x \in Nat, y \in Nat, w \in Nat :
          /\ x = b[n].from /\ y = b[k].from /\ w = b[k].to
          /\ b[n].to = x + m /\ w = y + m
    BY <1>2, <1>9, <2>1
  <2>7. x + m <= y /\ left[n] = w - x /\ left[n + 1] = w - (x + m)
    <3>1. x + m <= y
      BY ONLY <2>1, <2>6
    <3>2. left[n] = w - x /\ left[n + 1] = w - (x + m)
      BY ONLY <2>1, <2>2, <2>6
    <3> QED BY <3>1, <3>2
  <2>8. w - x >= m /\ w - (x + m) # 0 /\ w - x \in Nat
    <3>1. w = y + m /\ x + m <= y
      BY <2>6, <2>7
    <3> QED BY ONLY <3>1, GapLeft, m \in Nat, m > 0, x \in Nat, y \in Nat, w \in Nat
  <2>3. left[n] >= m /\ left[n + 1] # 0
    BY <2>7, <2>8
  <2>4. left[n] \in Int
    BY <2>7, <2>8
  <2>5. ~(left[n] < Readable(b[n]))
    BY <1>2, <2>1, <2>3, <2>4
  <2> QED BY <1>7, <2>1, <2>3, <2>5
<1>13. left[k] = m
  BY <1>2, <1>9, <1>11
<1>14. k \in S
  <2>1. CASE k = N
    BY <1>7, <1>9, <2>1
  <2>2. CASE k # N
    <3>1. k + 1 \in 1 .. N
      BY <1>1, <1>9, <2>2
    <3>2. left[k + 1] = 0
      BY <1>3, <1>9, <1>13, <3>1 DEF Minus
    <3> QED BY <1>7, <1>9, <3>2
  <2> QED BY <2>1, <2>2
<1>15. Min(S) = k
  <2>1. Min(S) \in 1 .. N /\ Min(S) <= k
    BY <1>6, <1>7, <1>14
  <2>2. Min(S) \in 1 .. k
    BY <1>9, <2>1
  <2> QED BY <1>6, <1>12, <2>2
<1>16. left[k] >= Readable(b[k])
  BY <1>2, <1>9, <1>13
<1> QED BY <1>8, <1>15, <1>16 DEF N

------------------------------------------------------------------------------
(* The inductive invariant of the send list *)

\* While nothing went wrong, the list goes on where the wire ends, without a
\* gap, up to what was given.
Whole ==
  /\ Chained(list)
  /\ \A i \in 1 .. Len(list) : Readable(list[i]) \in given
  /\ IF list = <<>> THEN wire = Bytes(0, queued)
     ELSE wire = Bytes(0, list[1].from) /\ list[Len(list)].to = queued

SendInv ==
  /\ SendTypeOK
  /\ list \in Seq(Ranges)
  /\ OneSize /\ ~curtailed => Whole

LEMMA SendInvTypes ==
  ASSUME SendInv
  PROVE  /\ list \in Seq(Ranges) /\ Len(list) \in Nat /\ DOMAIN list = 1 .. Len(list)
         /\ queued \in Nat /\ queued <= MaxBytes /\ MaxBytes \in Nat
         /\ room \in Nat /\ room <= Space /\ Space \in Nat
         /\ Ordered(list)
         /\ \A i \in 1 .. Len(list) :
              /\ list[i] \in Ranges /\ list[i].from \in Nat /\ list[i].to \in Nat
              /\ list[i].from <= list[i].to /\ list[i].to <= queued
              /\ Readable(list[i]) \in Nat /\ Readable(list[i]) <= MaxBytes
<1>1. /\ list \in Seq(Ranges) /\ Len(list) \in Nat /\ DOMAIN list = 1 .. Len(list)
      /\ \A i \in 1 .. Len(list) : list[i] \in Ranges
  BY DEF SendInv
<1>2. /\ queued \in Nat /\ queued <= MaxBytes /\ MaxBytes \in Nat
      /\ room \in Nat /\ room <= Space /\ Space \in Nat
  BY SendAssumption DEF SendInv, SendTypeOK
<1>3. Ordered(list)
  BY DEF SendInv, SendTypeOK, Ordered
<1>4. ASSUME NEW i \in 1 .. Len(list)
      PROVE  /\ list[i] \in Ranges /\ list[i].from \in Nat /\ list[i].to \in Nat
             /\ list[i].from <= list[i].to /\ list[i].to <= queued
             /\ Readable(list[i]) \in Nat /\ Readable(list[i]) <= MaxBytes
  <2>1. list[i] \in Ranges /\ list[i].to <= queued
    BY <1>1 DEF SendInv, SendTypeOK
  <2>2. list[i].from \in Nat /\ list[i].to \in Nat /\ list[i].from <= list[i].to
    BY <2>1 DEF Ranges
  <2> QED BY <1>2, <2>1, <2>2 DEF Readable
<1> QED BY <1>1, <1>2, <1>3, <1>4

\* The list is what was given when nothing was lost.
LEMMA WholeIsSent == SendInv => EqualSentInOrder
<1> SUFFICES ASSUME SendInv, OneSize, ~curtailed
             PROVE  wire \o Positions(list) = [k \in 1 .. queued |-> k]
  BY DEF EqualSentInOrder, SentOnceInOrder
<1>1. Whole
  BY DEF SendInv
<1>2. Bytes(0, queued) = [k \in 1 .. queued |-> k]
  BY SendInvTypes DEF Bytes
<1>3. CASE list = <<>>
  <2>1. Positions(list) = <<>>
    <3>1. [i \in DOMAIN list |-> [k \in 1 .. Readable(list[i]) |-> list[i].from + k]] = <<>>
      BY <1>3
    <3> QED BY <3>1, FlattenEmpty, Zenon DEF Positions
  <2>2. wire = Bytes(0, queued) /\ Bytes(0, queued) \in Seq(Nat)
    BY <1>1, <1>3, BytesSeq, SendInvTypes DEF Whole
  <2>3. Bytes(0, queued) \o <<>> = Bytes(0, queued)
    BY <2>2, ConcatEmptySeq
  <2> QED BY <1>2, <2>1, <2>2, <2>3
<1>4. CASE list # <<>>
  <2>1. /\ wire = Bytes(0, list[1].from) /\ list[Len(list)].to = queued
        /\ list \in Seq(Ranges) /\ Chained(list)
    BY <1>1, <1>4, SendInvTypes DEF Whole
  <2>2. /\ list[1].from \in Nat /\ queued \in Nat /\ list[1].from <= queued
        /\ Positions(list) = Bytes(list[1].from, queued)
    BY <1>4, <2>1, PositionsChained
  <2>3. Bytes(0, list[1].from) \o Bytes(list[1].from, queued) = Bytes(0, queued)
    BY <2>2, BytesFromStart
  <2> QED BY <1>2, <2>1, <2>2, <2>3
<1> QED BY <1>3, <1>4

LEMMA SendInvInit == SendInit => SendInv
<1> SUFFICES ASSUME SendInit PROVE SendInv
  OBVIOUS
<1>1. list \in Seq(Ranges) /\ list = <<>> /\ Len(list) = 0 /\ DOMAIN list = {}
  BY DEF SendInit
<1>2. SendTypeOK
  <2>1. MaxBytes \in Nat /\ MaxCalls \in Nat /\ Space \in Nat
    BY SendAssumption
  <2>2. \A i \in DOMAIN list : FALSE
    BY <1>1
  <2>3. 0 \in 0 .. MaxBytes /\ 0 \in 0 .. MaxCalls /\ Space \in 0 .. Space
    BY <2>1
  <2> QED BY <2>2, <2>3 DEF SendInit, SendTypeOK
<1>3. Whole
  BY <1>1, BytesEmpty DEF SendInit, Whole, Chained
<1> QED BY <1>1, <1>2, <1>3 DEF SendInv

------------------------------------------------------------------------------
(* The steps *)

\* What is given to send goes behind what is in the list.
LEMMA SendStep == SendInv /\ Send => SendInv'
<1> SUFFICES ASSUME SendInv, Send PROVE SendInv'
  OBVIOUS
<1>0. PICK k \in 1 .. MaxBatch : \E z \in [1 .. k -> Sizes] :
        /\ queued + Total(Buffers(z, queued)) <= MaxBytes
        /\ list' = list \o Buffers(z, queued)
        /\ queued' = queued + Total(Buffers(z, queued))
        /\ given' = given \cup Range(z)
  BY Zenon DEF Send
<1>1. PICK z \in [1 .. k -> Sizes] :
        /\ queued + Total(Buffers(z, queued)) <= MaxBytes
        /\ list' = list \o Buffers(z, queued)
        /\ queued' = queued + Total(Buffers(z, queued))
        /\ given' = given \cup Range(z)
  BY <1>0
<1> DEFINE b == Buffers(z, queued)
           t == Total(b)
           N == Len(list)
<1>2. k \in Nat /\ k >= 1 /\ z \in Seq(Nat) /\ Len(z) = k /\ Range(z) = {z[i] : i \in 1 .. k}
  <2>1. MaxBatch \in Nat
    BY SendAssumption
  <2>2. k \in Nat /\ k >= 1
    BY <2>1
  <2>3. \A i \in 1 .. k : z[i] \in Nat
    BY SendAssumption
  <2>4. z \in Seq(Nat) /\ Len(z) = k
    BY <2>2, <2>3
  <2>5. Range(z) = {z[i] : i \in 1 .. k}
    BY DEF Range
  <2> QED BY <2>2, <2>4, <2>5
<1>3. /\ b \in Seq(Ranges) /\ Len(b) = k /\ Chained(b) /\ b[1].from = queued
      /\ \A i \in 1 .. k : Readable(b[i]) = z[i]
  <2>1. queued \in Nat
    BY SendInvTypes
  <2>2. Len(z) > 0
    BY <1>2
  <2> HIDE DEF b
  <2>3. /\ b \in Seq(Ranges) /\ Len(b) = Len(z) /\ Chained(b)
        /\ Len(z) > 0 => b[1].from = queued
        /\ \A i \in 1 .. Len(z) : Readable(b[i]) = z[i]
    BY <1>2, <2>1, BuffersChained DEF b
  <2> QED BY <1>2, <2>2, <2>3
<1> HIDE DEF b
<1>4. b # <<>> /\ DOMAIN b = 1 .. k
  BY <1>2, <1>3
<1>5. t \in Nat /\ t = b[k].to - queued
  BY <1>3, <1>4, TotalChained
<1> HIDE DEF t
<1>6. /\ queued + t <= MaxBytes /\ list' = list \o b /\ queued' = queued + t
      /\ given' = given \cup {z[i] : i \in 1 .. k}
  BY <1>1, <1>2 DEF b, t
<1>7. \A i \in 1 .. k : /\ b[i].from \in Nat /\ b[i].to \in Nat
                        /\ b[i].from <= b[i].to /\ b[i] \in Ranges
  BY <1>3 DEF Ranges
<1>8. /\ list' \in Seq(Ranges) /\ Len(list') = N + k /\ DOMAIN list' = 1 .. N + k
      /\ \A i \in 1 .. N : list'[i] = list[i]
      /\ \A i \in 1 .. k : list'[N + i] = b[i]
  <2>1. /\ list \o b \in Seq(Ranges) /\ Len(list \o b) = N + k
        /\ \A i \in 1 .. N + k : (list \o b)[i] = IF i <= N THEN list[i] ELSE b[i - N]
    BY <1>3, ConcatProperties, SendInvTypes
  <2>2. N \in Nat
    BY SendInvTypes
  <2>3. \A i \in 1 .. k : N + i \in 1 .. N + k /\ ~(N + i <= N) /\ (N + i) - N = i
    BY <1>2, <2>2
  <2>4. \A i \in 1 .. N : i \in 1 .. N + k /\ i <= N
    BY <1>2, <2>2
  <2> HIDE DEF N
  <2>5. DOMAIN list' = 1 .. N + k
    BY <1>6, <2>1
  <2> QED BY <1>6, <2>1, <2>3, <2>4, <2>5
<1> HIDE DEF N
<1>9. N \in Nat /\ N = Len(list)
  BY SendInvTypes DEF N
\* An index of the new list is one of the old or one of the batch.
<1>10. ASSUME NEW i \in 1 .. N + k, ~(i \in 1 .. N)
       PROVE  i - N \in 1 .. k /\ i = N + (i - N) /\ list'[i] = b[i - N]
  <2>1. i - N \in 1 .. k /\ N + (i - N) = i
    BY <1>2, <1>9, <1>10
  <2> QED BY <1>8, <2>1
\* The batch is ordered, between queued and queued'.
<1>11. /\ \A i \in 1 .. k : queued <= b[i].from /\ b[i].to <= queued + t
       /\ \A i, j \in 1 .. k : i < j => b[i].to <= b[j].from
  <2>1. /\ \A i \in 1 .. k : b[1].from <= b[i].from /\ b[i].to <= b[k].to
        /\ \A i, j \in 1 .. k : i < j => b[i].to <= b[j].from
    BY <1>3, <1>4, ChainedOrdered
  <2>2. b[k].to = queued + t
    <3>1. b[k].to \in Nat /\ queued \in Nat
      BY <1>2, <1>7, SendInvTypes
    <3> QED BY <1>5, <3>1
  <2> QED BY <1>3, <2>1, <2>2
<1>12. SendTypeOK'
  <2>1. \A i \in 1 .. N + k : list'[i].from <= list'[i].to /\ list'[i].to <= queued'
    <3> TAKE i \in 1 .. N + k
    <3>1. CASE i \in 1 .. N
      <4>1. /\ list'[i] = list[i] /\ list[i].to \in Nat
            /\ list[i].from <= list[i].to /\ list[i].to <= queued
        BY <1>8, <1>9, <3>1, SendInvTypes
      <4>2. list[i].to <= queued + t
        <5>1. queued \in Nat
          BY SendInvTypes
        <5> QED BY ONLY <1>5, <4>1, <5>1
      <4> QED BY <1>6, <4>1, <4>2
    <3>2. CASE ~(i \in 1 .. N)
      <4>1. PICK j \in 1 .. k : list'[i] = b[j]
        BY <1>10, <3>2
      <4> QED BY <1>6, <1>7, <1>11, <4>1
    <3> QED BY <3>1, <3>2
  <2>2. \A i, j \in 1 .. N + k : i < j => list'[i].to <= list'[j].from
    <3> SUFFICES ASSUME NEW i \in 1 .. N + k, NEW j \in 1 .. N + k, i < j
                 PROVE  list'[i].to <= list'[j].from
      OBVIOUS
    <3>1. CASE j \in 1 .. N
      <4>1. i \in 1 .. N
        BY <1>2, <1>9, <3>1
      <4> QED BY <1>8, <1>9, <3>1, <4>1, SendInvTypes DEF Ordered
    <3>2. CASE i \in 1 .. N /\ ~(j \in 1 .. N)
      <4>1. list'[i].to \in Nat /\ list'[i].to <= queued
        BY <1>8, <1>9, <3>2, SendInvTypes
      <4>2. list'[j].from \in Nat /\ queued <= list'[j].from
        BY <1>7, <1>10, <1>11, <3>2
      <4> QED BY <4>1, <4>2, SendInvTypes
    <3>3. CASE ~(i \in 1 .. N) /\ ~(j \in 1 .. N)
      <4>1. i - N \in 1 .. k /\ j - N \in 1 .. k /\ i - N < j - N
        BY <1>9, <1>10, <3>3
      <4> QED BY <1>10, <1>11, <3>3, <4>1
    <3> QED BY <3>1, <3>2, <3>3
  <2>3. queued' \in 0 .. MaxBytes
    BY <1>5, <1>6, SendInvTypes
  <2>4. given' \subseteq Sizes
    BY <1>6 DEF SendInv, SendTypeOK
  <2>5. calls' \in 0 .. MaxCalls
    BY SendAssumption DEF Send, SendInv, SendTypeOK
  <2>6. /\ room' \in 0 .. Space /\ sending' \in BOOLEAN /\ watch' \in {"read", "write", "spent"}
        /\ closed' \in BOOLEAN /\ told' = (IF closed' THEN 1 ELSE 0)
        /\ faulted' \in BOOLEAN /\ curtailed' \in BOOLEAN
    BY DEF Send, SendInv, SendTypeOK
  <2> QED BY <1>8, <2>1, <2>2, <2>3, <2>4, <2>5, <2>6 DEF SendTypeOK
<1>13. ASSUME OneSize', ~curtailed' PROVE Whole'
  <2>1. Whole /\ wire' = wire
    BY <1>6, <1>13 DEF OneSize, Send, SendInv
  <2>2. ASSUME NEW i \in 1 .. N + k PROVE Readable(list'[i]) \in given'
    <3>1. CASE i \in 1 .. N
      BY <1>6, <1>8, <1>9, <2>1, <3>1 DEF Whole
    <3>2. CASE ~(i \in 1 .. N)
      <4>1. PICK j \in 1 .. k : list'[i] = b[j]
        BY <1>10, <3>2
      <4>2. Readable(b[j]) = z[j] /\ z[j] \in given'
        BY <1>3, <1>6
      <4> QED BY <4>1, <4>2
    <3> QED BY <3>1, <3>2
  <2>3. ASSUME NEW i \in 1 .. (N + k) - 1 PROVE list'[i].to = list'[i + 1].from
    <3>1. CASE i + 1 \in 1 .. N
      <4>1. i \in 1 .. N - 1 /\ i \in 1 .. N
        BY <1>9, <2>3, <3>1
      <4> QED BY <1>8, <1>9, <2>1, <3>1, <4>1 DEF Whole, Chained
    <3>2. CASE i = N
      <4>1. list # <<>> /\ i \in 1 .. N
        BY <1>9, <2>3, <3>2
      <4>2. list'[i].to = queued
        BY <1>8, <1>9, <2>1, <3>2, <4>1 DEF Whole
      <4>3. list'[i + 1] = b[1]
        BY <1>2, <1>8, <3>2
      <4> QED BY <1>3, <4>2, <4>3
    <3>3. CASE ~(i + 1 \in 1 .. N) /\ i # N
      <4>1. i \in 1 .. N + k /\ i + 1 \in 1 .. N + k /\ ~(i \in 1 .. N)
        BY <1>2, <1>9, <2>3, <3>3
      <4>2. i - N \in 1 .. k - 1 /\ (i + 1) - N = (i - N) + 1
        BY <1>2, <1>9, <2>3, <4>1
      <4>3. list'[i] = b[i - N] /\ list'[i + 1] = b[(i - N) + 1]
        BY <1>10, <3>3, <4>1, <4>2
      <4> QED BY <1>3, <4>2, <4>3 DEF Chained
    <3> QED BY <3>1, <3>2, <3>3
  <2>4. list' # <<>>
    BY <1>2, <1>8, <1>9
  <2>5. list'[N + k].to = queued'
    <3>1. k \in 1 .. k
      BY <1>2
    <3>2. b[k].to \in Nat /\ queued \in Nat
      BY <1>7, <3>1, SendInvTypes
    <3>3. b[k].to = queued + t
      BY <1>5, <3>2
    <3> QED BY <1>6, <1>8, <3>1, <3>3
  <2>6. wire = Bytes(0, list'[1].from)
    <3>1. CASE list = <<>>
      <4>1. N = 0 /\ 1 \in 1 .. k /\ N + 1 = 1
        BY <1>2, <1>9, <3>1
      <4> QED BY <1>3, <1>8, <2>1, <3>1, <4>1 DEF Whole
    <3>2. CASE list # <<>>
      <4>1. 1 \in 1 .. N
        BY <1>9, <3>2, SendInvTypes
      <4> QED BY <1>8, <2>1, <3>2, <4>1 DEF Whole
    <3> QED BY <3>1, <3>2
  <2> QED BY <1>8, <2>1, <2>2, <2>3, <2>4, <2>5, <2>6 DEF Whole, Chained
<1> QED BY <1>8, <1>12, <1>13 DEF SendInv

\* However much of the list markSended erases, what is left is well formed.
LEMMA MarkedStep ==
  ASSUME SendInv, NEW s \in Nat, Marked(s), room' \in 0 .. Space, curtailed' \in BOOLEAN
  PROVE  SendTypeOK' /\ list' \in Seq(Ranges)
<1> DEFINE N == Len(list)
<1>1. PICK d \in 0 .. N : EndOf(list', list, d)
  BY MarkSendedEnd, SendInvTypes DEF Marked
<1>2. /\ N \in Nat /\ list' \in Seq(Ranges) /\ Len(list') = N - d /\ DOMAIN list' = 1 .. N - d
      /\ \A i \in 1 .. N - d : list'[i].to = list[i + d].to /\ list[i + d].from <= list'[i].from
  BY <1>1, SendInvTypes DEF EndOf
<1>3. \A i \in 1 .. N - d : /\ i + d \in 1 .. N
                            /\ list'[i].from \in Nat /\ list'[i].to \in Nat
                            /\ list'[i].from <= list'[i].to
  <2> TAKE i \in 1 .. N - d
  <2>1. list'[i] \in Ranges
    BY <1>2
  <2>2. i + d \in 1 .. N
    BY <1>2
  <2> QED BY <2>1, <2>2 DEF Ranges
<1> HIDE DEF N
<1>4. \A i \in 1 .. N - d : list'[i].to <= queued
  BY <1>2, <1>3, SendInvTypes DEF N
<1>5. \A i, j \in 1 .. N - d : i < j => list'[i].to <= list'[j].from
  <2> SUFFICES ASSUME NEW i \in 1 .. N - d, NEW j \in 1 .. N - d, i < j
               PROVE  list'[i].to <= list'[j].from
    OBVIOUS
  <2>1. i + d \in 1 .. N /\ j + d \in 1 .. N /\ i + d < j + d
    BY <1>2, <1>3
  <2>2. list[i + d].to <= list[j + d].from
    BY <2>1, SendInvTypes DEF Ordered, N
  <2>3. list[i + d].to \in Nat /\ list[j + d].from \in Nat
    BY <2>1, SendInvTypes DEF N
  <2>4. /\ list'[i].to = list[i + d].to /\ list[j + d].from <= list'[j].from
        /\ list'[j].from \in Nat
    BY <1>2, <1>3
  <2> QED BY ONLY <2>2, <2>3, <2>4
<1>6. faulted' \in BOOLEAN
  BY DEF Marked
<1> QED BY <1>2, <1>3, <1>4, <1>5, <1>6 DEF Marked, SendInv, SendTypeOK

\* What writev is given: the first buffers of the list.
LEMMA VecIsFront ==
  ASSUME SendInv, list # <<>>
  PROVE  \E k \in 1 .. Len(list) :
           /\ Vec \in Seq(Ranges) /\ Len(Vec) = k /\ \A i \in 1 .. k : Vec[i] = list[i]
<1>1. Len(list) \in Nat /\ Len(list) >= 1 /\ VecMax \in Nat /\ VecMax >= 1
  BY SendAssumption, SendInvTypes
<1> DEFINE k == IF Len(list) < VecMax THEN Len(list) ELSE VecMax
<1>2. k \in 1 .. Len(list) /\ Vec = SubSeq(list, 1, k)
  BY <1>1 DEF Vec
<1> HIDE DEF k
<1>3. /\ SubSeq(list, 1, k) \in Seq(Ranges) /\ Len(SubSeq(list, 1, k)) = k
      /\ \A i \in 1 .. k : SubSeq(list, 1, k)[i] = list[i]
  BY <1>1, <1>2, SendInvTypes
<1> QED BY <1>2, <1>3

LEMMA WritevStep == SendInv /\ Writev => SendInv'
<1> SUFFICES ASSUME SendInv, Writev PROVE SendInv'
  OBVIOUS
<1> DEFINE v == Vec
           t == Total(v)
           N == Len(list)
<1>1. list # <<>> /\ room > 0 /\ t > 0
  BY DEF Writev
<1>2. PICK k \in 1 .. N : v \in Seq(Ranges) /\ Len(v) = k /\ \A i \in 1 .. k : v[i] = list[i]
  BY <1>1, VecIsFront
<1>3. t \in Nat
  BY <1>2, TotalChained
<1> DEFINE n == IF t <= room THEN t ELSE room
<1>4. /\ wire' = wire \o SubSeq(Positions(v), 1, n) /\ room' = room - n
      /\ Marked(n) /\ curtailed' = (curtailed \/ n < t)
  <2>1. Min({t, room}) = n
    BY <1>3, MinOfTwo, SendInvTypes
  <2> HIDE DEF n, v
  <2> QED BY <2>1, Zenon DEF Writev, v, t
<1> HIDE DEF t, v
<1>5. n \in Nat /\ n <= room /\ n <= t
  BY <1>3, SendInvTypes
<1>6. SendTypeOK' /\ list' \in Seq(Ranges)
  <2>1. room' \in 0 .. Space
    BY <1>4, <1>5, SendInvTypes
  <2>2. curtailed' \in BOOLEAN
    BY <1>4, Zenon DEF SendInv, SendTypeOK
  <2> HIDE DEF n
  <2> QED BY <1>4, <1>5, <2>1, <2>2, MarkedStep
<1>7. ASSUME OneSize', ~curtailed' PROVE Whole'
  <2>1. given' = given /\ queued' = queued /\ list' = MarkSended(list, n)
    BY <1>4 DEF Marked
  <2>2. ~curtailed /\ n = t
    <3> HIDE DEF n
    <3>1. ~curtailed /\ ~(n < t)
      BY <1>4, <1>7, Zenon
    <3>2. n = t
      BY <1>3, <1>5, <3>1
    <3> QED BY <3>1, <3>2
  <2>3. Whole /\ OneSize
    BY <1>7, <2>1, <2>2 DEF SendInv, OneSize
  <2> HIDE DEF n
  <2>4. /\ N \in Nat /\ k \in Nat /\ 1 \in 1 .. N /\ 1 \in 1 .. k /\ N \in 1 .. N
        /\ list \in Seq(Ranges) /\ Chained(list) /\ Ordered(list)
        /\ wire = Bytes(0, list[1].from) /\ list[N].to = queued
    BY <1>1, <1>2, <2>3, SendInvTypes DEF Whole
  <2>5. \A i \in 1 .. N : list[i].from \in Nat /\ list[i].to \in Nat /\ list[i].from <= list[i].to
    BY SendInvTypes
  <2> HIDE DEF N
  <2>6. v # <<>> /\ Chained(v)
    <3>1. \A i \in 1 .. k - 1 : i \in 1 .. N - 1 /\ i \in 1 .. k /\ i + 1 \in 1 .. k
      BY <1>2, <2>4
    <3>2. \A i \in 1 .. N - 1 : list[i].to = list[i + 1].from
      BY <2>4 DEF Chained, N
    <3> QED BY <1>2, <2>4, <3>1, <3>2 DEF Chained
  <2>7. /\ Positions(v) = Bytes(list[1].from, list[k].to)
        /\ list[1].from <= list[k].to /\ t = list[k].to - list[1].from
    <3>1. v[1] = list[1] /\ v[k] = list[k]
      BY <1>2, <2>4
    <3> QED BY <1>2, <2>6, <3>1, PositionsChained, TotalChained DEF t
  <2>8. PICK a \in Nat, c \in Nat : a = list[1].from /\ c = list[k].to
    BY <2>4, <2>5
  <2>9. wire' = Bytes(0, c)
    <3>1. SubSeq(Bytes(a, c), 1, n) = Bytes(a, c)
      <4>1. 1 = (a - a) + 1 /\ n = c - a /\ a <= c
        BY <2>2, <2>7, <2>8
      <4> QED BY <1>5, <4>1, BytesPart
    <3>2. Bytes(0, a) \o Bytes(a, c) = Bytes(0, c)
      BY <2>7, <2>8, BytesFromStart
    <3> QED BY <1>4, <2>4, <2>7, <2>8, <3>1, <3>2
  <2>10. PICK m \in Nat : /\ m > 0 /\ m <= MaxBytes /\ m \in given
                          /\ \A i \in 1 .. N : Readable(list[i]) = m
    <3>1. /\ Readable(list[1]) \in Nat /\ Readable(list[1]) <= MaxBytes
          /\ Readable(list[1]) \in given
      BY <2>3, <2>4, SendInvTypes DEF Whole, N
    <3>2. \A i \in 1 .. N : Readable(list[i]) = Readable(list[1])
      BY <2>3, <2>4 DEF Whole, OneSize, N
    <3>3. Readable(list[1]) # 0
      BY <2>3, <3>1 DEF OneSize
    <3> QED BY <3>1, <3>2, <3>3
  <2>11. list' = SubSeq(list, k + 1, N)
    <3>1. MarkSended(list, n) = SubSeq(list, k + 1, N)
      BY <1>5, <2>2, <2>4, <2>7, <2>10, MarkSendedWhole DEF N
    <3> QED BY <2>1, <3>1
  <2>12. /\ Len(list') = N - k /\ \A i \in 1 .. N - k : list'[i] = list[i + k]
    <3>1. \A i \in k + 1 .. N : list[i] \in Ranges
      BY <2>4, SendInvTypes DEF N
    <3>2. /\ Len(SubSeq(list, k + 1, N)) = IF k + 1 <= N THEN N - (k + 1) + 1 ELSE 0
          /\ \A i \in 1 .. N - (k + 1) + 1 : SubSeq(list, k + 1, N)[i] = list[(k + 1) + i - 1]
      BY <2>4, <3>1, SubSeqProperties DEF N
    <3>3. /\ N - (k + 1) + 1 = N - k /\ \A i \in 1 .. N - k : (k + 1) + i - 1 = i + k
          /\ ~(k + 1 <= N) => N - k = 0
      BY <2>4
    <3> QED BY <2>11, <3>2, <3>3
  <2>13. Chained(list')
    <3> SUFFICES ASSUME NEW i \in 1 .. (N - k) - 1 PROVE list'[i].to = list'[i + 1].from
      BY <2>12 DEF Chained
    <3>1. /\ i \in 1 .. N - k /\ i + 1 \in 1 .. N - k /\ (i + 1) + k = (i + k) + 1
          /\ i + k \in 1 .. N - 1
      BY <2>4
    <3>2. list[i + k].to = list[(i + k) + 1].from
      BY <2>4, <3>1 DEF Chained, N
    <3> QED BY <2>12, <3>1, <3>2
  <2>14. \A i \in 1 .. N - k : Readable(list'[i]) \in given'
    <3>1. \A i \in 1 .. N - k : i + k \in 1 .. N
      BY <2>4
    <3> QED BY <2>1, <2>10, <2>12, <3>1
  <2>15. CASE list' = <<>>
    <3>1. k = N
      BY <2>4, <2>12, <2>15
    <3> QED BY <2>1, <2>4, <2>8, <2>9, <2>12, <2>13, <2>14, <2>15, <3>1 DEF Whole
  <2>16. CASE list' # <<>>
    <3>1. N - k \in Nat /\ N - k >= 1
      BY <1>6, <2>4, <2>12, <2>16
    <3>2. 1 \in 1 .. N - k /\ N - k \in 1 .. N - k /\ (N - k) + k = N /\ 1 + k = k + 1 /\ k \in 1 .. N - 1
      BY <2>4, <3>1
    <3>3. list'[1].from = c
      <4>1. list[k].to = list[k + 1].from
        BY <2>4, <3>2 DEF Chained, N
      <4> QED BY <2>8, <2>12, <3>2, <4>1
    <3>4. list'[N - k].to = queued'
      BY <2>1, <2>4, <2>12, <3>2
    <3> QED BY <2>9, <2>12, <2>13, <2>14, <2>16, <3>3, <3>4 DEF Whole
  <2> QED BY <2>15, <2>16
<1> QED BY <1>6, <1>7 DEF SendInv

LEMMA WritevFailsStep == SendInv /\ WritevFails => SendInv'
<1> SUFFICES ASSUME SendInv, WritevFails PROVE SendInv'
  OBVIOUS
<1>1. SizeMax \in Nat
  BY SendInvTypes DEF SizeMax
<1>2. Marked(SizeMax) /\ curtailed' = TRUE /\ room' = room
  BY DEF WritevFails
<1>3. room' \in 0 .. Space
  BY <1>2, SendInvTypes
<1>4. SendTypeOK' /\ list' \in Seq(Ranges)
  BY <1>1, <1>2, <1>3, MarkedStep
<1> QED BY <1>2, <1>4 DEF SendInv

\* The other steps leave the list and the wire alone.
LEMMA SendQuietStep ==
  ASSUME SendInv, UNCHANGED <<list, queued, calls, wire, faulted, given, curtailed>>,
         room' \in 0 .. Space, sending' \in BOOLEAN,
         closed' \in BOOLEAN, told' = (IF closed' THEN 1 ELSE 0),
         watch' \in {"read", "write", "spent"}
  PROVE  SendInv'
<1>1. SendTypeOK'
  BY DEF SendInv, SendTypeOK
<1>2. OneSize' /\ ~curtailed' => Whole'
  BY DEF SendInv, OneSize, Whole
<1> QED BY <1>1, <1>2 DEF SendInv

LEMMA SendInvNext == SendInv /\ [SendNext]_sendVars => SendInv'
<1> SUFFICES ASSUME SendInv, [SendNext]_sendVars PROVE SendInv'
  OBVIOUS
<1>1. /\ room \in 0 .. Space /\ sending \in BOOLEAN
      /\ closed \in BOOLEAN /\ told = (IF closed THEN 1 ELSE 0)
      /\ watch \in {"read", "write", "spent"} /\ Space \in 0 .. Space
  BY SendAssumption DEF SendInv, SendTypeOK
<1>2. CASE Send
  BY <1>2, SendStep
<1>3. CASE SendDone
  BY <1>1, <1>3, SendQuietStep DEF SendDone, history
<1>4. CASE Writev
  BY <1>4, WritevStep
<1>5. CASE WritevFails
  BY <1>5, WritevFailsStep
<1>6. CASE WritevZero
  <2>1. /\ sending' = FALSE /\ ~closed
        /\ UNCHANGED <<list, queued, calls, wire, room, faulted, given, curtailed>>
    BY <1>6 DEF WritevZero, history
  <2>2. CASE EnableWrite /\ UNCHANGED <<closed, told>>
    BY <1>1, <2>1, <2>2, SendQuietStep DEF EnableWrite
  <2>3. CASE CloseAndTell /\ UNCHANGED watch
    <3>1. told = 0 /\ told' = told + 1 /\ closed' = TRUE /\ watch' = watch
      BY <1>1, <2>1, <2>3 DEF CloseAndTell
    <3>2. closed' \in BOOLEAN /\ told' = (IF closed' THEN 1 ELSE 0)
      BY <3>1
    <3> QED
      BY <1>1, <2>1, <3>1, <3>2, SendQuietStep
  <2> QED
    BY <1>6, <2>2, <2>3 DEF WritevZero
<1>7. CASE HandleWrite
  BY <1>1, <1>7, SendQuietStep DEF HandleWrite, history
<1>8. CASE Drain
  BY <1>1, <1>8, SendQuietStep DEF Drain, history
<1>9. CASE UNCHANGED sendVars
  BY <1>1, <1>9, SendQuietStep DEF sendVars
<1> QED BY <1>2, <1>3, <1>4, <1>5, <1>6, <1>7, <1>8, <1>9 DEF SendNext

------------------------------------------------------------------------------
(* The theorems about the send list *)

THEOREM SendInvariant == SendSpec => []SendInv
  BY SendInvInit, SendInvNext, PTL DEF SendSpec

\* The list holds ranges of what was given to send, in its order, whatever
\* writev returned and however markSended miscounted, for any buffers, any
\* batches, any limit of one writev and any room in the socket.
THEOREM ListWellFormed == SendSpec => []SendTypeOK
<1>1. SendInv => SendTypeOK
  BY DEF SendInv
<1> QED BY <1>1, SendInvariant, PTL

\* Buffers of one size that writev takes whole reach the peer once and in
\* order, however the batches and the limit of one writev cut the list.
THEOREM EqualBuffersArrive == SendSpec => []EqualSentInOrder
  BY SendInvariant, WholeIsSent, PTL
==============================================================================
