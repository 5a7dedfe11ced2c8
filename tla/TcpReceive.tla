----------------------------- MODULE TcpReceive -----------------------------
(* src/TcpConnection.cpp handleRead with src/include/VecBuffer.hpp and the    *)
(* message handler of src/netpack: NetPackDispatcher::dispatch over FLNPack.  *)
(*                                                                            *)
(* One connection receives a stream of messages.  A byte is its position in   *)
(* the stream; message i is the bytes Bounds[i] + 1 .. Bounds[i + 1], and its *)
(* length field holds their number.  A buffer is what is readable in it       *)
(* (rcv), the number of bytes before that (offset) and its size.              *)
(* A definition introduced as "Faulty" is a wrong version of the definition   *)
(* after it that a property has to reject.                                    *)
EXTENDS Integers, Sequences, VecBuffer

CONSTANTS
  Bounds,       \* end of each message in the stream, after a leading 0
  PredLen,      \* _predMsgLen, the size of a new receive buffer (1024)
  Pending,      \* the size of _rcvPendingBuffer (32768)
  LenBytes,     \* the bytes of FLNPHeader::_len (2)
  LenRange,     \* the values of _len: 0..LenRange - 1 (65536)
  HeaderLen,    \* sizeof(FLNPHeader) (12)
  Ahead         \* Ahead[k]: the last message that a peer which waits for
                \* answers sends before more than k are delivered

Messages == 1 .. Len(Bounds) - 1
Stream == Bounds[Len(Bounds)]                      \* the bytes of all messages
Bytes(a, b) == [k \in 1 .. b - a |-> a + k]        \* a + 1, ..., b
Size(i) == Bounds[i + 1] - Bounds[i]

ASSUME ReceiveAssumption ==
  /\ Bounds \in Seq(Nat) /\ Len(Bounds) >= 2 /\ Bounds[1] = 0
  /\ PredLen \in Nat /\ PredLen > 0
  /\ Pending \in Nat /\ Pending > 0
  /\ LenBytes \in Nat /\ LenBytes > 0
  /\ LenRange \in Nat /\ LenRange > 0
  /\ HeaderLen \in Nat /\ HeaderLen >= LenBytes
  /\ \A i \in Messages : Size(i) >= HeaderLen
  /\ Ahead \in [0 .. Len(Bounds) - 1 -> 0 .. Len(Bounds) - 1]

VARIABLES
  wrote,       \* bytes the peer has written
  edge,        \* epoll has an event for the socket
  taken,       \* bytes read from the kernel
  rcv,         \* readable part of _rcvBuf
  offset,      \* _rcvBuf->_offset
  size,        \* _rcvBuf->_buffer->size()
  pc,          \* "idle", "readv", "dispatch"
  full,        \* the last readv filled both iovecs
  delivered,   \* messages handed to Dispatcher::dispatch
  failed,      \* ASSERT of FLNPHeader::decode
  burst,       \* history: the peer did not wait for an answer
  spilled      \* history: a readv has put bytes into the second iovec

vars == <<wrote, edge, taken, rcv, offset, size, pc, full, delivered, failed, burst, spilled>>

Init ==
  /\ wrote = 0 /\ edge = FALSE /\ taken = 0
  /\ rcv = <<>> /\ offset = 0 /\ size = PredLen
  /\ pc = "idle" /\ full = FALSE
  /\ delivered = <<>> /\ failed = FALSE
  /\ burst = FALSE /\ spilled = FALSE

Buf == [offset |-> offset, len |-> Len(rcv), size |-> size]
Parsed == Bounds[Len(delivered) + 1]

------------------------------------------------------------------------------
\* The peer writes one or more bytes of the stream; the kernel reports an edge.
\* One that waits for answers stops at the end of the message it may send.
Limit == Bounds[Ahead[Len(delivered)] + 1]

PeerWrite ==
  /\ \E n \in 1 .. Stream - wrote : wrote' = wrote + n
  /\ burst' = (burst \/ wrote' > Limit)
  /\ edge' = TRUE
  /\ UNCHANGED <<taken, rcv, offset, size, pc, full, delivered, failed, spilled>>

\* The looper dispatches EVENT_READ.
Event ==
  /\ pc = "idle" /\ edge /\ ~failed
  /\ edge' = FALSE
  /\ pc' = "readv"
  /\ UNCHANGED <<wrote, taken, rcv, offset, size, full, delivered, failed, burst, spilled>>

\* Faulty: an empty buffer is never replaced.
NeverReplaced == FALSE

\* The buffer is replaced when it is empty and less than half of it is left.
Replaced == ReadableSize(Buf) = 0 /\ 2 * WrittableSize(Buf) < PredLen
Current == IF Replaced THEN New(PredLen) ELSE Buf
Room == WrittableSize(Current)
Capacity == Room + Pending
Least(a, b) == IF a <= b THEN a ELSE b

\* One round of handleRead's loop up to the message handler: EAGAIN ends the
\* loop; what does not fit the buffer is copied behind it after enlarge(), and
\* not marked as written.
Readv ==
  /\ pc = "readv"
  /\ offset' = Current.offset
  /\ LET n == Least(wrote - taken, Capacity)
         kept == Least(n, Room)
     IN  /\ taken' = taken + n
         /\ rcv' = rcv \o Bytes(taken, taken + kept)
         /\ size' = Enlarge(Current, n - kept).size
         /\ full' = (n = Capacity)
         /\ spilled' = (spilled \/ n > kept)
         /\ pc' = IF n = 0 THEN "idle" ELSE "dispatch"
  /\ UNCHANGED <<wrote, edge, delivered, failed, burst>>

\* FLNPHeader::encode: the header's and the content's length together, in the 16
\* bits of _len.
LenField(i) == Size(i) % LenRange

\* FLNPHeader::peekPacketLength: -1 while the length field is not complete,
\* otherwise the field as the int16_t of VecBuffer::peekInt16.  Behind lost
\* bytes the field is payload: no message is recognised there.
AtMessage == Len(delivered) + 1 \in Messages /\ rcv[1] = Parsed + 1
Signed(x) == IF 2 * x < LenRange THEN x ELSE x - LenRange

PackLength ==
  IF Len(rcv) >= LenBytes /\ AtMessage
  THEN Signed(LenField(Len(delivered) + 1))
  ELSE -1

\* Faulty: one message per dispatch().
DeliverFirst ==
  /\ pc = "dispatch" /\ ~failed
  /\ PackLength > 0 /\ CanSplit(Buf, PackLength)
  /\ delivered' = Append(delivered, SubSeq(rcv, 1, PackLength))
  /\ rcv' = SubSeq(rcv, PackLength + 1, Len(rcv))
  /\ offset' = SplitAt(Buf, PackLength).left.offset
  /\ failed' = (ReadableSize(SplitAt(Buf, PackLength).piece) <= HeaderLen)
  /\ pc' = "idle"
  /\ UNCHANGED <<wrote, edge, taken, size, full, burst, spilled>>

\* FLNPack::readMessage has a message: split() it off, decode() with its ASSERT,
\* dispatch it.
Deliver ==
  /\ pc = "dispatch" /\ ~failed
  /\ PackLength > 0 /\ CanSplit(Buf, PackLength)
  /\ delivered' = Append(delivered, SubSeq(rcv, 1, PackLength))
  /\ rcv' = SubSeq(rcv, PackLength + 1, Len(rcv))
  /\ offset' = SplitAt(Buf, PackLength).left.offset
  /\ failed' = (ReadableSize(SplitAt(Buf, PackLength).piece) <= HeaderLen)
  /\ UNCHANGED <<wrote, edge, taken, size, pc, full, burst, spilled>>

\* Faulty: the loop of handleRead ends after one round.
DispatchEndsLoop ==
  /\ pc = "dispatch" /\ ~failed
  /\ PackLength <= 0 \/ ~CanSplit(Buf, PackLength)
  /\ size' = IF PackLength > 0 THEN Ensure(Buf, PackLength).size ELSE size
  /\ pc' = "idle"
  /\ UNCHANGED <<wrote, edge, taken, rcv, offset, full, delivered, failed, burst, spilled>>

\* readMessage returned nullptr: ensure() room for the message that began, and
\* back in handleRead, which asks again only after a full read.
DispatchEnd ==
  /\ pc = "dispatch" /\ ~failed
  /\ PackLength <= 0 \/ ~CanSplit(Buf, PackLength)
  /\ size' = IF PackLength > 0 THEN Ensure(Buf, PackLength).size ELSE size
  /\ pc' = IF full THEN "readv" ELSE "idle"
  /\ UNCHANGED <<wrote, edge, taken, rcv, offset, full, delivered, failed, burst, spilled>>

Handle == Event \/ Readv \/ Deliver \/ DispatchEnd

Next == PeerWrite \/ Handle

SafetySpec == Init /\ [][Next]_vars
Spec == SafetySpec /\ WF_vars(Handle)

------------------------------------------------------------------------------
(* Properties *)

TypeOK ==
  /\ wrote \in Nat /\ taken \in 0 .. wrote
  /\ edge \in BOOLEAN /\ full \in BOOLEAN /\ failed \in BOOLEAN
  /\ rcv \in Seq(Nat) /\ offset \in Nat /\ size \in Nat
  /\ offset + Len(rcv) <= size
  /\ pc \in {"idle", "readv", "dispatch"}
  /\ burst \in BOOLEAN /\ spilled \in BOOLEAN
  /\ delivered \in Seq(Seq(Nat))
  /\ Len(delivered) <= Len(Bounds) - 1

\* _rcvBuf holds, without a gap, every byte read from the socket that no
\* message has been made of (TcpConnection.cpp:51: "_rcvBuf currentlly store
\* all buffer we have read this time").
StreamIntact == rcv = Bytes(Parsed, taken)

\* Every message is delivered as it was sent, in the order of sending.
DeliveredAsSent ==
  \A i \in 1 .. Len(delivered) : delivered[i] = Bytes(Bounds[i], Bounds[i + 1])

\* handleRead leaves no byte in an edge triggered socket without an edge that
\* will bring it back, also of a peer that writes more than one readv takes.
NoStrandedBytes == pc = "idle" /\ ~edge => taken = wrote

\* No whole message stays behind in _rcvBuf when the handler returns: nothing
\* would take it out before the peer sends more.
NoMessageLeft ==
  pc = "idle" /\ ~failed /\ ~spilled /\ Len(delivered) + 1 \in Messages =>
    Len(rcv) < Size(Len(delivered) + 1)

\* The receive buffer keeps its first size: memory does not grow with the
\* length of the conversation.
BufferBounded == size <= PredLen

\* The ASSERT of FLNPHeader::decode does not fail.
DecodeAccepts == ~failed

\* What peers that wait for answers rely on: the rest of what they send without
\* one fits behind what is in the buffer, without the second iovec.
RestFits == rcv # <<>> => offset + (Limit - Parsed) <= size

\* As long as no readv has reached the second iovec, however much the peer
\* writes at a time and however the buffer moves, grows and is replaced.
Received ==
  ~spilled => StreamIntact /\ DeliveredAsSent /\ Parsed <= taken /\ DecodeAccepts

\* A peer that waits for answers never gets there, and the buffer never grows.
Contained == ~burst => ~spilled /\ wrote <= Limit /\ RestFits /\ BufferBounded

\* The inductive invariant of TcpConnection_proofs.
ReceiveInv == TypeOK /\ Received /\ Contained

\* What the peer has sent completely is delivered, unless the second iovec
\* came into play.
SentIsDelivered ==
  \A i \in Messages : wrote >= Bounds[i + 1] ~> Len(delivered) >= i \/ spilled
==============================================================================
