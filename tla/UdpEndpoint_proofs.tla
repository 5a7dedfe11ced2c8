-------------------------- MODULE UdpEndpoint_proofs --------------------------
(* SentInOrder, HandedAsArrived, HandlersInOrder and NoStrandedDatagram for   *)
(* any number of senders, handlers and datagrams, whatever fails.  And for    *)
(* the pool of FixedBuffer.hpp, which UdpEndpoint.hpp includes, TreeIsFreeSet *)
(* and NullWhenExhausted, for any number of places and width of a word.       *)
EXTENDS UdpEndpoint, BitmapTree, SequenceLemmas

------------------------------------------------------------------------------
(* The invariant *)

Arrivals == [cmd : Cmds, size : Nat]
ToSend(threads) == [from : threads, no : Nat, buf : Buffers]
OnWire == [from : Threads, no : Nat, size : Nat]
Visits == [cmd : Cmds, at : Nat, seen : Seq(Handlers), before : Nat]

TypeOK ==
  /\ anyHandler \in Seq(Handlers)
  /\ \A c \in DOMAIN handlerMap : handlerMap[c] \in Handlers
  /\ visit \in Visits
  /\ inbox \in Seq(Arrivals) /\ arrived \in Seq(Arrivals) /\ handed \in Seq(Arrivals)
  /\ wire \in Seq(OnWire)
  /\ sndList \in Seq(ToSend(Threads))
  /\ mailbox \in Seq(ToSend(Senders))      \* the looper does not post to itself
  /\ sends \in [Threads -> Nat]
  /\ watch \in {"read", "write", "spent"}
  /\ event \in {"none", "read", "write"}
  /\ pc \in {"idle", "send", "recv", "dispatch", "handler", "reset"}
  /\ back \in {"idle", "dispatch", "reset"}

\* Where the looper's thread is in handleRead, the send loop it is in left aside.
Stage == IF pc = "send" THEN back ELSE pc

\* An edge is not lost, and the one shot event is not of a socket that reads.
EdgeKept ==
  /\ Stage = "idle" /\ Registered /\ watch = "read" /\ inbox # <<>> =>
       ready \/ event = "read"
  /\ event = "write" => watch # "read"

\* A receive finds the buffer as it was made.
FreshBuffer == Stage \in {"idle", "recv"} => rcvBuf = New(Mtu)

\* A walk has called the handlers in front of where it is, and while the one for
\* the command runs nobody can take its place.
Walked ==
  /\ visit.at \in 1 .. Len(anyHandler) + 1
  /\ visit.seen = SubSeq(anyHandler, 1, visit.at - 1)

WalkInOrder ==
  /\ visit.before <= Len(anyHandler)
  /\ Stage = "dispatch" => Walked
  /\ Stage = "handler" => Walked \/ (visit.at = 0 /\ visit.cmd \in DOMAIN handlerMap
                                     /\ InRegisteredOrder)
  /\ Stage = "reset" => InRegisteredOrder

\* The invariant that is inductive.
EndpointInv ==
  /\ TypeOK
  /\ SentInOrder
  /\ FreshBuffer
  /\ HandedAsArrived
  /\ WalkInOrder
  /\ EdgeKept

------------------------------------------------------------------------------
(* Types *)

USE DEF vars, registry, kernel, channel, calling

\* What is behind the window of a buffer is not negative.
LEMMA PayloadSize == \A b \in Buffers : WrittableSize(b) \in Nat
  BY UdpAssumption DEF VecBuffers, InVector, WrittableSize

LEMMA InitTypes == Init => TypeOK
<1> SUFFICES ASSUME Init PROVE TypeOK
  OBVIOUS
<1>1. visit \in Visits
  <2>1. (CHOOSE c \in Cmds : TRUE) \in Cmds
    BY DispatcherAssumption
  <2> QED BY <2>1 DEF Init, DispatcherInit, Visits
<1>2. sends \in [Threads -> Nat]
  BY DEF Init
<1>3. \A c \in DOMAIN handlerMap : handlerMap[c] \in Handlers
  <2>1. DOMAIN handlerMap = {}
    BY DEF Init, DispatcherInit
  <2> QED BY <2>1
<1> QED BY <1>1, <1>2, <1>3, EmptySeq DEF Init, DispatcherInit, TypeOK

\* A datagram is cut to the mtu.
LEMMA CutSize ==
  ASSUME NEW n \in Nat
  PROVE  Shorter(n, Mtu) \in Nat /\ Mtu \in Nat
  BY UdpAssumption DEF Shorter

\* What a receive hands on.
LEMMA ReceivedDatagram ==
  ASSUME TypeOK, FreshBuffer, Recvfrom
  PROVE  /\ inbox # <<>> /\ Head(inbox) \in Arrivals
         /\ handed' = Append(handed, [Head(inbox) EXCEPT !.size = Shorter(@, Mtu)])
         /\ [Head(inbox) EXCEPT !.size = Shorter(@, Mtu)] \in Arrivals
<1>1. inbox # <<>> /\ Head(inbox) \in Arrivals
  BY DEF Recvfrom, TypeOK
<1> PICK d \in Arrivals : d = Head(inbox)
  BY <1>1
<1>2. rcvBuf = New(Mtu)
  BY DEF Recvfrom, FreshBuffer, Stage
<1>3. WrittableSize(rcvBuf) = Mtu
  BY <1>2, UdpAssumption DEF New, WrittableSize
<1>4. ReadableSize(rcvBuf') = Shorter(d.size, Mtu)
  <2>1. rcvBuf' = MarkWrite(New(Mtu), Shorter(d.size, Mtu))
    BY <1>2, <1>3 DEF Recvfrom, Received
  <2>2. Shorter(d.size, Mtu) \in Nat
    BY CutSize DEF Arrivals
  <2> QED BY <2>1, <2>2 DEF MarkWrite, New, ReadableSize
<1>5. handed' = Append(handed, [cmd |-> d.cmd, size |-> Shorter(d.size, Mtu)])
  BY <1>4 DEF Recvfrom
<1>6. /\ [d EXCEPT !.size = Shorter(@, Mtu)] = [cmd |-> d.cmd, size |-> Shorter(d.size, Mtu)]
      /\ [d EXCEPT !.size = Shorter(@, Mtu)] \in Arrivals
  BY CutSize DEF Arrivals
<1> QED BY <1>1, <1>5, <1>6

\* The registry after a registration: both tables have grown, or are as they were.
LEMMA TablesGrow ==
  ASSUME TypeOK, Register
  PROVE  /\ anyHandler' \in Seq(Handlers)
         /\ \A c \in DOMAIN handlerMap' : handlerMap'[c] \in Handlers
         /\ Len(anyHandler) <= Len(anyHandler')
         /\ \A n \in 0 .. Len(anyHandler) :
              SubSeq(anyHandler', 1, n) = SubSeq(anyHandler, 1, n)
         /\ \A c \in DOMAIN handlerMap :
              c \in DOMAIN handlerMap' /\ handlerMap'[c] = handlerMap[c]
<1>0. anyHandler \in Seq(Handlers)
  BY DEF TypeOK
<1>1. ASSUME NEW h \in Handlers, RegisterAny(h)
      PROVE  /\ anyHandler' \in Seq(Handlers)
             /\ Len(anyHandler) <= Len(anyHandler')
             /\ \A n \in 0 .. Len(anyHandler) :
                  SubSeq(anyHandler', 1, n) = SubSeq(anyHandler, 1, n)
             /\ handlerMap' = handlerMap
  <2>1. anyHandler' = Append(anyHandler, h) /\ handlerMap' = handlerMap
    BY <1>1 DEF RegisterAny
  <2>2. Len(anyHandler) \in Nat /\ Len(Append(anyHandler, h)) = Len(anyHandler) + 1
    BY <1>0
  <2>3. \A n \in 0 .. Len(anyHandler) :
          SubSeq(Append(anyHandler, h), 1, n) = SubSeq(anyHandler, 1, n)
    BY <1>0
  <2>4. Append(anyHandler, h) \in Seq(Handlers)
    BY <1>0
  <2> QED BY <2>1, <2>2, <2>3, <2>4
<1>2. ASSUME NEW cmd \in Cmds, NEW h \in Handlers, RegisterFor(cmd, h)
      PROVE  /\ \A c \in DOMAIN handlerMap' : handlerMap'[c] \in Handlers
             /\ \A c \in DOMAIN handlerMap :
                  c \in DOMAIN handlerMap' /\ handlerMap'[c] = handlerMap[c]
             /\ anyHandler' = anyHandler
  BY <1>2 DEF RegisterFor, TypeOK
<1>3. Len(anyHandler) \in Nat
  BY <1>0
<1>4. CASE \E h \in Handlers : RegisterAny(h)
  BY <1>1, <1>4 DEF TypeOK
<1>5. CASE \E h \in Handlers, cmd \in Cmds : RegisterFor(cmd, h)
  BY <1>0, <1>2, <1>3, <1>5
<1> QED BY <1>4, <1>5 DEF Register

\* A step of the walk.
GoneOn(v, a, s) == [v EXCEPT !.at = a, !.seen = s]

LEMMA VisitGoesOn ==
  \A v \in Visits, a \in Nat, s \in Seq(Handlers) :
    /\ GoneOn(v, a, s) \in Visits
    /\ GoneOn(v, a, s).at = a /\ GoneOn(v, a, s).seen = s
    /\ GoneOn(v, a, s).cmd = v.cmd /\ GoneOn(v, a, s).before = v.before
  BY DEF Visits, GoneOn

LEMMA TypeStep == TypeOK /\ FreshBuffer /\ [Next]_vars => TypeOK'
<1> SUFFICES ASSUME TypeOK, FreshBuffer, [Next]_vars PROVE TypeOK'
  OBVIOUS
<1>1. ASSUME NEW d \in Datagrams, Arrive(d) PROVE TypeOK'
  <2>1. d \in Arrivals
    BY UdpAssumption DEF Arrivals
  <2> QED BY <1>1, <2>1 DEF Arrive, TypeOK, Registered
<1>2. CASE Drain BY <1>2 DEF Drain, TypeOK, Registered
<1>3. CASE Attach BY <1>3 DEF Attach, TypeOK
<1>4. CASE Detach BY <1>4 DEF Detach, TypeOK
<1>5. CASE RegisterEarly BY <1>5, TablesGrow DEF RegisterEarly, Register, TypeOK
<1>6. ASSUME NEW t \in Senders, NEW b \in Buffers, Post(t, b) PROVE TypeOK'
  <2>1. t \in Threads /\ sends[t] + 1 \in Nat
    BY DEF TypeOK, Threads
  <2>2. Message(t, b) \in ToSend(Senders)
    BY <2>1 DEF Message, ToSend
  <2>3. sends' \in [Threads -> Nat] /\ mailbox' \in Seq(ToSend(Senders))
    BY <1>6, <2>1, <2>2 DEF Post, TypeOK
  <2> QED BY <1>6, <2>3 DEF Post, TypeOK
<1>7. CASE HandlerRegisters
  BY <1>7, TablesGrow DEF HandlerRegisters, AfterHandler, Register, TypeOK
<1>8. ASSUME NEW b \in Buffers, HandlerAnswers(b) PROVE TypeOK'
  <2>1. Looper \in Threads /\ sends[Looper] + 1 \in Nat
    BY DEF TypeOK, Threads
  <2>2. Message(Looper, b) \in ToSend(Threads)
    BY <2>1 DEF Message, ToSend
  <2>3. sends' \in [Threads -> Nat] /\ sndList' \in Seq(ToSend(Threads))
    BY <1>8, <2>1, <2>2 DEF HandlerAnswers, TypeOK
  <2> QED BY <1>8, <2>3 DEF HandlerAnswers, AfterHandler, TypeOK
<1>9. CASE RunPosted
  <2>1. Head(mailbox) \in ToSend(Senders) /\ Tail(mailbox) \in Seq(ToSend(Senders))
    BY <1>9 DEF RunPosted, TypeOK
  <2>2. Head(mailbox) \in ToSend(Threads)
    BY <2>1 DEF ToSend, Threads
  <2> QED BY <1>9, <2>1, <2>2 DEF RunPosted, TypeOK
<1>10. CASE Wait BY <1>10 DEF Wait, TypeOK
<1>11. CASE HandleEvent BY <1>11 DEF HandleEvent, HandleRead, HandleWrite, TypeOK
<1>12. CASE Sendto
  <2> DEFINE m == Head(sndList)
  <2>1. m \in ToSend(Threads) /\ Tail(sndList) \in Seq(ToSend(Threads))
    BY <1>12 DEF Sendto, TypeOK
  <2>2. [from |-> m.from, no |-> m.no, size |-> Payload(m)] \in OnWire
    BY <2>1, PayloadSize DEF ToSend, OnWire, Payload
  <2> QED BY <1>12, <2>1, <2>2 DEF Sendto, TypeOK
<1>13. CASE SendtoAgain BY <1>13 DEF SendtoAgain, TypeOK
<1>14. CASE SendtoFails BY <1>14 DEF SendtoFails, TypeOK
<1>15. CASE SendDone BY <1>15 DEF SendDone, TypeOK
<1>16. CASE Recvfrom
  <2>1. inbox # <<>> /\ Head(inbox) \in Arrivals
    BY <1>16, ReceivedDatagram
  <2>3. Tail(inbox) \in Seq(Arrivals)
    BY <2>1 DEF TypeOK
  <2>4. handed' \in Seq(Arrivals)
    <3> PICK d \in Arrivals : handed' = Append(handed, d)
      BY <1>16, ReceivedDatagram, Zenon
    <3> QED BY DEF TypeOK
  <2>2. visit' \in Visits
    <3>1. <<>> \in Seq(Handlers) /\ Len(anyHandler) \in Nat
      BY DEF TypeOK
    <3> QED BY <1>16, <2>1, <3>1 DEF Recvfrom, Dispatch, Visits, Arrivals
  <2> QED BY <1>16, <2>2, <2>3, <2>4 DEF Recvfrom, TypeOK
<1>17. CASE RecvfromEmpty BY <1>17 DEF RecvfromEmpty, Shut, TypeOK
<1>18. CASE RecvfromFails BY <1>18 DEF RecvfromFails, Shut, TypeOK
<1>19. CASE RecvfromNothing BY <1>19 DEF RecvfromNothing, TypeOK
<1>20. CASE Call
  <2>1. visit.at \in Nat /\ visit.seen \in Seq(Handlers) /\ visit \in Visits
    BY DEF TypeOK, Visits
  <2>2. ASSUME CallAny PROVE visit' \in Visits
    <3>1. anyHandler[visit.at] \in Handlers
      BY <2>2 DEF CallAny, TypeOK
    <3>2. Append(visit.seen, anyHandler[visit.at]) \in Seq(Handlers) /\ visit.at + 1 \in Nat
      BY <2>1, <3>1
    <3> DEFINE a == visit.at + 1
               s == Append(visit.seen, anyHandler[visit.at])
    <3>3. visit' = GoneOn(visit, a, s)
      BY <2>2 DEF CallAny, GoneOn
    <3>4. a \in Nat /\ s \in Seq(Handlers)
      BY <3>2
    <3> HIDE DEF a, s
    <3> QED BY ONLY <2>1, <3>3, <3>4, VisitGoesOn, Zenon
  <2>3. ASSUME CallSpecific PROVE visit' \in Visits
    <3>1. Specific(visit.cmd) \in Seq(Handlers)
      BY DEF Specific, TypeOK
    <3>2. visit.seen \o Specific(visit.cmd) \in Seq(Handlers)
      BY <2>1, <3>1
    <3> DEFINE s == visit.seen \o Specific(visit.cmd)
    <3>3. visit' = GoneOn(visit, 0, s)
      BY <2>3 DEF CallSpecific, GoneOn
    <3>4. 0 \in Nat /\ s \in Seq(Handlers)
      BY <3>2
    <3> HIDE DEF s
    <3> QED BY ONLY <2>1, <3>3, <3>4, VisitGoesOn, Zenon
  <2>4. visit' \in Visits
    BY <1>20, <2>2, <2>3 DEF Call
  <2> QED BY <1>20, <2>4 DEF Call, TypeOK
<1>21. CASE HandlerReturns BY <1>21 DEF HandlerReturns, AfterHandler, TypeOK
<1>22. CASE ResetBuffer BY <1>22 DEF ResetBuffer, TypeOK
<1>23. CASE UNCHANGED vars BY <1>23 DEF TypeOK
<1> QED
  BY <1>1, <1>2, <1>3, <1>4, <1>5, <1>6, <1>7, <1>8, <1>9, <1>10, <1>11, <1>12,
     <1>13, <1>14, <1>15, <1>16, <1>17, <1>18, <1>19, <1>20, <1>21, <1>22, <1>23
     DEF Next, Looping, SendLoop, ReadLoop
------------------------------------------------------------------------------
(* Receiving *)

\* A step either changes nothing that the edge depends on, or stays out of the
\* idle stage, or sees to it that the edge is there or that nothing waits.
LEMMA EdgeStep == TypeOK /\ EdgeKept /\ [Next]_vars => EdgeKept'
<1> SUFFICES ASSUME TypeOK, EdgeKept, [Next]_vars PROVE EdgeKept'
  OBVIOUS
<1> USE DEF EdgeKept, Stage, Registered
<1>1. ASSUME NEW d \in Datagrams, Arrive(d) PROVE EdgeKept'
  BY <1>1 DEF Arrive
<1>2. CASE Drain BY <1>2 DEF Drain
<1>3. CASE Attach BY <1>3 DEF Attach
<1>4. CASE Detach BY <1>4 DEF Detach
<1>5. CASE RegisterEarly BY <1>5 DEF RegisterEarly, Register
<1>6. ASSUME NEW t \in Senders, NEW b \in Buffers, Post(t, b) PROVE EdgeKept'
  BY <1>6 DEF Post
<1>7. CASE HandlerRegisters
  BY <1>7 DEF HandlerRegisters, Register, AfterHandler
<1>8. ASSUME NEW b \in Buffers, HandlerAnswers(b) PROVE EdgeKept'
  BY <1>8 DEF HandlerAnswers, AfterHandler
<1>9. CASE RunPosted BY <1>9 DEF RunPosted
<1>10. CASE Wait BY <1>10 DEF Wait, Readable, Writable
<1>11. CASE HandleEvent BY <1>11 DEF HandleEvent, HandleRead, HandleWrite, TypeOK
<1>12. CASE Sendto BY <1>12 DEF Sendto
<1>13. CASE SendtoAgain BY <1>13 DEF SendtoAgain
<1>14. CASE SendtoFails BY <1>14 DEF SendtoFails
<1>15. CASE SendDone BY <1>15 DEF SendDone, TypeOK
<1>16. CASE Recvfrom BY <1>16 DEF Recvfrom
<1>17. CASE RecvfromEmpty BY <1>17 DEF RecvfromEmpty, Shut
<1>18. CASE RecvfromFails BY <1>18 DEF RecvfromFails, Shut
<1>19. CASE RecvfromNothing BY <1>19 DEF RecvfromNothing
<1>20. CASE Call BY <1>20 DEF Call
<1>21. CASE HandlerReturns BY <1>21 DEF HandlerReturns, AfterHandler
<1>22. CASE ResetBuffer BY <1>22 DEF ResetBuffer
<1>23. CASE UNCHANGED vars BY <1>23
<1> QED
  BY <1>1, <1>2, <1>3, <1>4, <1>5, <1>6, <1>7, <1>8, <1>9, <1>10, <1>11, <1>12,
     <1>13, <1>14, <1>15, <1>16, <1>17, <1>18, <1>19, <1>20, <1>21, <1>22, <1>23
     DEF Next, Looping, SendLoop, ReadLoop

\* Only Recvfrom and ResetBuffer change the buffer; one leaves the stage of a
\* receive, the other makes a fresh one.
LEMMA BufferStep == TypeOK /\ FreshBuffer /\ [Next]_vars => FreshBuffer'
<1> SUFFICES ASSUME TypeOK, FreshBuffer, [Next]_vars PROVE FreshBuffer'
  OBVIOUS
<1> USE DEF FreshBuffer, Stage
<1>1. CASE UNCHANGED <<rcvBuf, pc, back>>
  BY <1>1
<1>2. CASE \/ HandlerRegisters \/ HandlerReturns \/ \E b \in Buffers : HandlerAnswers(b)
  BY <1>2 DEF HandlerRegisters, HandlerReturns, HandlerAnswers, AfterHandler
<1>3. CASE RunPosted \/ HandleEvent \/ SendDone
  BY <1>3 DEF RunPosted, HandleEvent, HandleRead, HandleWrite, SendDone, TypeOK
<1>4. CASE \/ Recvfrom \/ RecvfromEmpty \/ RecvfromFails \/ RecvfromNothing
           \/ Call \/ ResetBuffer
  BY <1>4 DEF Recvfrom, RecvfromEmpty, RecvfromFails, RecvfromNothing, Shut, Call,
              ResetBuffer
<1> QED
  BY <1>1, <1>2, <1>3, <1>4
     DEF Next, Looping, SendLoop, ReadLoop, Arrive, Drain, Attach, Detach, RegisterEarly,
         Register, Post, Wait, Sendto, SendtoAgain, SendtoFails

\* handed and inbox are the two parts of arrived, element by element.
LEMMA PartsOfArrived ==
  ASSUME NEW a \in Seq(Arrivals), NEW q \in Seq(Arrivals), NEW n \in 0 .. Len(a)
  PROVE  a = SubSeq(a, 1, n) \o q <=>
           Len(a) = n + Len(q) /\ \A i \in 1 .. Len(q) : a[n + i] = q[i]
<1> DEFINE s == SubSeq(a, 1, n) \o q
<1>1. /\ Len(a) \in Nat /\ Len(q) \in Nat /\ n \in Nat
      /\ DOMAIN s = 1 .. n + Len(q) /\ Len(s) = n + Len(q)
      /\ \A i \in 1 .. n : s[i] = a[i]
      /\ \A i \in n + 1 .. n + Len(q) : s[i] = q[i - n]
  OBVIOUS
<1>2. s \in Seq(Arrivals)
  OBVIOUS
<1> HIDE DEF s
<1>3. ASSUME a = s PROVE Len(a) = n + Len(q) /\ \A i \in 1 .. Len(q) : a[n + i] = q[i]
  <2>1. ASSUME NEW i \in 1 .. Len(q) PROVE s[n + i] = q[i]
    <3>1. n + i \in n + 1 .. n + Len(q) /\ (n + i) - n = i
      BY <1>1
    <3> QED BY <1>1, <3>1
  <2> QED BY <1>1, <1>3, <2>1
<1>4. ASSUME Len(a) = n + Len(q), \A i \in 1 .. Len(q) : a[n + i] = q[i]
      PROVE  a = s
  <2>1. ASSUME NEW i \in 1 .. Len(a) PROVE a[i] = s[i]
    <3>1. CASE i \in 1 .. n
      BY <1>1, <3>1
    <3>2. CASE i \in n + 1 .. n + Len(q)
      <4>1. i - n \in 1 .. Len(q) /\ n + (i - n) = i
        BY <1>1, <3>2
      <4>2. a[i] = q[i - n]
        BY <1>4, <4>1
      <4> QED BY <1>1, <3>2, <4>2
    <3> QED BY <1>1, <1>4, <3>1, <3>2
  <2>2. Len(a) = Len(s)
    BY <1>1, <1>4
  <2> QED BY <1>2, <2>1, <2>2, SeqEqual
<1> QED BY <1>3, <1>4 DEF s

\* One more arrives.
LEMMA PartsGrow ==
  ASSUME NEW a \in Seq(Arrivals), NEW q \in Seq(Arrivals), NEW n \in 0 .. Len(a),
         NEW d \in Arrivals, a = SubSeq(a, 1, n) \o q
  PROVE  Append(a, d) = SubSeq(Append(a, d), 1, n) \o Append(q, d)
<1> DEFINE b == Append(a, d)
           r == Append(q, d)
<1>1. /\ b \in Seq(Arrivals) /\ r \in Seq(Arrivals) /\ Len(a) \in Nat /\ Len(q) \in Nat
      /\ Len(b) = Len(a) + 1 /\ Len(r) = Len(q) + 1 /\ n \in Nat
      /\ b[Len(a) + 1] = d /\ r[Len(q) + 1] = d
      /\ \A i \in 1 .. Len(a) : b[i] = a[i]
      /\ \A i \in 1 .. Len(q) : r[i] = q[i]
  OBVIOUS
<1>2. Len(a) = n + Len(q) /\ \A i \in 1 .. Len(q) : a[n + i] = q[i]
  BY PartsOfArrived
<1> HIDE DEF b, r
<1>3. n \in 0 .. Len(b) /\ Len(b) = n + Len(r)
  BY <1>1, <1>2
<1>4. ASSUME NEW i \in 1 .. Len(r) PROVE b[n + i] = r[i]
  <2>1. CASE i \in 1 .. Len(q)
    <3>1. n + i \in 1 .. Len(a)
      BY <1>1, <1>2, <2>1
    <3> QED BY <1>1, <1>2, <2>1, <3>1
  <2>2. CASE i = Len(q) + 1
    <3>1. n + i = Len(a) + 1
      BY <1>1, <1>2, <2>2
    <3> QED BY <1>1, <2>2, <3>1
  <2> QED BY <1>1, <2>1, <2>2
<1>5. b = SubSeq(b, 1, n) \o r
  BY <1>1, <1>3, <1>4, PartsOfArrived
<1> QED BY <1>5 DEF b, r

\* One more is handed on.
LEMMA PartsMove ==
  ASSUME NEW a \in Seq(Arrivals), NEW q \in Seq(Arrivals), NEW n \in 0 .. Len(a),
         q # <<>>, a = SubSeq(a, 1, n) \o q
  PROVE  /\ n + 1 \in 1 .. Len(a) /\ a[n + 1] = Head(q)
         /\ a = SubSeq(a, 1, n + 1) \o Tail(q)
<1> DEFINE r == Tail(q)
<1>1. /\ r \in Seq(Arrivals) /\ Len(a) \in Nat /\ Len(q) \in Nat \ {0} /\ n \in Nat
      /\ Len(r) = Len(q) - 1 /\ Head(q) = q[1]
      /\ \A i \in 1 .. Len(q) - 1 : r[i] = q[i + 1]
  OBVIOUS
<1>2. Len(a) = n + Len(q) /\ \A i \in 1 .. Len(q) : a[n + i] = q[i]
  BY PartsOfArrived
<1> HIDE DEF r
<1>3. n + 1 \in 1 .. Len(a) /\ a[n + 1] = Head(q)
  <2>1. 1 \in 1 .. Len(q)
    BY <1>1
  <2> QED BY <1>1, <1>2, <2>1
<1> DEFINE m == n + 1
<1>4. m \in 0 .. Len(a) /\ Len(a) = m + Len(r)
  BY <1>1, <1>2
<1>5. ASSUME NEW i \in 1 .. Len(r) PROVE a[m + i] = r[i]
  <2>1. i + 1 \in 1 .. Len(q) /\ m + i = n + (i + 1) /\ i \in 1 .. Len(q) - 1
    BY <1>1
  <2> QED BY <1>1, <1>2, <2>1
<1> HIDE DEF m
<1>6. a = SubSeq(a, 1, m) \o r
  BY <1>1, <1>4, <1>5, PartsOfArrived
<1> QED BY <1>3, <1>6 DEF m, r

LEMMA BehindAt ==
  ASSUME NEW s \in Seq(Arrivals), NEW e \in Arrivals
  PROVE  /\ Len(Append(s, e)) = Len(s) + 1 /\ DOMAIN Append(s, e) = 1 .. Len(s) + 1
         /\ \A i \in 1 .. Len(s) : Append(s, e)[i] = s[i]
         /\ Append(s, e)[Len(s) + 1] = e
  OBVIOUS

LEMMA HandedStep ==
  TypeOK /\ FreshBuffer /\ HandedAsArrived /\ [Next]_vars => HandedAsArrived'
<1> SUFFICES ASSUME TypeOK, FreshBuffer, HandedAsArrived, [Next]_vars
             PROVE  HandedAsArrived'
  OBVIOUS
<1>0. /\ arrived \in Seq(Arrivals) /\ inbox \in Seq(Arrivals) /\ handed \in Seq(Arrivals)
      /\ Len(arrived) \in Nat /\ Len(handed) \in Nat /\ Len(inbox) \in Nat
      /\ DOMAIN handed = 1 .. Len(handed) /\ Len(handed) <= Len(arrived)
  BY DEF TypeOK, HandedAsArrived
<1>a. Len(handed) \in 0 .. Len(arrived)
  BY <1>0
<1>1. ASSUME NEW d \in Datagrams, Arrive(d) PROVE HandedAsArrived'
  <2>1. d \in Arrivals
    BY UdpAssumption DEF Arrivals
  <2>2. /\ arrived' = Append(arrived, d) /\ inbox' = Append(inbox, d)
        /\ handed' = handed /\ ~closed /\ closed' = closed
    BY <1>1 DEF Arrive
  <2>3. arrived' = SubSeq(arrived', 1, Len(handed)) \o inbox'
    BY <1>0, <1>a, <2>1, <2>2, PartsGrow DEF HandedAsArrived
  <2>4. /\ Len(Append(arrived, d)) = Len(arrived) + 1
        /\ \A i \in 1 .. Len(arrived) : Append(arrived, d)[i] = arrived[i]
    BY <1>0, <2>1
  <2>5. \A i \in DOMAIN handed : handed[i] = [arrived'[i] EXCEPT !.size = Shorter(@, Mtu)]
    BY <1>0, <2>2, <2>4 DEF HandedAsArrived
  <2>6. Len(handed) <= Len(arrived')
    BY <1>0, <2>2, <2>4
  <2> QED BY <2>2, <2>3, <2>5, <2>6 DEF HandedAsArrived
<1>2. CASE Recvfrom
  <2> DEFINE n == Len(handed)
  <2>0. PICK d \in Arrivals, e \in Arrivals :
        /\ d = Head(inbox) /\ e = [d EXCEPT !.size = Shorter(@, Mtu)]
        /\ handed' = Append(handed, e)
    BY <1>2, ReceivedDatagram, Zenon
  <2>1. /\ inbox # <<>> /\ inbox' = Tail(inbox) /\ arrived' = arrived
        /\ ~closed /\ closed' = closed
    BY <1>2, ReceivedDatagram DEF Recvfrom
  <2>2. /\ n + 1 \in 1 .. Len(arrived) /\ arrived[n + 1] = d
        /\ arrived = SubSeq(arrived, 1, n + 1) \o Tail(inbox)
    <3>1. /\ arrived \in Seq(Arrivals) /\ inbox \in Seq(Arrivals) /\ inbox # <<>>
          /\ n \in 0 .. Len(arrived) /\ arrived = SubSeq(arrived, 1, n) \o inbox
      BY <1>0, <1>a, <2>1 DEF HandedAsArrived
    <3> QED BY ONLY <2>0, <3>1, PartsMove
  <2>3. /\ Len(handed') = n + 1 /\ DOMAIN handed' = 1 .. n + 1
        /\ \A i \in 1 .. n : handed'[i] = handed[i]
        /\ handed'[n + 1] = e
    <3>1. handed \in Seq(Arrivals) /\ e \in Arrivals /\ handed' = Append(handed, e)
      <4>1. handed \in Seq(Arrivals)
        BY <1>0
      <4>2. e \in Arrivals
        OBVIOUS
      <4> QED BY ONLY <2>0, <4>1, <4>2, Zenon
    <3> QED BY ONLY <3>1, BehindAt
  <2>4. ASSUME NEW i \in 1 .. n + 1
        PROVE  handed'[i] = [arrived[i] EXCEPT !.size = Shorter(@, Mtu)]
    <3>1. CASE i \in 1 .. n
      <4>1. handed[i] = [arrived[i] EXCEPT !.size = Shorter(@, Mtu)]
        BY <1>0, <3>1 DEF HandedAsArrived
      <4> QED BY <2>3, <3>1, <4>1
    <3>2. CASE i = n + 1
      BY ONLY <2>0, <2>2, <2>3, <3>2, Zenon
    <3>3. \A k \in Nat : \A j \in 1 .. k + 1 : j \in 1 .. k \/ j = k + 1
      OBVIOUS
    <3> QED BY <1>0, <3>1, <3>2, <3>3, Zenon
  <2>5. Len(handed') <= Len(arrived)
    <3>1. n + 1 <= Len(arrived)
      BY <2>2
    <3> QED BY <2>3, <3>1
  <2>6. arrived' = SubSeq(arrived', 1, Len(handed')) \o inbox'
    BY <2>1, <2>2, <2>3
  <2> QED BY <2>1, <2>3, <2>4, <2>5, <2>6 DEF HandedAsArrived
<1>3. CASE UNCHANGED <<arrived, handed>> /\ closed'
  BY <1>3 DEF HandedAsArrived
<1>4. CASE UNCHANGED <<arrived, handed, inbox, closed>>
  BY <1>4 DEF HandedAsArrived
<1> QED
  BY <1>1, <1>2, <1>3, <1>4
     DEF Next, Looping, SendLoop, ReadLoop, Drain, Attach, Detach, RegisterEarly,
         Register, Post, HandlerRegisters, HandlerAnswers, RunPosted, Wait, HandleEvent, HandleRead, HandleWrite,
         Sendto, SendtoAgain, SendtoFails, SendDone, RecvfromEmpty, RecvfromFails, Shut,
         RecvfromNothing, Call, HandlerReturns, ResetBuffer
------------------------------------------------------------------------------
(* Dispatching *)

\* What a walk and a dispatch that is over say stays true when the tables grow.
LEMMA GrowthKeepsOrder ==
  ASSUME TypeOK, visit.before <= Len(anyHandler), Register, visit' = visit
  PROVE  /\ visit'.before <= Len(anyHandler')
         /\ Walked => Walked'
         /\ visit.cmd \in DOMAIN handlerMap /\ InRegisteredOrder => InRegisteredOrder'
<1>1. /\ Len(anyHandler) \in Nat /\ Len(anyHandler') \in Nat
      /\ Len(anyHandler) <= Len(anyHandler')
      /\ \A n \in 0 .. Len(anyHandler) :
           SubSeq(anyHandler', 1, n) = SubSeq(anyHandler, 1, n)
      /\ \A c \in DOMAIN handlerMap :
           c \in DOMAIN handlerMap' /\ handlerMap'[c] = handlerMap[c]
  BY TablesGrow DEF TypeOK
<1>2. visit.before \in Nat /\ visit.at \in Nat
  BY DEF TypeOK, Visits
<1> PICK k \in Nat : k = Len(anyHandler')
  BY <1>1
<1>3. visit'.before <= Len(anyHandler')
  BY <1>1, <1>2
<1>4. ASSUME Walked PROVE Walked'
  <2>1. visit.at \in 1 .. Len(anyHandler) + 1 /\ visit.at - 1 \in 0 .. Len(anyHandler)
    BY <1>1, <1>2, <1>4 DEF Walked
  <2>2. visit.at \in 1 .. k + 1
    BY <1>1, <2>1
  <2>3. SubSeq(anyHandler', 1, visit.at - 1) = SubSeq(anyHandler, 1, visit.at - 1)
    BY <1>1, <2>1
  <2> QED BY <1>4, <2>2, <2>3 DEF Walked
<1>5. ASSUME visit.cmd \in DOMAIN handlerMap, InRegisteredOrder PROVE InRegisteredOrder'
  <2> PICK n \in visit.before .. Len(anyHandler) :
        visit.seen = SubSeq(anyHandler, 1, n) \o Specific(visit.cmd)
    BY <1>5 DEF InRegisteredOrder
  <2>1. n \in 0 .. Len(anyHandler) /\ n \in visit.before .. k
    BY <1>1, <1>2
  <2>2. SubSeq(anyHandler', 1, n) = SubSeq(anyHandler, 1, n)
    BY <1>1, <2>1
  <2>3. Specific(visit.cmd)' = Specific(visit.cmd)
    BY <1>1, <1>5 DEF Specific
  <2> QED BY <2>1, <2>2, <2>3 DEF InRegisteredOrder
<1> QED BY <1>3, <1>4, <1>5

LEMMA WalkStep == TypeOK /\ WalkInOrder /\ [Next]_vars => WalkInOrder'
<1> SUFFICES ASSUME TypeOK, WalkInOrder, [Next]_vars PROVE WalkInOrder'
  OBVIOUS
<1>0. /\ anyHandler \in Seq(Handlers) /\ Len(anyHandler) \in Nat
      /\ DOMAIN anyHandler = 1 .. Len(anyHandler)
      /\ visit \in Visits /\ visit.at \in Nat /\ visit.before \in Nat
      /\ visit.before <= Len(anyHandler)
  BY DEF TypeOK, Visits, WalkInOrder
<1>a. Walked => visit.at # 0
  BY DEF Walked
<1>1. CASE RegisterEarly
  <2>1. visit'.before <= Len(anyHandler')
    BY <1>0, <1>1, GrowthKeepsOrder DEF RegisterEarly, Register
  <2> QED BY <1>1, <2>1 DEF RegisterEarly, WalkInOrder, Stage
<1>2. CASE HandlerRegisters
  <2>1. /\ visit'.before <= Len(anyHandler')
        /\ Walked => Walked'
        /\ visit.cmd \in DOMAIN handlerMap /\ InRegisteredOrder => InRegisteredOrder'
    BY <1>0, <1>2, GrowthKeepsOrder DEF HandlerRegisters, Register
  <2>2. Walked \/ (visit.at = 0 /\ visit.cmd \in DOMAIN handlerMap /\ InRegisteredOrder)
    BY <1>2 DEF HandlerRegisters, WalkInOrder, Stage
  <2>3. Stage' = AfterHandler(visit)
    BY <1>2 DEF HandlerRegisters, AfterHandler, Stage
  <2> QED BY <1>a, <2>1, <2>2, <2>3 DEF WalkInOrder, AfterHandler
<1>3. CASE Recvfrom
  <2>1. Head(inbox) \in Arrivals
    BY <1>3 DEF Recvfrom, TypeOK
  <2>2. /\ visit'.at = 1 /\ visit'.seen = <<>> /\ visit'.before = Len(anyHandler)
        /\ anyHandler' = anyHandler /\ pc' = "dispatch"
    BY <1>3 DEF Recvfrom, Dispatch
  <2>3. SubSeq(anyHandler, 1, 0) = <<>> /\ 1 \in 1 .. Len(anyHandler) + 1
    BY <1>0
  <2> QED BY <1>0, <2>2, <2>3 DEF WalkInOrder, Walked, Stage
<1>4. CASE Call
  <2>0. /\ anyHandler' = anyHandler /\ handlerMap' = handlerMap /\ Walked
        /\ visit.seen \in Seq(Handlers)
    BY <1>4 DEF Call, WalkInOrder, Stage, TypeOK, Visits
  <2>1. CASE CallAny /\ pc' = "handler"
    <3> DEFINE a == visit.at + 1
               s == Append(visit.seen, anyHandler[visit.at])
    <3>1. visit' = GoneOn(visit, a, s)
      BY <2>1 DEF CallAny, GoneOn
    <3>2. visit.at \in 1 .. Len(anyHandler) /\ anyHandler[visit.at] \in Handlers
      BY <1>0, <2>1 DEF CallAny
    <3>3. a \in Nat /\ s \in Seq(Handlers)
      BY <1>0, <2>0, <3>2
    <3>4. s = SubSeq(anyHandler, 1, a - 1) /\ a \in 1 .. Len(anyHandler) + 1
      <4>1. visit.seen = SubSeq(anyHandler, 1, visit.at - 1)
        BY <2>0 DEF Walked
      <4> QED BY <1>0, <3>2, <4>1
    <3> HIDE DEF a, s
    <3>5. visit'.at = a /\ visit'.seen = s /\ visit'.before = visit.before
      <4> DEFINE v == GoneOn(visit, a, s)
      <4>1. a \in Nat /\ visit \in Visits /\ s \in Seq(Handlers)
        BY ONLY <1>0, <3>3, Zenon
      <4>2. v.at = a
        BY ONLY <4>1, VisitGoesOn
      <4>3. v.seen = s
        BY ONLY <4>1, VisitGoesOn
      <4>4. v.before = visit.before
        BY ONLY <4>1, VisitGoesOn
      <4> QED BY <3>1, <4>2, <4>3, <4>4, Zenon
    <3>6. Walked'
      BY <2>0, <3>4, <3>5 DEF Walked
    <3> QED BY <1>0, <2>0, <2>1, <3>5, <3>6 DEF WalkInOrder, Stage
  <2>2. CASE CallSpecific /\ pc' = IF Specific(visit.cmd) = <<>> THEN "reset" ELSE "handler"
    <3> DEFINE s == visit.seen \o Specific(visit.cmd)
    <3>1. visit' = GoneOn(visit, 0, s)
      BY <2>2 DEF CallSpecific, GoneOn
    <3>2. s \in Seq(Handlers) /\ 0 \in Nat
      <4>1. Specific(visit.cmd) \in Seq(Handlers)
        BY DEF Specific, TypeOK
      <4> QED BY <2>0, <4>1
    <3>3. s = SubSeq(anyHandler, 1, Len(anyHandler)) \o Specific(visit.cmd)
      <4>1. visit.at = Len(anyHandler) + 1
        BY <1>0, <2>0, <2>2 DEF Walked, CallSpecific
      <4>2. visit.at - 1 = Len(anyHandler)
        BY <1>0, <4>1
      <4> QED BY <2>0, <4>2 DEF Walked
    <3> HIDE DEF s
    <3>4. /\ visit'.at = 0 /\ visit'.seen = s /\ visit'.before = visit.before
          /\ visit'.cmd = visit.cmd
      <4> DEFINE v == GoneOn(visit, 0, s)
      <4>1. 0 \in Nat /\ visit \in Visits /\ s \in Seq(Handlers)
        BY ONLY <1>0, <3>2, Zenon
      <4>2. v.at = 0
        BY ONLY <4>1, VisitGoesOn
      <4>3. v.seen = s
        BY ONLY <4>1, VisitGoesOn
      <4>4. v.before = visit.before
        BY ONLY <4>1, VisitGoesOn
      <4>5. v.cmd = visit.cmd
        BY ONLY <4>1, VisitGoesOn
      <4> QED BY <3>1, <4>2, <4>3, <4>4, <4>5, Zenon
    <3>5. Specific(visit.cmd)' = Specific(visit.cmd)
      BY <2>0, <3>4 DEF Specific
    <3>6. Len(anyHandler) \in visit.before .. Len(anyHandler)
      BY <1>0
    <3>7. InRegisteredOrder'
      BY <2>0, <3>3, <3>4, <3>5, <3>6 DEF InRegisteredOrder
    <3>8. pc' = "handler" => visit.cmd \in DOMAIN handlerMap
      BY <2>2 DEF Specific
    <3>9. pc' \in {"reset", "handler"}
      BY <2>2
    <3> QED BY <1>0, <2>0, <3>4, <3>7, <3>8, <3>9 DEF WalkInOrder, Stage
  <2> QED BY <1>4, <2>1, <2>2 DEF Call
<1>5. CASE HandlerReturns \/ \E b \in Buffers : HandlerAnswers(b)
  <2>1. pc = "handler" /\ UNCHANGED <<anyHandler, handlerMap, visit>>
    BY <1>5 DEF HandlerReturns, HandlerAnswers
  <2>2. Stage' = AfterHandler(visit)
    BY <1>5 DEF HandlerReturns, HandlerAnswers, AfterHandler, Stage
  <2>3. Walked \/ (visit.at = 0 /\ visit.cmd \in DOMAIN handlerMap /\ InRegisteredOrder)
    BY <2>1 DEF WalkInOrder, Stage
  <2>4. /\ visit'.before <= Len(anyHandler') /\ (Walked' <=> Walked)
        /\ (InRegisteredOrder' <=> InRegisteredOrder)
    BY <1>0, <2>1 DEF Walked, InRegisteredOrder, Specific
  <2> QED BY <1>a, <2>2, <2>3, <2>4 DEF WalkInOrder, AfterHandler
<1>6. CASE /\ UNCHANGED <<anyHandler, handlerMap, visit>>
           /\ Stage' = Stage \/ Stage' \in {"idle", "recv"}
  <2>1. /\ visit'.before <= Len(anyHandler') /\ (Walked' <=> Walked)
        /\ (InRegisteredOrder' <=> InRegisteredOrder)
    BY <1>0, <1>6 DEF Walked, InRegisteredOrder, Specific
  <2> QED BY <1>6, <2>1 DEF WalkInOrder
<1>7. ASSUME \/ \E d \in Datagrams : Arrive(d)
             \/ Drain \/ Attach \/ Detach
             \/ \E t \in Senders, b \in Buffers : Post(t, b)
             \/ Wait \/ Sendto \/ SendtoAgain \/ SendtoFails
             \/ UNCHANGED vars
      PROVE  UNCHANGED <<anyHandler, handlerMap, visit>> /\ Stage' = Stage
  BY <1>7 DEF Arrive, Drain, Attach, Detach, Post, Wait, Sendto, SendtoAgain, SendtoFails,
              Stage
<1>8. ASSUME RunPosted \/ HandleEvent \/ SendDone \/ RecvfromEmpty \/ RecvfromFails
             \/ RecvfromNothing \/ ResetBuffer
      PROVE  /\ UNCHANGED <<anyHandler, handlerMap, visit>>
             /\ Stage' = Stage \/ Stage' \in {"idle", "recv"}
  BY <1>8 DEF RunPosted, HandleEvent, HandleRead, HandleWrite, SendDone, RecvfromEmpty, RecvfromFails, Shut,
              RecvfromNothing, ResetBuffer, Stage, TypeOK
<1> QED
  BY <1>1, <1>2, <1>3, <1>4, <1>5, <1>6, <1>7, <1>8
     DEF Next, Looping, SendLoop, ReadLoop
------------------------------------------------------------------------------
(* Sending *)

Items == OnWire \cup ToSend(Threads)

LEMMA ItemNumbers == \A m \in Items : m.no \in Nat
  BY DEF Items, OnWire, ToSend

\* A message of a thread is put behind the others of that thread.
LEMMA OneMore ==
  ASSUME NEW a \in Seq(Items), NEW b \in Seq(Items), NEW m \in Items,
         InSendOrder(a \o b),
         \A i \in DOMAIN (a \o b) : (a \o b)[i].from = m.from => (a \o b)[i].no < m.no,
         \A i \in DOMAIN b : b[i].from # m.from
  PROVE  /\ InSendOrder(Append(a, m) \o b)
         /\ \A t : SendsOf(t, Append(a, m) \o b) =
                   SendsOf(t, a \o b) \cup (IF t = m.from THEN {m.no} ELSE {})
<1> DEFINE s == a \o b
           u == Append(a, m) \o b
           n == Len(a)
           old(i) == IF i <= n THEN i ELSE i - 1
           new(i) == IF i <= n THEN i ELSE i + 1
<1>1. /\ n \in Nat /\ Len(b) \in Nat
      /\ DOMAIN s = 1 .. n + Len(b) /\ DOMAIN u = 1 .. n + Len(b) + 1
      /\ u[n + 1] = m
  OBVIOUS
<1>2. \A i \in DOMAIN u : i # n + 1 => u[i] = s[old(i)]
  OBVIOUS
<1>3. \A i \in DOMAIN s : i > n => s[i] = b[i - n] /\ i - n \in DOMAIN b
  OBVIOUS
<1>4. \A i \in DOMAIN s : i > n => s[i].from # m.from
  BY <1>3
<1>5. InSendOrder(s) /\ \A i \in DOMAIN s : s[i].from = m.from => s[i].no < m.no
  OBVIOUS
<1> HIDE DEF s, u
<1>6. \A i \in DOMAIN u : i # n + 1 => old(i) \in DOMAIN s
  BY <1>1
<1>7. \A i \in DOMAIN s : new(i) \in DOMAIN u /\ new(i) # n + 1 /\ old(new(i)) = i
  BY <1>1
<1>8. InSendOrder(u)
  <2> SUFFICES ASSUME NEW i \in DOMAIN u, NEW j \in DOMAIN u, i < j, u[i].from = u[j].from
               PROVE  u[i].no < u[j].no
    BY DEF InSendOrder
  <2>1. CASE i # n + 1 /\ j # n + 1
    <3>1. old(i) < old(j)
      BY <1>1, <2>1
    <3>2. /\ old(i) \in DOMAIN s /\ old(j) \in DOMAIN s
          /\ u[i] = s[old(i)] /\ u[j] = s[old(j)]
      BY <1>2, <1>6, <2>1
    <3> HIDE DEF old
    <3> QED BY <1>5, <3>1, <3>2 DEF InSendOrder
  <2>2. CASE j = n + 1
    <3>1. old(i) \in DOMAIN s /\ u[i] = s[old(i)] /\ u[j] = m
      BY <1>1, <1>2, <1>6, <2>2
    <3> HIDE DEF old
    <3> QED BY <1>5, <3>1
  <2>3. CASE i = n + 1
    <3>1. old(j) > n
      BY <1>1, <2>3
    <3>2. old(j) \in DOMAIN s /\ u[j] = s[old(j)] /\ u[i] = m
      BY <1>1, <1>2, <1>6, <2>3
    <3> HIDE DEF old
    <3> QED BY <1>4, <3>1, <3>2
  <2> QED BY <2>1, <2>2, <2>3
<1>9. ASSUME NEW t
      PROVE  SendsOf(t, u) = SendsOf(t, s) \cup (IF t = m.from THEN {m.no} ELSE {})
  <2>1. ASSUME NEW k \in SendsOf(t, u)
        PROVE  k \in SendsOf(t, s) \cup (IF t = m.from THEN {m.no} ELSE {})
    <3> PICK i \in DOMAIN u : u[i].from = t /\ k = u[i].no
      BY <2>1 DEF SendsOf
    <3>1. CASE i = n + 1
      BY <1>1, <3>1
    <3>2. CASE i # n + 1
      <4>1. old(i) \in DOMAIN s /\ u[i] = s[old(i)]
        BY <1>2, <1>6, <3>2
      <4> HIDE DEF old
      <4> QED BY <4>1 DEF SendsOf
    <3> QED BY <3>1, <3>2
  <2>2. ASSUME NEW k \in SendsOf(t, s) PROVE k \in SendsOf(t, u)
    <3> PICK i \in DOMAIN s : s[i].from = t /\ k = s[i].no
      BY <2>2 DEF SendsOf
    <3>1. new(i) \in DOMAIN u /\ u[new(i)] = s[old(new(i))] /\ old(new(i)) = i
      BY <1>2, <1>7
    <3> HIDE DEF old, new
    <3> QED BY <3>1 DEF SendsOf
  <2>3. t = m.from => m.no \in SendsOf(t, u)
    <3>1. n + 1 \in DOMAIN u
      BY <1>1
    <3> QED BY <1>1, <3>1 DEF SendsOf
  <2> QED BY <2>1, <2>2, <2>3
<1> QED BY <1>8, <1>9 DEF s, u

\* Two sequences of the same sends.
Alike(s, u) ==
  /\ DOMAIN s = DOMAIN u
  /\ \A i \in DOMAIN s : s[i].from = u[i].from /\ s[i].no = u[i].no

LEMMA AlikeOrder ==
  ASSUME NEW s, NEW u, Alike(s, u)
  PROVE  (InSendOrder(s) <=> InSendOrder(u)) /\ \A t : SendsOf(t, s) = SendsOf(t, u)
  BY DEF Alike, InSendOrder, SendsOf

LEMMA AlikeInFront ==
  ASSUME NEW s \in Seq(Items), NEW u \in Seq(Items), NEW b \in Seq(Items), Alike(s, u)
  PROVE  Alike(s \o b, u \o b)
<1>1. Len(s) = Len(u) /\ Len(s) \in Nat /\ Len(b) \in Nat /\ DOMAIN s = 1 .. Len(s)
  BY DEF Alike
<1>2. /\ DOMAIN (s \o b) = 1 .. Len(s) + Len(b) /\ DOMAIN (u \o b) = 1 .. Len(u) + Len(b)
      /\ \A i \in 1 .. Len(s) + Len(b) :
           (s \o b)[i] = IF i <= Len(s) THEN s[i] ELSE b[i - Len(s)]
      /\ \A i \in 1 .. Len(u) + Len(b) :
           (u \o b)[i] = IF i <= Len(u) THEN u[i] ELSE b[i - Len(u)]
  OBVIOUS
<1> DEFINE x == s \o b
           y == u \o b
<1> HIDE DEF x, y
<1>3. Alike(x, y)
  BY <1>1, <1>2 DEF Alike, x, y
<1> QED BY <1>3 DEF x, y

\* sendto moves the head of the list to the wire.
LEMMA MovedToWire ==
  ASSUME NEW a \in Seq(Items), NEW q \in Seq(Items), q # <<>>,
         NEW m \in Items, m.from = Head(q).from, m.no = Head(q).no
  PROVE  Alike(a \o q, Append(a, m) \o Tail(q))
<1> DEFINE s == a \o q
           u == Append(a, m) \o Tail(q)
<1>1. /\ Len(a) \in Nat /\ Len(q) \in Nat \ {0} /\ Head(q) = q[1]
      /\ DOMAIN s = 1 .. Len(a) + Len(q) /\ DOMAIN u = 1 .. Len(a) + Len(q)
      /\ s[Len(a) + 1] = q[1] /\ u[Len(a) + 1] = m
  OBVIOUS
<1>2. \A i \in DOMAIN s : i # Len(a) + 1 => s[i] = u[i]
  OBVIOUS
<1> HIDE DEF s, u
<1>3. Alike(s, u)
  BY <1>1, <1>2 DEF Alike
<1> QED BY <1>3 DEF s, u

\* A closure that runs moves its message from the mailbox to the list.
LEMMA MovedToList ==
  ASSUME NEW a \in Seq(Items), NEW q \in Seq(Items), NEW b \in Seq(Items), b # <<>>
  PROVE  (a \o Append(q, Head(b))) \o Tail(b) = (a \o q) \o b
<1> DEFINE r == Append(q, Head(b))
           t == Tail(b)
<1>1. r \o t = q \o b /\ r \in Seq(Items) /\ t \in Seq(Items)
  OBVIOUS
<1> HIDE DEF r, t
<1>2. ASSUME NEW x \in Seq(Items), NEW y \in Seq(Items)
      PROVE  (a \o x) \o y = a \o (x \o y)
  OBVIOUS
<1>3. (a \o r) \o t = a \o (r \o t)
  BY ONLY <1>1, <1>2, Zenon
<1>4. a \o (r \o t) = a \o (q \o b)
  BY <1>1, Zenon
<1>5. (a \o q) \o b = a \o (q \o b)
  BY <1>2, Zenon
<1> QED BY <1>3, <1>4, <1>5, Zenon DEF r, t

LEMMA SentStep == TypeOK /\ SentInOrder /\ [Next]_vars => SentInOrder'
<1> SUFFICES ASSUME TypeOK, SentInOrder, [Next]_vars PROVE SentInOrder'
  OBVIOUS
<1> DEFINE All == (wire \o sndList) \o mailbox
<1>0. /\ wire \in Seq(Items) /\ sndList \in Seq(Items) /\ mailbox \in Seq(Items)
      /\ All \in Seq(Items) /\ sends \in [Threads -> Nat]
      /\ mailbox \in Seq(ToSend(Senders))
  <2>1. ToSend(Senders) \subseteq Items /\ OnWire \subseteq Items /\ ToSend(Threads) \subseteq Items
    BY DEF Items, ToSend, Threads
  <2>2. wire \in Seq(Items) /\ sndList \in Seq(Items) /\ mailbox \in Seq(Items)
    BY <2>1 DEF TypeOK
  <2> QED BY <2>2 DEF TypeOK
<1>a. InSendOrder(All) /\ \A t \in Threads : SendsOf(t, All) = 1 .. sends[t]
  BY DEF SentInOrder
<1>b. ASSUME InSendOrder(All'), \A t \in Threads : SendsOf(t, All') = 1 .. sends'[t]
      PROVE  SentInOrder'
  BY <1>b DEF SentInOrder
<1>c. ASSUME NEW t \in Threads, NEW b \in Buffers
      PROVE  /\ Message(t, b) \in Items /\ Message(t, b).from = t
             /\ Message(t, b).no = sends[t] + 1 /\ sends[t] \in Nat
             /\ \A i \in DOMAIN All : All[i].from = t => All[i].no < sends[t] + 1
  <2>1. sends[t] \in Nat
    BY <1>0
  <2>2. Message(t, b) \in Items /\ Message(t, b).from = t /\ Message(t, b).no = sends[t] + 1
    BY <2>1 DEF Message, Items, ToSend
  <2>3. \A i \in DOMAIN All : All[i].from = t => All[i].no \in SendsOf(t, All)
    BY DEF SendsOf
  <2>4. \A k \in SendsOf(t, All) : k < sends[t] + 1
    BY <1>a, <2>1
  <2> QED BY <2>1, <2>2, <2>3, <2>4
<1>d. \A n \in Nat : (1 .. n) \cup {n + 1} = 1 .. n + 1
  OBVIOUS
<1>e. ASSUME NEW t \in Threads, sends' = [sends EXCEPT ![t] = @ + 1], InSendOrder(All'),
             \A v : SendsOf(v, All') =
                      SendsOf(v, All) \cup (IF v = t THEN {sends[t] + 1} ELSE {})
      PROVE  SentInOrder'
  <2>1. \A v \in Threads : SendsOf(v, All') = 1 .. sends'[v]
    <3> SUFFICES ASSUME NEW v \in Threads PROVE SendsOf(v, All') = 1 .. sends'[v]
      OBVIOUS
    <3>1. CASE v = t
      <4>1. SendsOf(v, All') = (1 .. sends[t]) \cup {sends[t] + 1}
        BY <1>a, <1>e, <3>1
      <4>2. sends'[v] = sends[t] + 1 /\ sends[t] \in Nat
        BY <1>0, <1>e, <3>1
      <4> QED BY <1>d, <4>1, <4>2
    <3>2. CASE v # t
      <4>1. SendsOf(v, All') = 1 .. sends[v]
        BY <1>a, <1>e, <3>2
      <4>2. sends'[v] = sends[v]
        BY <1>0, <1>e, <3>2
      <4> QED BY <4>1, <4>2
    <3> QED BY <3>1, <3>2
  <2> QED BY <1>b, <1>e, <2>1
<1>1. ASSUME NEW t \in Senders, NEW b \in Buffers, Post(t, b) PROVE SentInOrder'
  <2> DEFINE m == Message(t, b)
  <2>0. t \in Threads
    BY DEF Threads
  <2>1. /\ m \in Items /\ m.from = t /\ m.no = sends[t] + 1
        /\ \A i \in DOMAIN All : All[i].from = m.from => All[i].no < m.no
    BY <1>c, <2>0
  <2>2. All' = (wire \o sndList) \o Append(mailbox, m)
    BY <1>1 DEF Post
  <2>3. sends' = [sends EXCEPT ![t] = @ + 1]
    BY <1>1 DEF Post
  <2> HIDE DEF m
  <2>4. (wire \o sndList) \o Append(mailbox, m) = Append(All, m) \o <<>>
    BY <1>0, <2>1
  <2>5. All \o <<>> = All /\ <<>> \in Seq(Items)
    BY <1>0
  <2>6. DOMAIN <<>> = {}
    OBVIOUS
  <2> HIDE DEF All
  <2>7. /\ InSendOrder(Append(All, m) \o <<>>)
        /\ \A v : SendsOf(v, Append(All, m) \o <<>>) =
                    SendsOf(v, All \o <<>>) \cup (IF v = m.from THEN {m.no} ELSE {})
    <3> PICK e \in Seq(Items) : e = <<>>
      BY <2>5
    <3>1. InSendOrder(All \o e)
      BY <1>a, <2>5
    <3>2. \A i \in DOMAIN (All \o e) : (All \o e)[i].from = m.from => (All \o e)[i].no < m.no
      BY <2>1, <2>5
    <3>3. \A i \in DOMAIN e : e[i].from # m.from
      BY <2>6
    <3>4. /\ InSendOrder(Append(All, m) \o e)
          /\ \A v : SendsOf(v, Append(All, m) \o e) =
                      SendsOf(v, All \o e) \cup (IF v = m.from THEN {m.no} ELSE {})
      <4>1. All \in Seq(Items) /\ m \in Items
        BY <1>0, <2>1
      <4> QED BY ONLY <3>1, <3>2, <3>3, <4>1, OneMore, Zenon
    <3> QED BY <3>4
  <2> QED BY <1>e, <2>0, <2>1, <2>2, <2>3, <2>4, <2>5, <2>7
<1>2. ASSUME NEW b \in Buffers, HandlerAnswers(b) PROVE SentInOrder'
  <2> DEFINE m == Message(Looper, b)
             a == wire \o sndList
  <2>0. Looper \in Threads
    BY DEF Threads
  <2>1. /\ m \in Items /\ m.from = Looper /\ m.no = sends[Looper] + 1
        /\ \A i \in DOMAIN All : All[i].from = m.from => All[i].no < m.no
    BY <1>c, <2>0
  <2>2. All' = (wire \o Append(sndList, m)) \o mailbox
    BY <1>2 DEF HandlerAnswers
  <2>3. sends' = [sends EXCEPT ![Looper] = @ + 1]
    BY <1>2 DEF HandlerAnswers
  <2>4. \A i \in DOMAIN mailbox : mailbox[i].from # m.from
    <3>1. \A i \in DOMAIN mailbox : mailbox[i] \in ToSend(Senders)
      BY <1>0
    <3> QED BY <2>1, <3>1, UdpAssumption DEF ToSend
  <2> HIDE DEF m
  <2>5. wire \o Append(sndList, m) = Append(a, m) /\ a \in Seq(Items)
    BY <1>0, <2>1
  <2>6. All = a \o mailbox
    OBVIOUS
  <2> HIDE DEF All, a
  <2>7. /\ InSendOrder(Append(a, m) \o mailbox)
        /\ \A v : SendsOf(v, Append(a, m) \o mailbox) =
                    SendsOf(v, a \o mailbox) \cup (IF v = m.from THEN {m.no} ELSE {})
    <3>1. InSendOrder(a \o mailbox)
      BY <1>a, <2>6
    <3>2. \A i \in DOMAIN (a \o mailbox) :
            (a \o mailbox)[i].from = m.from => (a \o mailbox)[i].no < m.no
      BY <2>1, <2>6
    <3>3. a \in Seq(Items) /\ mailbox \in Seq(Items) /\ m \in Items
      BY <1>0, <2>1, <2>5
    <3> QED BY ONLY <2>4, <3>1, <3>2, <3>3, OneMore, Zenon
  <2> QED BY <1>e, <2>0, <2>1, <2>2, <2>3, <2>5, <2>6, <2>7
<1>3. CASE RunPosted
  <2>1. /\ mailbox # <<>> /\ All' = (wire \o Append(sndList, Head(mailbox))) \o Tail(mailbox)
        /\ sends' = sends
    BY <1>3 DEF RunPosted
  <2>2. All' = All
    <3>1. (wire \o Append(sndList, Head(mailbox))) \o Tail(mailbox) = All
      <4>1. /\ wire \in Seq(Items) /\ sndList \in Seq(Items) /\ mailbox \in Seq(Items)
            /\ mailbox # <<>>
        BY <1>0, <2>1, Zenon
      <4> QED BY ONLY <4>1, MovedToList, Zenon
    <3> QED BY <2>1, <3>1, Zenon
  <2> QED BY <1>a, <1>b, <2>1, <2>2
<1>4. CASE Sendto
  <2> DEFINE h == Head(sndList)
             m == [from |-> h.from, no |-> h.no, size |-> Payload(h)]
  <2>1. /\ sndList # <<>> /\ All' = (Append(wire, m) \o Tail(sndList)) \o mailbox
        /\ sends' = sends
    BY <1>4 DEF Sendto
  <2>2. h \in ToSend(Threads)
    BY <2>1 DEF TypeOK
  <2>3. m \in Items
    BY <2>2, PayloadSize DEF ToSend, OnWire, Payload, Items
  <2>4. m.from = h.from /\ m.no = h.no
    OBVIOUS
  <2> HIDE DEF m
  <2>5. Alike(All, (Append(wire, m) \o Tail(sndList)) \o mailbox)
    <3>1. Alike(wire \o sndList, Append(wire, m) \o Tail(sndList))
      BY <1>0, <2>1, <2>3, <2>4, MovedToWire
    <3>2. wire \o sndList \in Seq(Items) /\ Append(wire, m) \o Tail(sndList) \in Seq(Items)
      BY <1>0, <2>1, <2>3
    <3> QED BY <1>0, <3>1, <3>2, AlikeInFront
  <2> HIDE DEF All
  <2>6. InSendOrder(All') /\ \A t : SendsOf(t, All') = SendsOf(t, All)
    BY <1>a, <2>1, <2>5, AlikeOrder
  <2> QED BY <1>a, <1>b, <2>1, <2>6
<1>5. CASE UNCHANGED <<wire, sndList, mailbox, sends>>
  BY <1>5 DEF SentInOrder
<1> HIDE DEF All
<1> QED
  BY <1>1, <1>2, <1>3, <1>4, <1>5
     DEF Next, Looping, SendLoop, ReadLoop, Arrive, Drain, Attach, Detach, RegisterEarly,
         Register, HandlerRegisters, Wait, HandleEvent, HandleRead, HandleWrite, SendtoAgain, SendtoFails, SendDone,
         Recvfrom, RecvfromEmpty, RecvfromFails, Shut, RecvfromNothing, Call,
         HandlerReturns, ResetBuffer
------------------------------------------------------------------------------
(* Theorems *)

LEMMA InitInv == Init => EndpointInv
<1> SUFFICES ASSUME Init PROVE EndpointInv
  OBVIOUS
<1>1. SentInOrder
  <2>1. (wire \o sndList) \o mailbox = <<>>
    BY DEF Init
  <2>2. InSendOrder(<<>>) /\ \A t : SendsOf(t, <<>>) = {}
    BY DEF InSendOrder, SendsOf
  <2>3. \A t \in Threads : 1 .. sends[t] = {}
    BY DEF Init
  <2> QED BY <2>1, <2>2, <2>3 DEF SentInOrder
<1>2. HandedAsArrived
  <2>1. <<>> = SubSeq(<<>>, 1, 0) \o <<>> /\ Len(<<>>) = 0
    OBVIOUS
  <2> QED BY <2>1 DEF Init, HandedAsArrived
<1>3. WalkInOrder
  BY DEF Init, DispatcherInit, WalkInOrder, Stage
<1> QED
  BY <1>1, <1>2, <1>3, InitTypes
     DEF Init, EndpointInv, FreshBuffer, EdgeKept, Stage

LEMMA Inductive == EndpointInv /\ [Next]_vars => EndpointInv'
  BY TypeStep, SentStep, BufferStep, HandedStep, WalkStep, EdgeStep DEF EndpointInv

\* Whatever the network, the senders and the handlers do, and whichever calls
\* fail: the invariant that the next four theorems rest on.
THEOREM EndpointInvariant == SafetySpec => []EndpointInv
  BY InitInv, Inductive, PTL DEF SafetySpec

\* Each thread's datagrams are sent in the order of its calls of send, none is
\* sent twice, and what is not on the wire yet is still kept (UdpEndpoint.hpp:173).
THEOREM DatagramsSentInOrder == SafetySpec => []SentInOrder
<1>1. EndpointInv => SentInOrder
  BY DEF EndpointInv
<1> QED BY EndpointInvariant, <1>1, PTL

\* The handler is given every datagram that is read, in the order of arrival,
\* once and with its own bytes (UdpEndpoint.hpp:133).
THEOREM DatagramsHandedAsArrived == SafetySpec => []HandedAsArrived
<1>1. EndpointInv => HandedAsArrived
  BY DEF EndpointInv
<1> QED BY EndpointInvariant, <1>1, PTL

\* A dispatch calls the handlers in the order they were registered, those that
\* a handler adds under the walk included (Dispatcher.hpp:152).
THEOREM HandlersCalledInOrder == SafetySpec => []HandlersInOrder
<1>1. EndpointInv => HandlersInOrder
  BY DEF EndpointInv, WalkInOrder, HandlersInOrder, Stage
<1> QED BY EndpointInvariant, <1>1, PTL

\* A datagram that waits has an edge that will bring the looper back, while the
\* endpoint still watches for reading (UdpEndpoint.hpp:133).
THEOREM EdgeNotLost == SafetySpec => []NoStrandedDatagram
<1>1. EndpointInv => NoStrandedDatagram
  BY DEF EndpointInv, EdgeKept, NoStrandedDatagram, Stage
<1> QED BY EndpointInvariant, <1>1, PTL
------------------------------------------------------------------------------
(* The tree of places: words, and the layers that are made of them            *)

\* x is in the word q of n-bit words when its bits are n * q and after it.
LEMMA WordOf ==
  ASSUME NEW n \in Nat \ {0}, NEW x \in Nat
  PROVE  /\ x \div n \in Nat
         /\ n * (x \div n) <= x /\ x < n * (x \div n) + n
  OBVIOUS

LEMMA Multiples ==
  ASSUME NEW n \in Nat, NEW a \in Nat, NEW b \in Nat, a <= b
  PROVE  n * a <= n * b
<1>1. PICK d \in Nat : b = a + d
  <2>1. b - a \in Nat /\ b = a + (b - a)
    OBVIOUS
  <2> QED BY <2>1
<1>2. n * (a + d) = n * a + n * d
  OBVIOUS
<1>3. n * d \in Nat /\ n * a \in Nat
  OBVIOUS
<1> QED BY <1>1, <1>2, <1>3

\* The word that has the last of s bits is the last of LWords(s) words.
LEMMA WordBelow ==
  ASSUME NEW s \in Nat, NEW x \in Nat, x < s
  PROVE  x \div LongBits \in Nat /\ LWords(s) \in Nat /\ x \div LongBits < LWords(s)
<1> DEFINE L == LongBits
<1>1. L \in Nat \ {0}
  BY TreeAssumption
<1> HIDE DEF L
<1>2. s + L - 1 \in Nat
  BY <1>1
<1>3. PICK t \in Nat : t = s + L - 1
  BY <1>2
<1>4. PICK w \in Nat : w = t \div L /\ L * w <= t /\ t < L * w + L
  BY <1>1, WordOf
<1>5. PICK q \in Nat : q = x \div L /\ L * q <= x /\ x < L * q + L
  BY <1>1, WordOf
<1>6. ASSUME w <= q PROVE FALSE
  <2>1. L * w <= L * q
    BY <1>1, <1>6, Multiples
  <2>2. L * w \in Nat /\ L * q \in Nat
    BY <1>1
  <2> QED BY <1>1, <1>3, <1>4, <1>5, <2>1, <2>2
<1>7. LWords(s) = w
  BY <1>3, <1>4 DEF LWords, L
<1> QED BY <1>5, <1>6, <1>7 DEF L

\* Words are fewer than bits.
LEMMA FewerWords ==
  ASSUME NEW s \in Nat, s > 1
  PROVE  LWords(s) \in 1 .. s - 1
<1> DEFINE L == LongBits
<1>1. L \in Nat /\ L > 1
  BY TreeAssumption
<1> HIDE DEF L
<1>2. s + L - 1 \in Nat
  BY <1>1
<1>3. PICK t \in Nat : t = s + L - 1
  BY <1>2
<1>4. PICK w \in Nat : w = t \div L /\ L * w <= t /\ t < L * w + L
  BY <1>1, WordOf
<1>5. w # 0
  BY <1>1, <1>3, <1>4
<1>6. ASSUME s <= w PROVE FALSE
  <2>1. L * s <= L * w
    BY <1>1, <1>6, Multiples
  <2>2. PICK k \in Nat : L = k + 2
    <3>1. L - 2 \in Nat /\ L = (L - 2) + 2
      BY <1>1
    <3> QED BY <3>1
  <2>3. k * 2 <= k * s
    BY Multiples
  <2>4. L * s = k * s + 2 * s /\ k * s \in Nat
    BY <2>2
  <2>5. L * w \in Nat
    BY <1>1
  <2> QED BY <1>3, <1>4, <2>1, <2>2, <2>3, <2>4, <2>5
<1>7. LWords(s) = w
  BY <1>3, <1>4 DEF LWords, L
<1> QED BY <1>4, <1>5, <1>6, <1>7

\* One word has LongBits bits at most.
LEMMA OneWord ==
  ASSUME NEW s \in Nat, s > 1, LWords(s) <= 1, NEW x \in Nat, x < s
  PROVE  LWords(s) = 1 /\ x \div LongBits = 0
<1>1. x \div LongBits \in Nat /\ x \div LongBits < LWords(s)
  BY WordBelow
<1> QED BY <1>1, FewerWords

\* A stack of layers over s bits: its last layer has the s bits, each layer has
\* a bit for every word of the next, and the first is one word.
Stacked(q, s) ==
  /\ q \in Seq(Nat)
  /\ Len(q) = 0 <=> s <= 1
  /\ Len(q) > 0 => q[Len(q)] = s
  /\ \A l \in 1 .. Len(q) : q[l] > 1
  /\ \A l \in 2 .. Len(q) : q[l - 1] = LWords(q[l])
  /\ \A l \in 1 .. Len(q) : l = 1 => LWords(q[l]) = 1

\* The recursion over the sizes has a function.
LEMMA LayerSizesExists ==
  \A s \in 0 .. Size :
    LayerSizes[s] = IF s > 1 THEN Append(LayerSizes[LWords(s)], s) ELSE <<>>
<1> DEFINE Fun(f, m) == f = [s \in 0 .. m |-> IF s > 1 THEN Append(f[LWords(s)], s) ELSE <<>>]
           T == {m \in Nat : \E f : Fun(f, m)}
<1>1. 0 \in T
  <2> DEFINE f == [s \in 0 .. 0 |-> <<>>]
  <2>1. Fun(f, 0)
    OBVIOUS
  <2> HIDE DEF f
  <2>2. \E g : Fun(g, 0)
    BY <2>1
  <2> QED BY <2>2
<1>2. ASSUME NEW m \in T PROVE m + 1 \in T
  <2>1. PICK f : Fun(f, m)
    BY <1>2
  <2> DEFINE Step(s) == IF s > 1 THEN Append(f[LWords(s)], s) ELSE <<>>
             h == [s \in 0 .. m + 1 |-> Step(s)]
  <2>2. m \in Nat
    BY <1>2
  <2>3. \A s \in 0 .. m : f[s] = Step(s)
    BY <2>1
  <2>4. \A s \in 0 .. m + 1 : h[s] = Step(s)
    OBVIOUS
  <2>5. \A s \in 0 .. m : s \in 0 .. m + 1 /\ h[s] = f[s]
    BY <2>2, <2>3, <2>4
  <2>6. \A s \in 0 .. m + 1 : s > 1 => LWords(s) \in 0 .. m
    <3> SUFFICES ASSUME NEW s \in 0 .. m + 1, s > 1 PROVE LWords(s) \in 0 .. m
      OBVIOUS
    <3>1. LWords(s) \in 1 .. s - 1
      BY <2>2, FewerWords
    <3> QED BY <2>2, <3>1
  <2> DEFINE r == [s \in 0 .. m + 1 |-> IF s > 1 THEN Append(h[LWords(s)], s) ELSE <<>>]
  <2>7. \A s \in 0 .. m + 1 : r[s] = Step(s)
    <3> HIDE DEF h
    <3> QED BY <2>5, <2>6
  <2>8. h = r
    <3>1. h = [s \in 0 .. m + 1 |-> h[s]] /\ r = [s \in 0 .. m + 1 |-> r[s]]
      OBVIOUS
    <3> HIDE DEF h, r, Step
    <3> QED BY <2>4, <2>7, <3>1
  <2> HIDE DEF h
  <2>9. Fun(h, m + 1)
    BY <2>8
  <2>10. \E g : Fun(g, m + 1)
    BY <2>9
  <2>11. m + 1 \in Nat
    BY <2>2
  <2> HIDE DEF Fun, r
  <2> QED BY ONLY <2>10, <2>11
<1>3. Size \in T
  <2> HIDE DEF T
  <2>1. T \in SUBSET Nat
    BY DEF T
  <2> QED BY <1>1, <1>2, <2>1, SetInduction, TreeAssumption
<1>4. PICK f : Fun(f, Size)
  BY <1>3
<1>5. Fun(LayerSizes, Size)
  BY <1>4, Zenon DEF LayerSizes
<1> HIDE DEF T
<1> QED BY <1>5

LEMMA Stack == Stacked(Sizes, Size)
<1> DEFINE Q(s) == Stacked(LayerSizes[s], s)
           T == {m \in Nat : \A s \in 0 .. Size : s <= m => Q(s)}
<1>0. Size \in Nat
  BY TreeAssumption
<1>1. ASSUME NEW s \in 0 .. Size, s <= 1 PROVE Q(s)
  <2>1. LayerSizes[s] = <<>>
    BY <1>0, <1>1, LayerSizesExists
  <2> QED BY <1>1, <2>1 DEF Stacked
<1>2. 0 \in T
  <2>1. \A s \in 0 .. Size : s <= 0 => s <= 1
    BY <1>0
  <2> HIDE DEF Q
  <2> QED BY <1>1, <2>1
<1>3. ASSUME NEW m \in T PROVE m + 1 \in T
  <2> HIDE DEF Q
  <2> SUFFICES ASSUME NEW s \in 0 .. Size, s <= m + 1 PROVE Q(s)
    BY <1>3
  <2>1. CASE s <= 1
    BY <1>1, <2>1
  <2>2. CASE s > 1
    <3>1. PICK w \in 1 .. s - 1 : w = LWords(s)
      BY <1>0, <2>2, FewerWords
    <3>2. w \in 0 .. Size /\ w <= m
      BY <1>0, <1>3, <3>1
    <3>3. Q(w)
      BY <1>3, <3>2
    <3>4. PICK q \in Seq(Nat) : q = LayerSizes[w] /\ Stacked(q, w)
      BY <3>3 DEF Q, Stacked
    <3>5. LayerSizes[s] = Append(q, s)
      BY <2>2, <3>1, <3>4, LayerSizesExists
    <3> DEFINE r == Append(q, s)
    <3>6. s \in Nat /\ w \in Nat
      BY <1>0, <3>1
    <3>7. /\ r \in Seq(Nat) /\ Len(r) = Len(q) + 1 /\ Len(q) \in Nat
          /\ r[Len(r)] = s /\ \A l \in 1 .. Len(q) : r[l] = q[l]
      BY <3>6
    <3> HIDE DEF r
    <3>8. Stacked(r, s)
      <4>1. Len(r) = 0 <=> s <= 1
        BY <2>2, <3>6, <3>7
      <4>2. \A l \in 1 .. Len(r) : r[l] > 1
        <5> SUFFICES ASSUME NEW l \in 1 .. Len(r) PROVE r[l] > 1
          OBVIOUS
        <5>1. CASE l = Len(r)
          BY <2>2, <3>7, <5>1
        <5>2. CASE l \in 1 .. Len(q)
          BY <3>4, <3>7, <5>2 DEF Stacked
        <5> QED BY <3>7, <5>1, <5>2
      <4>3. \A l \in 2 .. Len(r) : r[l - 1] = LWords(r[l])
        <5> SUFFICES ASSUME NEW l \in 2 .. Len(r) PROVE r[l - 1] = LWords(r[l])
          OBVIOUS
        <5>1. CASE l = Len(r)
          <6>1. Len(q) > 0 /\ l - 1 = Len(q) /\ Len(q) \in 1 .. Len(q)
            BY <3>7, <5>1
          <6>2. r[l - 1] = w
            BY <3>4, <3>7, <6>1 DEF Stacked
          <6> QED BY <3>1, <3>7, <5>1, <6>2
        <5>2. CASE l \in 2 .. Len(q)
          <6>1. l \in 1 .. Len(q) /\ l - 1 \in 1 .. Len(q)
            BY <3>7, <5>2
          <6>2. r[l - 1] = q[l - 1] /\ r[l] = q[l]
            BY <3>7, <6>1
          <6> QED BY <3>4, <5>2, <6>2 DEF Stacked
        <5> QED BY <3>7, <5>1, <5>2
      <4>4. \A l \in 1 .. Len(r) : l = 1 => LWords(r[l]) = 1
        <5> SUFFICES ASSUME 1 \in 1 .. Len(r) PROVE LWords(r[1]) = 1
          OBVIOUS
        <5>1. CASE Len(q) = 0
          <6>1. w <= 1
            BY <3>4, <5>1 DEF Stacked
          <6>2. r[1] = s
            BY <3>7, <5>1
          <6> QED BY <3>1, <3>6, <6>1, <6>2
        <5>2. CASE 1 \in 1 .. Len(q)
          BY <3>4, <3>7, <5>2 DEF Stacked
        <5> QED BY <3>7, <5>1, <5>2
      <4> QED BY <3>7, <4>1, <4>2, <4>3, <4>4 DEF Stacked
    <3> QED BY <3>5, <3>8 DEF Q, r
  <2> QED BY <1>0, <2>1, <2>2
<1>4. Size \in T
  <2> HIDE DEF T
  <2>1. T \in SUBSET Nat
    BY DEF T
  <2> QED BY <1>0, <1>2, <1>3, <2>1, SetInduction
<1>5. Q(Size)
  <2> HIDE DEF Q
  <2> QED BY <1>0, <1>4
<1> QED BY <1>5 DEF Sizes

LEMMA Layered ==
  /\ Deep \in Nat /\ (Deep = 0 <=> Size <= 1)
  /\ \A l \in Layers : l \in Nat /\ Sizes[l] \in Nat /\ Sizes[l] > 1 /\ LWords(Sizes[l]) \in Nat
  /\ \A l \in 2 .. Deep : l - 1 \in Layers /\ l \in Layers /\ Sizes[l - 1] = LWords(Sizes[l])
  /\ \A l \in Layers : l = 1 => LWords(Sizes[l]) = 1
  /\ Deep > 0 => Deep \in Layers /\ Sizes[Deep] = Size
<1>1. Sizes \in Seq(Nat) /\ Deep \in Nat
  BY Stack DEF Stacked, Deep
<1>2. \A l \in Layers : l \in Nat /\ Sizes[l] \in Nat /\ Sizes[l] > 1
  BY <1>1, Stack DEF Stacked, Deep, Layers
<1>3. \A l \in Layers : LWords(Sizes[l]) \in Nat
  <2> SUFFICES ASSUME NEW l \in Layers PROVE LWords(Sizes[l]) \in Nat
    OBVIOUS
  <2>1. PICK s \in Nat : s = Sizes[l] /\ s > 1
    BY <1>2
  <2>2. LWords(s) \in 1 .. s - 1
    BY <2>1, FewerWords
  <2> QED BY <2>1, <2>2
<1>4. \A l \in 2 .. Deep : l - 1 \in Layers /\ l \in Layers /\ Sizes[l - 1] = LWords(Sizes[l])
  BY <1>1, Stack DEF Stacked, Deep, Layers
<1> QED BY <1>1, <1>2, <1>3, <1>4, Stack DEF Stacked, Deep, Layers

\* The bits of the words of S.
Above(S) == {b \div LongBits : b \in S}

\* Each layer has the bits of the words below that are not 0.
Tree(b) ==
  /\ b \in [Layers -> SUBSET Nat]
  /\ \A l \in Layers : \A x \in b[l] : x < Sizes[l]
  /\ \A l \in 2 .. Deep : b[l - 1] = Above(b[l])

\* A bit of each layer, the one of the word the next is in.
Path(t) ==
  /\ t \in [Layers -> Nat]
  /\ \A l \in Layers : t[l] < Sizes[l]
  /\ \A l \in 2 .. Deep : t[l - 1] = t[l] \div LongBits

\* What goes on upwards as long as Z holds.
LEMMA Upwards ==
  ASSUME NEW Z, NEW l \in 2 .. Deep
  PROVE  (\A k \in (l - 1) + 1 .. Deep : k \in Z) <=> l \in Z /\ \A k \in l + 1 .. Deep : k \in Z
<1>1. (l - 1) + 1 .. Deep = {l} \cup (l + 1 .. Deep)
  BY Layered
<1> QED BY <1>1

\* The words above, without and with a bit.
LEMMA WithoutBit ==
  ASSUME NEW S \in SUBSET Nat, NEW x \in S
  PROVE  /\ Word(S \ {x}, x \div LongBits) = {} => Above(S \ {x}) = Above(S) \ {x \div LongBits}
         /\ Word(S \ {x}, x \div LongBits) # {} => Above(S \ {x}) = Above(S)
<1>1. ASSUME NEW w PROVE w \in Above(S) <=> \E b \in S : w = b \div LongBits
  BY DEF Above
<1>2. ASSUME NEW w PROVE w \in Above(S \ {x}) <=> \E b \in S \ {x} : w = b \div LongBits
  BY DEF Above
<1>3. ASSUME NEW w, w # x \div LongBits PROVE w \in Above(S \ {x}) <=> w \in Above(S)
  BY <1>1, <1>2, <1>3
<1>4. x \div LongBits \in Above(S)
  BY <1>1
<1>5. x \div LongBits \in Above(S \ {x}) <=> Word(S \ {x}, x \div LongBits) # {}
  BY <1>2 DEF Word
<1> QED BY <1>3, <1>4, <1>5

LEMMA WithBit ==
  ASSUME NEW S \in SUBSET Nat, NEW x \in Nat
  PROVE  /\ Above(S \cup {x}) = Above(S) \cup {x \div LongBits}
         /\ Word(S, x \div LongBits) # {} => x \div LongBits \in Above(S)
<1>1. ASSUME NEW w PROVE w \in Above(S) <=> \E b \in S : w = b \div LongBits
  BY DEF Above
<1>2. ASSUME NEW w PROVE w \in Above(S \cup {x}) <=> \E b \in S \cup {x} : w = b \div LongBits
  BY DEF Above
<1>3. ASSUME NEW w PROVE w \in Above(S \cup {x}) <=> w \in Above(S) \/ w = x \div LongBits
  BY <1>1, <1>2
<1>4. Word(S, x \div LongBits) # {} => x \div LongBits \in Above(S)
  BY <1>1 DEF Word
<1> QED BY <1>3, <1>4

\* Taking a bit of the leaf off, and those above as long as words become 0.
Without(b, t) ==
  [l \in Layers |->
     IF \A k \in l + 1 .. Deep : Word(b[k] \ {t[k]}, t[k] \div LongBits) = {}
     THEN b[l] \ {t[l]} ELSE b[l]]

LEMMA TreeWithout ==
  ASSUME NEW b, Tree(b), NEW t, Path(t), \A l \in Layers : t[l] \in b[l]
  PROVE  Tree(Without(b, t))
<1> DEFINE c == Without(b, t)
           Z == {k \in Layers : Word(b[k] \ {t[k]}, t[k] \div LongBits) = {}}
           Reached(l) == \A k \in l + 1 .. Deep : k \in Z
<1>1. \A l \in Layers : l + 1 .. Deep \subseteq Layers
  BY Layered DEF Layers
<1>2. \A l \in Layers : c[l] = IF Reached(l) THEN b[l] \ {t[l]} ELSE b[l]
  BY <1>1 DEF Without
<1>3. c \in [Layers -> SUBSET Nat]
  BY DEF Without, Tree
<1>4. \A l \in Layers : b[l] \in SUBSET Nat /\ t[l] \in Nat
  BY DEF Tree, Path
<1> HIDE DEF c
<1>5. \A l \in Layers : \A x \in c[l] : x < Sizes[l]
  BY <1>2 DEF Tree
<1>6. ASSUME NEW l \in 2 .. Deep PROVE c[l - 1] = Above(c[l])
  <2>1. l \in Layers /\ l - 1 \in Layers
    BY Layered
  <2>2. Reached(l - 1) <=> l \in Z /\ Reached(l)
    <3> HIDE DEF Z
    <3> QED BY Upwards
  <2>3. b[l - 1] = Above(b[l]) /\ t[l - 1] = t[l] \div LongBits
    BY DEF Tree, Path
  <2>4. /\ l \in Z => Above(b[l] \ {t[l]}) = b[l - 1] \ {t[l - 1]}
        /\ l \notin Z => Above(b[l] \ {t[l]}) = b[l - 1]
    BY <1>4, <2>1, <2>3, WithoutBit
  <2> HIDE DEF Reached, Z
  <2> QED BY <1>2, <2>1, <2>2, <2>3, <2>4
<1> QED BY <1>3, <1>5, <1>6 DEF Tree, c

\* Setting a bit of the leaf, and those above as long as words were 0.
With(b, t) ==
  [l \in Layers |->
     IF \A k \in l + 1 .. Deep : Word(b[k], t[k] \div LongBits) = {}
     THEN b[l] \cup {t[l]} ELSE b[l]]

LEMMA TreeWith ==
  ASSUME NEW b, Tree(b), NEW t, Path(t)
  PROVE  Tree(With(b, t))
<1> DEFINE c == With(b, t)
           Z == {k \in Layers : Word(b[k], t[k] \div LongBits) = {}}
           Reached(l) == \A k \in l + 1 .. Deep : k \in Z
<1>1. \A l \in Layers : l + 1 .. Deep \subseteq Layers
  BY Layered DEF Layers
<1>2. \A l \in Layers : c[l] = IF Reached(l) THEN b[l] \cup {t[l]} ELSE b[l]
  BY <1>1 DEF With
<1>3. c \in [Layers -> SUBSET Nat]
  BY DEF With, Tree, Path
<1>4. \A l \in Layers : b[l] \in SUBSET Nat /\ t[l] \in Nat
  BY DEF Tree, Path
<1> HIDE DEF c
<1>5. \A l \in Layers : \A x \in c[l] : x < Sizes[l]
  <2> SUFFICES ASSUME NEW l \in Layers, NEW x \in c[l] PROVE x < Sizes[l]
    OBVIOUS
  <2>1. x \in b[l] \/ x = t[l]
    <3> HIDE DEF Reached, Z
    <3> QED BY <1>2
  <2> QED BY <2>1 DEF Tree, Path
<1>6. ASSUME NEW l \in 2 .. Deep PROVE c[l - 1] = Above(c[l])
  <2>1. l \in Layers /\ l - 1 \in Layers
    BY Layered
  <2>2. Reached(l - 1) <=> l \in Z /\ Reached(l)
    <3> HIDE DEF Z
    <3> QED BY Upwards
  <2>3. b[l - 1] = Above(b[l]) /\ t[l - 1] = t[l] \div LongBits
    BY DEF Tree, Path
  <2>4. /\ Above(b[l] \cup {t[l]}) = b[l - 1] \cup {t[l - 1]}
        /\ l \notin Z => t[l - 1] \in b[l - 1]
    <3>1. l \notin Z => Word(b[l], t[l] \div LongBits) # {}
      BY <2>1
    <3>2. PICK S \in SUBSET Nat : S = b[l]
      BY <1>4, <2>1
    <3>3. PICK x \in Nat : x = t[l]
      BY <1>4, <2>1
    <3> HIDE DEF Z
    <3> QED BY <2>3, <3>1, <3>2, <3>3, WithBit
  <2> HIDE DEF Reached, Z
  <2> QED BY <1>2, <2>1, <2>2, <2>3, <2>4
<1> QED BY <1>3, <1>5, <1>6 DEF Tree, c

\* A tree whose root is 0 is 0.
LEMMA NothingBelow ==
  ASSUME NEW b, Tree(b), \A l \in Layers : l = 1 => b[l] = {}
  PROVE  \A l \in Layers : b[l] = {}
<1> DEFINE T == {l \in Nat : l + 1 \in Layers => b[l + 1] = {}}
<1>1. 0 \in T
  OBVIOUS
<1>2. ASSUME NEW l \in T PROVE l + 1 \in T
  <2> SUFFICES ASSUME (l + 1) + 1 \in Layers PROVE b[(l + 1) + 1] = {}
    OBVIOUS
  <2>1. PICK n \in 2 .. Deep : n = (l + 1) + 1 /\ n - 1 = l + 1
    BY <1>2, Layered DEF Layers
  <2>2. n - 1 \in Layers /\ b[n - 1] = Above(b[n])
    BY Layered DEF Tree
  <2>3. Above(b[n]) = {}
    BY <1>2, <2>1, <2>2
  <2> QED BY <2>1, <2>3 DEF Above
<1>3. T = Nat
  <2> HIDE DEF T
  <2>1. T \in SUBSET Nat
    BY DEF T
  <2> QED BY <1>1, <1>2, <2>1, SetInduction
<1>4. \A l \in Layers : l - 1 \in Nat /\ (l - 1) + 1 = l
  BY Layered DEF Layers
<1> QED BY <1>3, <1>4

\* The path of a place.
LEMMA IndexIs ==
  ASSUME NEW idx \in Nat
  PROVE  /\ \A l \in 0 .. Deep : Index(idx, l) \in Nat
         /\ Index(idx, Deep) = idx
         /\ \A l \in 1 .. Deep : Index(idx, l - 1) = Index(idx, l) \div LongBits
<1> DEFINE N == Deep
           L == LongBits
           step == [p \in (1 .. N) \X Nat |-> p[2] \div L]
           Fun(f) == f = [n \in 0 .. Deep |-> IF n = 0 THEN idx ELSE f[n - 1] \div LongBits]
           f == CHOOSE g : Fun(g)
<1>1. N \in Nat /\ L \in Nat \ {0}
  BY Layered, TreeAssumption
<1>2. \A x \in Nat : x \div L \in Nat
  BY <1>1, WordOf
<1>3. step \in Steps(N, Nat) /\ \A n \in 1 .. N : \A x \in Nat : step[<<n, x>>] = x \div L
  BY <1>2 DEF Steps
<1>4. PICK g : Recurs(g, Nat, idx, N, step)
  <2> HIDE DEF step, N, L
  <2> QED BY <1>1, <1>3, RecursionExists
<1>5. /\ g \in [0 .. N -> Nat] /\ g[0] = idx
      /\ \A n \in 1 .. N : g[n] = g[n - 1] \div L
  <2>1. \A n \in 1 .. N : n - 1 \in 0 .. N
    BY <1>1
  <2> HIDE DEF step, N, L
  <2> QED BY <1>3, <1>4, <2>1 DEF Recurs
<1> HIDE DEF step
<1>6. Fun(g)
  <2> DEFINE r == [n \in 0 .. N |-> IF n = 0 THEN idx ELSE g[n - 1] \div L]
  <2>1. \A n \in 0 .. N : n = 0 \/ n \in 1 .. N
    BY <1>1
  <2>2. \A n \in 0 .. N : g[n] = r[n]
    BY <1>5, <2>1
  <2>3. g = [n \in 0 .. N |-> g[n]] /\ r = [n \in 0 .. N |-> r[n]]
    BY <1>5
  <2>4. g = r
    <3> HIDE DEF r
    <3> QED BY <2>2, <2>3
  <2> QED BY <2>4 DEF N, L
<1>7. Fun(f)
  <2> HIDE DEF Fun
  <2> QED BY <1>6, Zenon
<1>8. \A l \in 0 .. Deep : Index(idx, l) = f[Deep - l]
  BY DEF Index
<1> HIDE DEF f
<1>9. f[0] = idx /\ \A n \in 1 .. N : f[n] = f[n - 1] \div L
  <2>1. 0 \in 0 .. N /\ \A n \in 1 .. N : n \in 0 .. N /\ n # 0
    BY <1>1
  <2> QED BY <1>7, <2>1 DEF N, L
<1> HIDE DEF Fun
<1> DEFINE T == {n \in Nat : n \in 0 .. N => f[n] \in Nat}
<1>10. 0 \in T
  BY <1>9
<1>11. ASSUME NEW n \in T PROVE n + 1 \in T
  <2> SUFFICES ASSUME n + 1 \in 0 .. N PROVE f[n + 1] \in Nat
    OBVIOUS
  <2>1. n + 1 \in 1 .. N /\ (n + 1) - 1 = n /\ n \in 0 .. N
    BY <1>1
  <2>2. f[n] \in Nat
    BY <2>1
  <2>3. f[n + 1] = f[n] \div L
    BY <1>9, <2>1
  <2> HIDE DEF L
  <2> QED BY <1>2, <2>2, <2>3
<1>12. \A n \in 0 .. N : f[n] \in Nat
  <2>1. T \in SUBSET Nat
    OBVIOUS
  <2>2. T = Nat
    <3> HIDE DEF T
    <3> QED BY <1>10, <1>11, <2>1, SetInduction
  <2> QED BY <1>1, <2>2
<1>13. /\ Deep \in 0 .. Deep /\ Deep - Deep = 0
       /\ \A l \in 0 .. Deep : Deep - l \in 0 .. Deep
       /\ \A l \in 1 .. Deep : l \in 0 .. Deep /\ l - 1 \in 0 .. Deep
       /\ \A l \in 1 .. Deep : Deep - (l - 1) \in 1 .. Deep /\ (Deep - (l - 1)) - 1 = Deep - l
  BY <1>1
<1>14. \A l \in 0 .. Deep : Index(idx, l) \in Nat
  BY <1>8, <1>12, <1>13
<1>15. Index(idx, Deep) = idx
  BY <1>8, <1>9, <1>13
<1>16. ASSUME NEW l \in 1 .. Deep PROVE Index(idx, l - 1) = Index(idx, l) \div LongBits
  <2>1. PICK n \in 1 .. N : n = Deep - (l - 1) /\ n - 1 = Deep - l
    BY <1>13
  <2>2. Index(idx, l - 1) = f[n] /\ Index(idx, l) = f[n - 1]
    BY <1>8, <1>13, <2>1
  <2> QED BY <1>9, <2>1, <2>2 DEF L
<1> QED BY <1>14, <1>15, <1>16

LEMMA IndexPath ==
  ASSUME NEW p \in Places, Deep > 0
  PROVE  Path([l \in Layers |-> Index(p, l)]) /\ Index(p, Deep) = p
<1>1. p \in Nat /\ p < Size
  BY TreeAssumption DEF Places
<1>2. \A l \in Layers : l \in 0 .. Deep /\ l \in 1 .. Deep /\ l \in Nat
  BY Layered DEF Layers
<1> DEFINE N == Deep
           T == {n \in Nat : n < N => Index(p, N - n) < Sizes[N - n]}
<1>3. 0 \in T
  <2>1. N - 0 = N
    BY Layered
  <2> QED BY <1>1, <2>1, IndexIs, Layered
<1>4. ASSUME NEW n \in T PROVE n + 1 \in T
  <2> SUFFICES ASSUME n + 1 < N PROVE Index(p, N - (n + 1)) < Sizes[N - (n + 1)]
    OBVIOUS
  <2>1. PICK l \in 2 .. Deep : l = N - n /\ l - 1 = N - (n + 1)
    BY Layered
  <2>2. n < N /\ l \in Layers /\ l \in 1 .. Deep /\ l \in 0 .. Deep
    BY Layered, <1>4
  <2>3. PICK s \in Nat : s = Sizes[l] /\ Sizes[l - 1] = LWords(s)
    BY <2>2, Layered
  <2>4. PICK x \in Nat : x = Index(p, l) /\ Index(p, l - 1) = x \div LongBits
    BY <1>1, <2>2, IndexIs
  <2>5. x < s
    BY <1>4, <2>1, <2>2, <2>3, <2>4
  <2>6. x \div LongBits < LWords(s)
    BY <2>5, WordBelow
  <2> QED BY <2>1, <2>3, <2>4, <2>6
<1>5. T = Nat
  <2> HIDE DEF T
  <2>1. T \in SUBSET Nat
    BY DEF T
  <2> QED BY <1>3, <1>4, <2>1, SetInduction
<1>6. \A l \in Layers : Index(p, l) < Sizes[l]
  <2> SUFFICES ASSUME NEW l \in Layers PROVE Index(p, l) < Sizes[l]
    OBVIOUS
  <2>1. N - l \in Nat /\ N - l < N /\ N - (N - l) = l
    BY Layered DEF Layers
  <2> QED BY <1>5, <2>1
<1>7. \A l \in 2 .. Deep : l \in Layers /\ l - 1 \in Layers /\ l \in 1 .. Deep
  BY Layered
<1>8. \A l \in Layers : Index(p, l) \in Nat
  BY <1>1, <1>2, IndexIs
<1> QED BY <1>1, <1>6, <1>7, <1>8, IndexIs DEF Path

\* The search: what it finds on a layer.
LEMMA OffsetsAre ==
  ASSUME \A l \in Layers : bits[l] \in SUBSET Nat
  PROVE  /\ Offsets[0] = 0
         /\ \A l \in Layers : Offsets[l - 1] \in Int
         /\ \A l \in Layers : Offsets[l] = FirstBitSet(l, Offsets[l - 1])
<1> DEFINE N == Deep
           step == [p \in (1 .. N) \X Int |-> FirstBitSet(p[1], p[2])]
           Fun(f) == f = [l \in 0 .. Deep |-> IF l = 0 THEN 0 ELSE FirstBitSet(l, f[l - 1])]
<1>1. N \in Nat /\ 0 \in Int
  BY Layered
<1>2. \A l \in Layers : \A w \in Int : FirstBitSet(l, w) \in Int
  <2> SUFFICES ASSUME NEW l \in Layers, NEW w \in Int PROVE FirstBitSet(l, w) \in Int
    OBVIOUS
  <2>1. PICK S \in SUBSET Nat : S = Word(bits[l], w)
    BY DEF Word
  <2>2. ASSUME S # {} PROVE Min(S) \in Nat
    BY <2>2, LeastNat DEF Min
  <2>3. -1 \in Int /\ Nat \subseteq Int
    OBVIOUS
  <2> QED BY <2>1, <2>2, <2>3 DEF FirstBitSet
<1>3. step \in Steps(N, Int) /\ \A n \in 1 .. N : \A x \in Int : step[<<n, x>>] = FirstBitSet(n, x)
  BY <1>2, Zenon DEF Steps, Layers
<1>4. PICK g : Recurs(g, Int, 0, N, step)
  <2> HIDE DEF step, N
  <2> QED BY <1>1, <1>3, RecursionExists
<1>5. \A n \in 1 .. N : n - 1 \in 0 .. N
  BY <1>1
<1>6. /\ g \in [0 .. N -> Int] /\ g[0] = 0
      /\ \A n \in 1 .. N : g[n] = FirstBitSet(n, g[n - 1])
  <2> HIDE DEF step, N
  <2> QED BY <1>3, <1>4, <1>5 DEF Recurs
<1> HIDE DEF step
<1>7. Fun(g)
  <2> DEFINE r == [l \in 0 .. N |-> IF l = 0 THEN 0 ELSE FirstBitSet(l, g[l - 1])]
  <2>1. \A n \in 0 .. N : n = 0 \/ n \in 1 .. N
    BY <1>1
  <2>2. \A n \in 0 .. N : g[n] = r[n]
    BY <1>6, <2>1
  <2>3. g = [n \in 0 .. N |-> g[n]] /\ r = [n \in 0 .. N |-> r[n]]
    BY <1>6
  <2>4. g = r
    <3> HIDE DEF r
    <3> QED BY <2>2, <2>3
  <2> QED BY <2>4 DEF N
<1>8. Fun(Offsets)
  BY <1>7, Zenon DEF Offsets
<1>9. 0 \in 0 .. N /\ \A n \in 1 .. N : n \in 0 .. N /\ n # 0
  BY <1>1
<1>10. Offsets[0] = 0 /\ \A n \in 1 .. N : Offsets[n] = FirstBitSet(n, Offsets[n - 1])
  BY <1>8, <1>9, Zenon
<1> HIDE DEF Fun
<1> DEFINE T == {n \in Nat : n \in 0 .. N => Offsets[n] \in Int}
<1>11. 0 \in T
  BY <1>10
<1>12. ASSUME NEW n \in T PROVE n + 1 \in T
  <2> SUFFICES ASSUME n + 1 \in 0 .. N PROVE Offsets[n + 1] \in Int
    OBVIOUS
  <2>1. PICK m \in 1 .. N : m = n + 1 /\ m - 1 = n /\ n \in 0 .. N
    BY <1>1
  <2>2. Offsets[m] = FirstBitSet(m, Offsets[n]) /\ Offsets[n] \in Int
    BY <1>10, <2>1
  <2> QED BY <1>2, <2>1, <2>2 DEF Layers
<1>13. \A n \in 0 .. N : Offsets[n] \in Int
  <2>1. T \in SUBSET Nat
    OBVIOUS
  <2>2. T = Nat
    <3> HIDE DEF T
    <3> QED BY <1>11, <1>12, <2>1, SetInduction
  <2> QED BY <1>1, <2>2
<1> QED BY <1>5, <1>10, <1>13 DEF Layers

\* A word the search reads, and what it finds in it.
LEMMA FoundInWord ==
  ASSUME NEW l \in Layers, NEW w \in Nat, bits[l] \in SUBSET Nat,
         w < LWords(Sizes[l]), \E b \in bits[l] : b \div LongBits = w
  PROVE  FirstBitSet(l, w) \in bits[l] /\ FirstBitSet(l, w) \div LongBits = w
<1>1. PICK S \in SUBSET Nat : S = Word(bits[l], w)
  BY DEF Word
<1>2. S # {}
  BY <1>1 DEF Word
<1>3. Min(S) \in S
  BY <1>2, LeastNat DEF Min
<1>4. LWords(Sizes[l]) \in Nat
  BY Layered
<1>5. ~(w < 0) /\ ~(w >= LWords(Sizes[l]))
  BY <1>4
<1>6. FirstBitSet(l, w) = Min(S)
  BY <1>1, <1>2, <1>5 DEF FirstBitSet
<1> QED BY <1>1, <1>3, <1>6 DEF Word

\* A tree that is not 0: the search goes down a path of bits that are 1.
LEMMA SearchFinds ==
  ASSUME Tree(bits), \E l \in Layers : l = 1 /\ bits[l] # {}
  PROVE  /\ Path([l \in Layers |-> Offsets[l]])
         /\ \A l \in Layers : Offsets[l] \in bits[l] /\ Offsets[l - 1] = Offsets[l] \div LongBits
         /\ ~ReadsBeyond
<1>0. \A l \in Layers : bits[l] \in SUBSET Nat
  BY DEF Tree
<1> DEFINE Found(l) == /\ Offsets[l] \in bits[l] /\ Offsets[l - 1] \in Nat
                       /\ Offsets[l - 1] < LWords(Sizes[l])
                       /\ Offsets[l - 1] = Offsets[l] \div LongBits
           T == {n \in Nat : n + 1 \in Layers => Found(n + 1)}
<1>1. 0 \in T
  <2> SUFFICES ASSUME 1 \in Layers PROVE Found(1)
    OBVIOUS
  <2>1. PICK b \in Nat : b \in bits[1] /\ b < Sizes[1]
    BY <1>0 DEF Tree
  <2>2. PICK s \in Nat : s = Sizes[1] /\ s > 1 /\ LWords(s) = 1
    BY Layered
  <2>3. b \div LongBits = 0
    BY <2>1, <2>2, OneWord
  <2>4. FirstBitSet(1, 0) \in bits[1] /\ FirstBitSet(1, 0) \div LongBits = 0
    BY <1>0, <2>1, <2>2, <2>3, FoundInWord
  <2>5. Offsets[1 - 1] = 0 /\ Offsets[1] = FirstBitSet(1, 0)
    BY <1>0, OffsetsAre
  <2> QED BY <2>2, <2>4, <2>5
<1>2. ASSUME NEW n \in T PROVE n + 1 \in T
  <2> SUFFICES ASSUME (n + 1) + 1 \in Layers PROVE Found((n + 1) + 1)
    OBVIOUS
  <2>1. PICK l \in 2 .. Deep : l = (n + 1) + 1 /\ l - 1 = n + 1
    BY Layered DEF Layers
  <2>2. l \in Layers /\ l - 1 \in Layers /\ Sizes[l - 1] = LWords(Sizes[l])
    BY Layered
  <2>3. PICK w \in Nat : w = Offsets[l - 1] /\ w \in bits[l - 1]
    BY <1>0, <2>1, <2>2
  <2>4. w < LWords(Sizes[l])
    BY <2>2, <2>3 DEF Tree
  <2>5. \E b \in bits[l] : b \div LongBits = w
    <3>1. w \in Above(bits[l])
      BY <2>3 DEF Tree
    <3> QED BY <3>1 DEF Above
  <2>6. FirstBitSet(l, w) \in bits[l] /\ FirstBitSet(l, w) \div LongBits = w
    BY <1>0, <2>2, <2>4, <2>5, FoundInWord
  <2>7. Offsets[l] = FirstBitSet(l, w)
    BY <1>0, <2>2, <2>3, OffsetsAre
  <2>8. Found(l)
    BY <2>3, <2>4, <2>6, <2>7
  <2> HIDE DEF Found
  <2> QED BY <2>1, <2>8
<1>3. T = Nat
  <2> HIDE DEF T
  <2>1. T \in SUBSET Nat
    BY DEF T
  <2> QED BY <1>1, <1>2, <2>1, SetInduction
<1>4. \A l \in Layers : Found(l)
  <2> SUFFICES ASSUME NEW l \in Layers PROVE Found(l)
    OBVIOUS
  <2>1. l - 1 \in Nat /\ (l - 1) + 1 = l
    BY Layered DEF Layers
  <2> HIDE DEF Found
  <2> QED BY <1>3, <2>1
<1>5. \A l \in 2 .. Deep : l \in Layers /\ l - 1 \in Layers
  BY Layered
<1>6. \A l \in Layers : Offsets[l] \in Nat /\ Offsets[l] < Sizes[l]
  BY <1>0, <1>4 DEF Tree
<1>7. Path([l \in Layers |-> Offsets[l]])
  BY <1>4, <1>5, <1>6 DEF Path
<1>8. \A l \in Layers : LWords(Sizes[l]) \in Nat
  BY Layered
<1>9. ~ReadsBeyond
  BY <1>4, <1>8 DEF ReadsBeyond
<1> QED BY <1>4, <1>7, <1>9

\* A tree that is 0: the search returns -1 from its root on.
LEMMA SearchFails ==
  ASSUME \A l \in Layers : bits[l] = {}
  PROVE  (\A l \in Layers : Offsets[l] = -1) /\ ~ReadsBeyond
<1>1. \A l \in Layers : bits[l] \in SUBSET Nat
  OBVIOUS
<1>2. \A l \in Layers : Offsets[l] = -1
  <2> SUFFICES ASSUME NEW l \in Layers PROVE Offsets[l] = -1
    OBVIOUS
  <2>1. Word(bits[l], Offsets[l - 1]) = {}
    BY DEF Word
  <2> QED BY <1>1, <2>1, OffsetsAre DEF FirstBitSet
<1>3. ASSUME NEW l \in Layers PROVE Offsets[l - 1] # LWords(Sizes[l])
  <2>1. CASE l = 1
    <3>1. Offsets[l - 1] = 0
      BY <1>1, <2>1, OffsetsAre
    <3> QED BY <2>1, <3>1, Layered
  <2>2. CASE l # 1
    <3>1. l - 1 \in Layers
      BY <2>2, Layered DEF Layers
    <3>2. Offsets[l - 1] = -1 /\ LWords(Sizes[l]) \in Nat
      BY <1>2, <3>1, Layered
    <3> QED BY <3>2
  <2> QED BY <2>1, <2>2
<1> QED BY <1>2, <1>3 DEF ReadsBeyond

------------------------------------------------------------------------------
(* The tree of places: its invariant                                          *)

\* As long as the bits were set that were meant, the leaves are the free places
\* and the layers above summarise them: neither search can then go wrong.
TreeInv ==
  ~shifted =>
    /\ ~nulls /\ ~beyond
    /\ Deep > 0 =>
         /\ Tree(bits)
         /\ holders \in [Slots -> Nat]
         /\ \A p \in Slots : holders[p] <= 1 /\ (p \notin Places => holders[p] = 0)
         /\ bits[Deep] = {p \in Places : holders[p] = 0}

\* All places are free, and every word has a bit.
LEMMA AllBits ==
  ASSUME NEW s \in Nat, s > 1
  PROVE  Above(0 .. s - 1) = 0 .. LWords(s) - 1
<1> DEFINE L == LongBits
<1>1. L \in Nat \ {0} /\ LWords(s) \in Nat
  BY TreeAssumption, FewerWords
<1>2. ASSUME NEW x \in 0 .. s - 1 PROVE x \div L \in 0 .. LWords(s) - 1
  <2>1. x \in Nat /\ x < s
    OBVIOUS
  <2>2. x \div LongBits \in Nat /\ x \div LongBits < LWords(s)
    BY <2>1, WordBelow
  <2>3. PICK q \in Nat : q = x \div L /\ q < LWords(s)
    BY <2>2
  <2> HIDE DEF L
  <2> QED BY <1>1, <2>3
<1> HIDE DEF L
<1>3. ASSUME NEW w \in 0 .. LWords(s) - 1 PROVE \E x \in 0 .. s - 1 : w = x \div L
  <2>1. w \in Nat /\ w < LWords(s)
    BY <1>1
  <2>2. PICK x \in Nat : x = L * w
    BY <1>1, <2>1
  <2>3. PICK q \in Nat : q = x \div L /\ L * q <= x /\ x < L * q + L
    BY <1>1, WordOf
  <2>4. L * (q + 1) = L * q + L /\ L * (w + 1) = L * w + L /\ L * q \in Nat
    BY <1>1, <2>1
  <2>5. q = w
    <3>1. CASE q + 1 <= w
      <4>1. L * (q + 1) <= L * w
        BY <1>1, <2>1, <3>1, Multiples
      <4> QED BY <1>1, <2>2, <2>3, <2>4, <4>1
    <3>2. CASE w + 1 <= q
      <4>1. L * (w + 1) <= L * q
        BY <1>1, <2>1, <3>2, Multiples
      <4> QED BY <1>1, <2>2, <2>3, <2>4, <4>1
    <3> QED BY <2>1, <3>1, <3>2
  <2>6. x < s
    <3>1. s + L - 1 \in Nat
      BY <1>1
    <3>2. PICK t \in Nat : t = s + L - 1
      BY <3>1
    <3>3. PICK v \in Nat : v = t \div L /\ L * v <= t /\ t < L * v + L
      BY <1>1, WordOf
    <3>4. LWords(s) = v
      BY <3>2, <3>3 DEF LWords, L
    <3>5. L * (w + 1) <= L * v
      BY <1>1, <2>1, <3>4, Multiples
    <3>6. L * v \in Nat
      BY <1>1
    <3> QED BY <1>1, <2>2, <2>4, <3>2, <3>3, <3>5, <3>6
  <2> QED BY <2>3, <2>5, <2>6
<1>4. \A w : w \in Above(0 .. s - 1) <=> w \in 0 .. LWords(s) - 1
  BY <1>2, <1>3 DEF Above, L
<1> QED BY <1>4

LEMMA PlaceIsSlot == Places \subseteq Slots
<1> SUFFICES ASSUME NEW p \in Places PROVE p \in Slots
  OBVIOUS
<1> DEFINE L == LongBits
<1>1. L \in Nat \ {0} /\ Size \in Nat /\ p \in Nat /\ p < Size
  BY TreeAssumption DEF Places
<1>2. PICK w \in Nat : w = LWords(Size) /\ p \div L < w
  BY <1>1, WordBelow
<1> HIDE DEF L
<1>3. PICK q \in Nat : q = p \div L /\ p < L * q + L
  BY <1>1, WordOf
<1>4. L * (q + 1) = L * q + L /\ L * w \in Nat
  BY <1>1
<1>5. L * (q + 1) <= L * w
  BY <1>1, <1>2, <1>3, Multiples
<1>6. p <= L * w - 1
  BY <1>1, <1>3, <1>4, <1>5
<1> QED BY <1>1, <1>2, <1>4, <1>6 DEF Slots, L

LEMMA TreeInitially == TreeInit => TreeInv
<1> SUFFICES ASSUME TreeInit PROVE TreeInv
  OBVIOUS
<1>1. Tree(bits)
  <2>1. \A l \in Layers : bits[l] = 0 .. Sizes[l] - 1 /\ Sizes[l] \in Nat
    BY Layered DEF TreeInit
  <2>2. \A l \in Layers : bits[l] \in SUBSET Nat /\ \A x \in bits[l] : x < Sizes[l]
    BY <2>1
  <2>3. ASSUME NEW l \in 2 .. Deep PROVE bits[l - 1] = Above(bits[l])
    <3>1. PICK s \in Nat : s = Sizes[l] /\ s > 1 /\ bits[l] = 0 .. s - 1
      BY <2>1, Layered
    <3>2. bits[l - 1] = 0 .. LWords(s) - 1
      BY <2>1, <3>1, Layered
    <3> QED BY <3>1, <3>2, AllBits
  <2> QED BY <2>2, <2>3 DEF TreeInit, Tree
<1>2. Deep > 0 => bits[Deep] = Places
  BY Layered DEF TreeInit, Places
<1>3. holders \in [Slots -> Nat] /\ \A p \in Slots : holders[p] = 0
  BY DEF TreeInit
<1>4. \A p \in Places : holders[p] = 0
  BY <1>3, PlaceIsSlot
<1>5. Deep > 0 => bits[Deep] = {p \in Places : holders[p] = 0}
  BY <1>2, <1>4
<1>6. ~nulls /\ ~beyond
  BY DEF TreeInit
<1> QED BY <1>1, <1>3, <1>5, <1>6 DEF TreeInv

\* A FixedBuffer gets the place the search found; the layers above follow.
LEMMA RequireTakes ==
  ASSUME Tree(bits), Deep > 0, \E l \in Layers : l = 1 /\ bits[l] # {}, Require
  PROVE  /\ Tree(bits)' /\ Offsets[Deep] \in bits[Deep]
         /\ bits'[Deep] = bits[Deep] \ {Offsets[Deep]}
         /\ holders' = [holders EXCEPT ![Offsets[Deep]] = @ + 1]
         /\ nulls' = nulls
<1>1. /\ \A l \in Layers : Offsets[l] \in bits[l] /\ Offsets[l - 1] = Offsets[l] \div LongBits
      /\ Path([l \in Layers |-> Offsets[l]])
  BY SearchFinds
<1>2. PICK t : t = [l \in Layers |-> Offsets[l]]
  OBVIOUS
<1>3. /\ Path(t)
      /\ \A l \in Layers : t[l] = Offsets[l] /\ t[l] \in bits[l] /\ Offsets[l - 1] = t[l] \div LongBits
  BY <1>1, <1>2
<1>4. Deep \in Layers
  BY Layered
<1>5. Offsets[Deep] >= 0 /\ Deep # 0
  BY <1>3, <1>4, Layered DEF Path
<1>6. ResetUpward /\ holders' = [holders EXCEPT ![Offsets[Deep]] = @ + 1] /\ nulls' = nulls
  BY <1>5 DEF Require
<1>7. \A l \in Layers : Offsets[l] <= Sizes[l] /\ ~(Offsets[l] > Sizes[l])
  <2>1. \A l \in Layers : t[l] \in Nat /\ t[l] < Sizes[l] /\ Sizes[l] \in Nat
    BY <1>3, Layered DEF Path
  <2> SUFFICES ASSUME NEW l \in Layers PROVE Offsets[l] <= Sizes[l] /\ ~(Offsets[l] > Sizes[l])
    OBVIOUS
  <2>2. PICK x \in Nat : x = t[l] /\ x = Offsets[l]
    BY <1>3, <2>1
  <2>3. PICK s \in Nat : s = Sizes[l] /\ x < s
    BY <2>1, <2>2
  <2>4. x <= s /\ ~(x > s)
    BY <2>3
  <2> QED BY <2>2, <2>3, <2>4
<1>8. \A l \in Layers : Reset(l) = bits[l] \ {t[l]}
  BY <1>3, <1>7 DEF Reset
<1>9. \A l \in Layers : Emptied(l) <=> Word(bits[l] \ {t[l]}, t[l] \div LongBits) = {}
  BY <1>3, <1>7, <1>8 DEF Emptied
<1>10. \A l \in Layers : \A k \in l + 1 .. Deep : k \in Layers
  BY Layered DEF Layers
<1>11. bits' = Without(bits, t)
  <2> DEFINE W(k) == Word(bits[k] \ {t[k]}, t[k] \div LongBits) = {}
             u == [l \in Layers |->
                     IF \A k \in l + 1 .. Deep : Emptied(k) THEN Reset(l) ELSE bits[l]]
             v == [l \in Layers |->
                     IF \A k \in l + 1 .. Deep : W(k) THEN bits[l] \ {t[l]} ELSE bits[l]]
  <2>1. \A l \in Layers : u[l] = v[l]
    <3> SUFFICES ASSUME NEW l \in Layers PROVE u[l] = v[l]
      OBVIOUS
    <3>1. (\A k \in l + 1 .. Deep : Emptied(k)) <=> \A k \in l + 1 .. Deep : W(k)
      BY <1>9, <1>10
    <3> HIDE DEF W
    <3> QED BY <1>8, <3>1
  <2>2. u = [l \in Layers |-> u[l]] /\ v = [l \in Layers |-> v[l]]
    OBVIOUS
  <2>3. u = v
    <3> HIDE DEF u, v
    <3> QED BY <2>1, <2>2
  <2> QED BY <1>6, <2>3 DEF ResetUpward, Without
<1>12. Tree(Without(bits, t))
  BY <1>3, TreeWithout
<1>13. Without(bits, t)[Deep] = bits[Deep] \ {t[Deep]}
  <2>1. Deep + 1 .. Deep = {}
    BY Layered
  <2> QED BY <1>4, <2>1 DEF Without
<1> QED BY <1>3, <1>4, <1>6, <1>11, <1>12, <1>13

\* A place is turned back when the bits are set that are meant.
LEMMA TurnbackGives ==
  ASSUME Tree(bits), Deep > 0, NEW p \in Places, Turnback(p), ~shifted'
  PROVE  Tree(bits)' /\ bits'[Deep] = bits[Deep] \cup {p}
<1>1. PICK t : t = [l \in Layers |-> Index(p, l)]
  OBVIOUS
<1>2. Path(t) /\ Index(p, Deep) = p
  BY <1>1, IndexPath
<1>3. \A l \in Layers : t[l] = Index(p, l)
  BY <1>1
<1>4. \A l \in Layers : ~Ignored(p, l)
  <2>1. \A l \in Layers : t[l] \in Nat /\ t[l] < Sizes[l] /\ Sizes[l] \in Nat
    BY <1>2, Layered DEF Path
  <2> QED BY <1>3, <2>1 DEF Ignored
<1>5. \A l \in Layers : WasZero(p, l) <=> Word(bits[l], t[l] \div LongBits) = {}
  BY <1>3, <1>4 DEF WasZero
<1>6. \A l \in Layers : \A k \in l + 1 .. Deep : k \in Layers
  BY Layered DEF Layers
<1>7. \A l \in Layers : l \in Touched(p) <=> \A k \in l + 1 .. Deep : Word(bits[k], t[k] \div LongBits) = {}
  <2> SUFFICES ASSUME NEW l \in Layers
               PROVE  l \in Touched(p) <=> \A k \in l + 1 .. Deep : Word(bits[k], t[k] \div LongBits) = {}
    OBVIOUS
  <2>1. l \in Touched(p) <=> \A k \in l + 1 .. Deep : WasZero(p, k)
    BY <1>4 DEF Touched, Called
  <2> QED BY <1>5, <1>6, <2>1
<1>8. \A l \in Touched(p) : SetBits(Index(p, l)) = {Index(p, l)}
  BY DEF Turnback
<1>9. bits' = With(bits, t)
  <2> DEFINE W(k) == Word(bits[k], t[k] \div LongBits) = {}
             u == [l \in Layers |->
                     IF l \in Touched(p) THEN bits[l] \cup SetBits(Index(p, l)) ELSE bits[l]]
             v == [l \in Layers |->
                     IF \A k \in l + 1 .. Deep : W(k) THEN bits[l] \cup {t[l]} ELSE bits[l]]
  <2>1. \A l \in Layers : u[l] = v[l]
    <3> SUFFICES ASSUME NEW l \in Layers PROVE u[l] = v[l]
      OBVIOUS
    <3>1. l \in Touched(p) <=> \A k \in l + 1 .. Deep : W(k)
      BY <1>7
    <3>2. l \in Touched(p) => SetBits(Index(p, l)) = {t[l]}
      BY <1>3, <1>8
    <3> HIDE DEF W
    <3> QED BY <3>1, <3>2
  <2>2. u = [l \in Layers |-> u[l]] /\ v = [l \in Layers |-> v[l]]
    OBVIOUS
  <2>3. u = v
    <3> HIDE DEF u, v
    <3> QED BY <2>1, <2>2
  <2> QED BY <2>3 DEF Turnback, With
<1>10. Tree(With(bits, t))
  BY <1>2, TreeWith
<1>11. Deep \in Layers /\ t[Deep] = p
  BY <1>2, <1>3, Layered
<1>12. With(bits, t)[Deep] = bits[Deep] \cup {t[Deep]}
  <2>1. Deep + 1 .. Deep = {}
    BY Layered
  <2> QED BY <1>11, <2>1 DEF With
<1> QED BY <1>9, <1>10, <1>11, <1>12

LEMMA TreeStep == TreeInv /\ [TreeNext]_treeVars => TreeInv'
<1> SUFFICES ASSUME TreeInv, [TreeNext]_treeVars, ~shifted'
             PROVE  TreeInv'
  BY DEF TreeInv
<1>1. ~shifted
  BY DEF TreeNext, Construct, Destruct, Require, RequireBeyond, Turnback, treeVars
<1>2. ~nulls /\ ~beyond
  BY <1>1 DEF TreeInv
<1> DEFINE Full == /\ Tree(bits)
                   /\ holders \in [Slots -> Nat]
                   /\ \A p \in Slots : holders[p] <= 1 /\ (p \notin Places => holders[p] = 0)
                   /\ bits[Deep] = {p \in Places : holders[p] = 0}
<1>3. Deep > 0 => Full
  BY <1>1 DEF TreeInv
<1>4. Deep \in Nat /\ (Deep > 0 => Deep \in Layers)
  BY Layered
<1>5. CASE Construct
  <2>1. CASE Deep = 0
    <3>1. Layers = {}
      BY <2>1 DEF Layers
    <3>2. ~ReadsBeyond
      BY <3>1 DEF ReadsBeyond
    <3>3. Offsets[Deep] = 0
      BY <2>1, <3>1, OffsetsAre
    <3>4. Require
      BY <1>5, <3>2 DEF Construct, RequireBeyond
    <3>5. nulls' = nulls /\ beyond' = beyond
      BY <3>3, <3>4 DEF Require
    <3> QED BY <1>2, <2>1, <3>5 DEF TreeInv
  <2>2. CASE Deep > 0 /\ \A l \in Layers : l = 1 => bits[l] = {}
    <3>1. \A l \in Layers : bits[l] = {}
      BY <1>3, <2>2, NothingBelow
    <3>2. (\A l \in Layers : Offsets[l] = -1) /\ ~ReadsBeyond
      BY <3>1, SearchFails
    <3>3. Require
      BY <1>5, <3>2 DEF Construct, RequireBeyond
    <3>4. Offsets[Deep] = -1
      BY <1>4, <2>2, <3>2
    <3>5. ~(Offsets[Deep] >= 0)
      BY <3>4
    <3>6. /\ nulls' = (nulls \/ \E p \in Places : Free(p))
          /\ bits' = bits /\ holders' = holders /\ beyond' = beyond
      BY <3>3, <3>5 DEF Require
    <3>7. \A p \in Places : ~Free(p)
      BY <1>3, <1>4, <2>2, <3>1 DEF Free
    <3>8. ~nulls' /\ ~beyond'
      BY <1>2, <3>6, <3>7
    <3>9. Full'
      BY <1>3, <2>2, <3>6
    <3> QED BY <3>8, <3>9 DEF TreeInv
  <2>3. CASE Deep > 0 /\ \E l \in Layers : l = 1 /\ bits[l] # {}
    <3>1. Require
      BY <1>3, <1>5, <2>3, SearchFinds DEF Construct, RequireBeyond
    <3>2. /\ Tree(bits)' /\ Offsets[Deep] \in bits[Deep]
          /\ bits'[Deep] = bits[Deep] \ {Offsets[Deep]}
          /\ holders' = [holders EXCEPT ![Offsets[Deep]] = @ + 1]
          /\ nulls' = nulls
      BY <1>3, <2>3, <3>1, RequireTakes
    <3>3. PICK q \in Places : q = Offsets[Deep] /\ holders[q] = 0 /\ q \in Slots
      BY <1>3, <2>3, <3>2, PlaceIsSlot
    <3>4. /\ holders' \in [Slots -> Nat] /\ holders'[q] = 1
          /\ \A p \in Slots \ {q} : holders'[p] = holders[p]
      BY <1>3, <2>3, <3>2, <3>3
    <3>5. \A p \in Slots : holders'[p] <= 1 /\ (p \notin Places => holders'[p] = 0)
      BY <1>3, <2>3, <3>3, <3>4
    <3>6. bits'[Deep] = {p \in Places : holders'[p] = 0}
      BY <1>3, <2>3, <3>2, <3>3, <3>4, PlaceIsSlot
    <3>7. beyond' = beyond
      BY <3>1 DEF Require
    <3> QED BY <1>2, <3>2, <3>4, <3>5, <3>6, <3>7 DEF TreeInv
  <2> QED BY <1>4, <2>1, <2>2, <2>3
<1>6. ASSUME NEW p \in Slots, Destruct(p) PROVE TreeInv'
  <2>1. ~nulls' /\ ~beyond'
    BY <1>2, <1>6 DEF Destruct
  <2>2. CASE Deep > 0
    <3>1. Turnback(p) /\ holders[p] > 0 /\ holders' = [holders EXCEPT ![p] = @ - 1]
      BY <1>6 DEF Destruct
    <3>2. holders \in [Slots -> Nat] /\ holders[p] = 1 /\ p \in Places
      BY <1>3, <2>2, <3>1
    <3>3. Tree(bits)' /\ bits'[Deep] = bits[Deep] \cup {p}
      BY <1>3, <2>2, <3>1, <3>2, TurnbackGives
    <3>4. /\ holders' \in [Slots -> Nat] /\ holders'[p] = 0
          /\ \A r \in Slots \ {p} : holders'[r] = holders[r]
      BY <3>1, <3>2
    <3>5. \A r \in Slots : holders'[r] <= 1 /\ (r \notin Places => holders'[r] = 0)
      BY <1>3, <2>2, <3>4
    <3>6. bits'[Deep] = {r \in Places : holders'[r] = 0}
      BY <1>3, <2>2, <3>2, <3>3, <3>4, PlaceIsSlot
    <3> QED BY <2>1, <3>3, <3>4, <3>5, <3>6 DEF TreeInv
  <2>3. CASE Deep = 0
    BY <2>1, <2>3 DEF TreeInv
  <2> QED BY <1>4, <2>2, <2>3
<1>7. CASE UNCHANGED treeVars
  BY <1>7 DEF TreeInv, treeVars
<1> QED BY <1>5, <1>6, <1>7 DEF TreeNext

------------------------------------------------------------------------------
(* The tree of places: theorems                                               *)

\* BitmapTree and FixedBuffer, a pool of any size with words of any width: the
\* invariant holds in every state.
THEOREM TreeInvariant == TreeSpec => []TreeInv
<1>1. TreeInit => TreeInv
  BY TreeInitially
<1>2. TreeInv /\ [TreeNext]_treeVars => TreeInv'
  BY TreeStep
<1> QED BY <1>1, <1>2, PTL DEF TreeSpec

\* BitmapTree (bitRequire, bitTurnback): while the bits were set that were
\* meant, the leaves are the free places, a place has one holder at most, and
\* each layer summarises the words of the next.
THEOREM FreeSetKept == TreeSpec => []TreeIsFreeSet
<1>1. TreeInv => TreeIsFreeSet
  <2> SUFFICES ASSUME TreeInv, ~shifted, Deep > 0 PROVE TreeIsFreeSet
    BY DEF TreeIsFreeSet
  <2>1. bits[Deep] = {p \in Places : Free(p)}
    BY DEF TreeInv, Free
  <2>2. \A p \in Slots : holders[p] <= 1
    BY DEF TreeInv
  <2>3. \A l \in 2 .. Deep : bits[l - 1] = {b \div LongBits : b \in bits[l]}
    BY DEF TreeInv, Tree, Above
  <2> QED BY <2>1, <2>2, <2>3 DEF TreeIsFreeSet
<1> QED BY <1>1, TreeInvariant, PTL

\* FixedBuffer: so long, a FixedBuffer is without a place only when none is
\* free, and no search reads behind the words of a layer.
THEOREM PlaceWhenFree == TreeSpec => []NullWhenExhausted
<1>1. TreeInv => NullWhenExhausted
  BY DEF TreeInv, NullWhenExhausted
<1> QED BY <1>1, TreeInvariant, PTL
==============================================================================
