----------------------------- MODULE UdpEndpoint -----------------------------
(* src/include/UdpEndpoint.hpp on its looper, with DGramSocket and Channel as *)
(* far as it uses them, and a Dispatcher as its message handler: datagrams    *)
(* arrive, are read in a loop on an edge and dispatched; senders post theirs  *)
(* to the looper, a handler's answer is sent inside the read loop.            *)
(*                                                                            *)
(* The network brings any datagram at any time and any number of times, which *)
(* covers loss, duplication and reordering.  The looper's posted runnables    *)
(* are the queue of Mailbox, which MultiplexLooper implements.  recvfrom and  *)
(* sendto of a socket that does not block are not interrupted, and a datagram *)
(* is sent whole or not at all: EINTR and the branch for a short sendto are   *)
(* left out.                                                                  *)
(* A definition introduced as "Faulty" is a wrong version of the definition   *)
(* after it that a property has to reject.                                    *)
EXTENDS Dispatcher, VecBuffer

CONSTANTS
  Senders,       \* threads other than the looper's that call send
  Looper,        \* the looper's thread: a handler that answers
  Buffers,       \* the VecBuffers that are sent
  Datagrams,     \* what the network brings: [cmd, size]
  Mtu,           \* _mtu
  RcvMax,        \* bound: datagrams in the socket's receive buffer
  SndMax,        \* datagrams the socket's send buffer holds
  MaxSends,      \* bound: sends of one thread
  MaxAnswers,    \* bound: answers of handlers
  MaxArrivals,   \* bound: datagrams the network brings
  MaxAttach,     \* bound: calls of attach
  Errors         \* recvfrom and sendto may fail with other errors than EAGAIN

Threads == Senders \cup {Looper}

ASSUME UdpAssumption ==
  /\ Looper \notin Senders
  /\ {Mtu, RcvMax, SndMax} \subseteq Nat \ {0}
  /\ {MaxSends, MaxAnswers, MaxArrivals, MaxAttach} \subseteq Nat
  /\ \A b \in Buffers : b \in VecBuffers(b.size) /\ InVector(b)
  /\ Datagrams \subseteq [cmd : Cmds, size : Nat]
  /\ Errors \in BOOLEAN

VARIABLES
  \* -- the kernel
  inbox,      \* datagrams in the socket's receive buffer
  room,       \* how many more the send buffer takes
  wire,       \* what sendto took
  ready,      \* the socket is on epoll's ready list
  \* -- the endpoint
  attached,   \* Channel::_attached
  watch,      \* Channel::_events: "read", or "write" (one shot) and then "spent"
  closed,     \* _sock.close() was called
  rcvBuf,     \* _rcvBuf
  sndList,    \* _sndList
  \* -- the looper
  mailbox,    \* posted closures of send
  event,      \* the event epoll_wait reported, not dispatched yet
  pc,         \* what the looper's thread is in
  back,       \* where sendInternal returns to
  \* -- the callers, and history
  attaches,   \* calls of attach
  sends,      \* calls of send, per thread
  arrived,    \* datagrams that came into the receive buffer
  handed      \* datagrams handed to the message handler

kernel == <<inbox, room, wire, ready, arrived>>
channel == <<attached, watch, attaches>>
calling == <<mailbox, sends>>
vars == <<anyHandler, handlerMap, visit, inbox, room, wire, ready, attached, watch,
          closed, rcvBuf, sndList, mailbox, event, pc, back, attaches, sends, arrived,
          handed>>

Init ==
  /\ DispatcherInit
  /\ inbox = <<>> /\ room = SndMax /\ wire = <<>> /\ ready = FALSE
  /\ attached = FALSE /\ watch = "read" /\ closed = FALSE
  /\ rcvBuf = New(Mtu) /\ sndList = <<>>
  /\ mailbox = <<>> /\ event = "none" /\ pc = "idle" /\ back = "idle"
  /\ attaches = 0 /\ sends = [t \in Threads |-> 0]
  /\ arrived = <<>> /\ handed = <<>>

Registered == attached /\ ~closed
Readable == watch = "read" /\ inbox # <<>>
Writable == watch = "write" /\ room > 0

------------------------------------------------------------------------------
(* The network *)

Arrive(d) ==
  /\ Len(inbox) < RcvMax /\ Len(arrived) < MaxArrivals /\ ~closed
  /\ inbox' = Append(inbox, d)
  /\ arrived' = Append(arrived, d)
  /\ ready' = (ready \/ (Registered /\ watch = "read"))
  /\ UNCHANGED <<room, wire, registry, visit, channel, closed, rcvBuf, sndList, calling,
                 event, pc, back, handed>>

Drain ==
  /\ room < SndMax
  /\ room' = SndMax
  /\ ready' = (ready \/ (Registered /\ watch = "write"))
  /\ UNCHANGED <<inbox, wire, arrived, registry, visit, channel, closed, rcvBuf, sndList,
                 calling, event, pc, back, handed>>

------------------------------------------------------------------------------
(* The client: attach, detach while the looper is not in the endpoint, the     *)
(* first handlers before that, and send from any thread.                      *)

\* epoll reports what is there when a descriptor is added, and a one shot that
\* was spent counts anew.
Attach ==
  /\ pc = "idle" /\ ~closed /\ ~attached /\ attaches < MaxAttach
  /\ attached' = TRUE
  /\ attaches' = attaches + 1
  /\ watch' = IF watch = "spent" THEN "write" ELSE watch
  /\ ready' = IF watch = "read" THEN inbox # <<>> ELSE room > 0
  /\ UNCHANGED <<inbox, room, wire, arrived, registry, visit, closed, rcvBuf,
                 sndList, calling, event, pc, back, handed>>

Detach ==
  /\ pc = "idle" /\ attached /\ ~closed
  /\ attached' = FALSE
  /\ ready' = FALSE
  /\ UNCHANGED <<inbox, room, wire, arrived, registry, visit, watch, attaches, closed,
                 rcvBuf, sndList, calling, event, pc, back, handed>>

Register ==
  /\ \E h \in Handlers : RegisterAny(h) \/ \E cmd \in Cmds : RegisterFor(cmd, h)
  /\ UNCHANGED <<kernel, visit, channel, closed, rcvBuf, sndList, calling, event, back, handed>>

RegisterEarly == attaches = 0 /\ pc = "idle" /\ Register /\ UNCHANGED pc

Message(t, b) == [from |-> t, no |-> sends[t] + 1, buf |-> b]

\* send, from another thread: the closure is posted
Post(t, b) ==
  /\ sends[t] < MaxSends
  /\ sends' = [sends EXCEPT ![t] = @ + 1]
  /\ mailbox' = Append(mailbox, Message(t, b))
  /\ UNCHANGED <<kernel, registry, visit, channel, closed, rcvBuf, sndList, event, pc, back,
                 handed>>

------------------------------------------------------------------------------
(* Sending, in the looper's thread *)

RunPosted ==
  /\ pc = "idle" /\ mailbox # <<>>
  /\ sndList' = Append(sndList, Head(mailbox))
  /\ mailbox' = Tail(mailbox)
  /\ pc' = "send" /\ back' = "idle"
  /\ UNCHANGED <<kernel, registry, visit, channel, closed, rcvBuf, sends, event, handed>>

\* What sendto is given: the part behind the readable one.
Payload(m) == WrittableSize(m.buf)

Sendto ==
  /\ pc = "send" /\ sndList # <<>> /\ ~closed /\ room > 0
  /\ LET m == Head(sndList)
     IN  wire' = Append(wire, [from |-> m.from, no |-> m.no, size |-> Payload(m)])
  /\ room' = room - 1
  /\ sndList' = Tail(sndList)
  /\ UNCHANGED <<inbox, ready, arrived, registry, visit, channel, closed, rcvBuf, calling,
                 event, pc, back, handed>>

\* Faulty: the datagram that met EAGAIN is taken for sent.
SendtoAgainPops ==
  /\ pc = "send" /\ sndList # <<>> /\ ~closed /\ room = 0
  /\ sndList' = Tail(sndList)
  /\ watch' = "write" /\ ready' = FALSE
  /\ UNCHANGED <<inbox, room, wire, arrived, registry, visit, attached, attaches, closed,
                 rcvBuf, calling, event, pc, back, handed>>

\* Faulty: the loop is left without asking for EPOLLOUT.
SendtoAgainLeaves ==
  /\ pc = "send" /\ sndList # <<>> /\ ~closed /\ room = 0
  /\ pc' = back
  /\ UNCHANGED <<kernel, registry, visit, channel, closed, rcvBuf, sndList, calling, event,
                 back, handed>>

\* EAGAIN: enableWrite replaces the events that are watched, and the loop goes
\* round again.
SendtoAgain ==
  /\ pc = "send" /\ sndList # <<>> /\ ~closed /\ room = 0
  /\ watch' = "write"
  /\ ready' = FALSE
  /\ UNCHANGED <<inbox, room, wire, arrived, registry, visit, attached, attaches, closed,
                 rcvBuf, sndList, calling, event, pc, back, handed>>

\* Any other error closes the socket, and the loop goes round again, for ever
\* with EBADF.
SendtoFails ==
  /\ pc = "send" /\ sndList # <<>> /\ (Errors \/ closed)
  /\ closed' = TRUE
  /\ ready' = FALSE
  /\ UNCHANGED <<inbox, room, wire, arrived, registry, visit, channel, rcvBuf, sndList,
                 calling, event, pc, back, handed>>

SendDone ==
  /\ pc = "send" /\ sndList = <<>>
  /\ pc' = back
  /\ UNCHANGED <<kernel, registry, visit, channel, closed, rcvBuf, sndList, calling, event,
                 back, handed>>

------------------------------------------------------------------------------
(* epoll *)

\* epoll_wait asks the socket again before it reports it.
Wait ==
  /\ pc = "idle" /\ event = "none" /\ ready
  /\ ready' = FALSE
  /\ event' = IF Readable THEN "read" ELSE IF Writable THEN "write" ELSE "none"
  /\ watch' = IF Writable THEN "spent" ELSE watch
  /\ UNCHANGED <<inbox, room, wire, arrived, registry, visit, attached, attaches, closed,
                 rcvBuf, sndList, calling, pc, back, handed>>

\* startLoop calls the channel's handler, after others of the same epoll_wait.
HandleRead == event = "read" /\ pc' = "recv"
HandleWrite == event = "write" /\ pc' = "send"

HandleEvent ==
  /\ pc = "idle"
  /\ HandleRead \/ HandleWrite
  /\ event' = "none" /\ back' = "idle"
  /\ UNCHANGED <<kernel, registry, visit, channel, closed, rcvBuf, sndList, calling, handed>>

------------------------------------------------------------------------------
(* handleRead *)

Shorter(a, b) == IF a < b THEN a ELSE b

\* Bytes recvfrom returns: what does not fit the buffer is cut off.
Received(d) == Shorter(d.size, WrittableSize(rcvBuf))

Recvfrom ==
  /\ pc = "recv" /\ ~closed /\ inbox # <<>> /\ Received(Head(inbox)) > 0
  /\ CanMarkWrite(rcvBuf, Received(Head(inbox)))
  /\ rcvBuf' = MarkWrite(rcvBuf, Received(Head(inbox)))
  /\ inbox' = Tail(inbox)
  /\ handed' = Append(handed, [cmd |-> Head(inbox).cmd, size |-> ReadableSize(rcvBuf')])
  /\ Dispatch(Head(inbox).cmd)
  /\ pc' = "dispatch"
  /\ UNCHANGED <<room, wire, ready, arrived, registry, channel, closed, sndList, calling,
                 event, back>>

Shut ==
  /\ attached' = FALSE /\ closed' = TRUE /\ ready' = FALSE
  /\ pc' = "idle"
  /\ UNCHANGED <<room, wire, arrived, registry, visit, watch, attaches, rcvBuf, sndList,
                 calling, event, back, handed>>

\* 0 bytes, an empty datagram, is taken for the end of the peer.
RecvfromEmpty ==
  /\ pc = "recv" /\ ~closed /\ inbox # <<>> /\ Received(Head(inbox)) = 0
  /\ inbox' = Tail(inbox)
  /\ Shut

RecvfromFails ==
  /\ pc = "recv" /\ (Errors \/ closed)
  /\ inbox' = inbox
  /\ Shut

\* EAGAIN
RecvfromNothing ==
  /\ pc = "recv" /\ ~closed /\ inbox = <<>>
  /\ pc' = "idle"
  /\ UNCHANGED <<kernel, registry, visit, channel, closed, rcvBuf, sndList, calling, event,
                 back, handed>>

\* The message handler dispatches; the walk goes on when a handler is back.
Call ==
  /\ pc = "dispatch"
  /\ \/ CallAny /\ pc' = "handler"
     \/ CallSpecific /\ pc' = IF Specific(visit.cmd) = <<>> THEN "reset" ELSE "handler"
  /\ UNCHANGED <<kernel, registry, channel, closed, rcvBuf, sndList, calling, event, back,
                 handed>>

AfterHandler(v) == IF v.at = 0 THEN "reset" ELSE "dispatch"

HandlerReturns ==
  /\ pc = "handler"
  /\ pc' = AfterHandler(visit)
  /\ UNCHANGED <<kernel, registry, visit, channel, closed, rcvBuf, sndList, calling, event,
                 back, handed>>

HandlerRegisters ==
  /\ pc = "handler" /\ Register
  /\ pc' = AfterHandler(visit)

\* UdpSource::send in a handler: the closure runs on the spot.
HandlerAnswers(b) ==
  /\ pc = "handler" /\ sends[Looper] < MaxAnswers
  /\ sends' = [sends EXCEPT ![Looper] = @ + 1]
  /\ sndList' = Append(sndList, Message(Looper, b))
  /\ pc' = "send" /\ back' = AfterHandler(visit)
  /\ UNCHANGED <<kernel, registry, visit, channel, closed, rcvBuf, mailbox, event, handed>>

\* Faulty: the next datagram is read behind the last one.
KeepBuffer ==
  /\ pc = "reset"
  /\ pc' = "recv"
  /\ UNCHANGED <<kernel, registry, visit, channel, closed, rcvBuf, sndList, calling, event,
                 back, handed>>

\* Faulty: one datagram is read on an edge.
ReadOne ==
  /\ pc = "reset"
  /\ rcvBuf' = New(Mtu)
  /\ pc' = "idle"
  /\ UNCHANGED <<kernel, registry, visit, channel, closed, sndList, calling, event, back,
                 handed>>

\* A fresh buffer, and the loop goes round.
ResetBuffer ==
  /\ pc = "reset"
  /\ rcvBuf' = New(Mtu)
  /\ pc' = "recv"
  /\ UNCHANGED <<kernel, registry, visit, channel, closed, sndList, calling, event, back,
                 handed>>

SendLoop == Sendto \/ SendtoAgain \/ SendtoFails \/ SendDone
ReadLoop ==
  \/ Recvfrom \/ RecvfromEmpty \/ RecvfromFails \/ RecvfromNothing
  \/ Call \/ HandlerReturns \/ ResetBuffer
Looping == RunPosted \/ Wait \/ HandleEvent \/ SendLoop \/ ReadLoop

Next ==
  \/ \E d \in Datagrams : Arrive(d)
  \/ Drain \/ Attach \/ Detach \/ RegisterEarly
  \/ \E t \in Senders, b \in Buffers : Post(t, b)
  \/ HandlerRegisters
  \/ \E b \in Buffers : HandlerAnswers(b)
  \/ Looping

SafetySpec == Init /\ [][Next]_vars

\* The looper's thread goes on, and the network takes what the socket was given.
Spec == SafetySpec /\ WF_vars(Looping) /\ WF_vars(Drain)

------------------------------------------------------------------------------
(* Properties *)

InSendOrder(s) ==
  \A i, j \in DOMAIN s : i < j /\ s[i].from = s[j].from => s[i].no < s[j].no

\* The sends of t that are in s, by their numbers.
SendsOf(t, s) == {s[i].no : i \in {k \in DOMAIN s : s[k].from = t}}

\* Whatever EAGAIN and errors do to the loop, and wherever an answer of a
\* handler cuts in: the datagrams of one thread are sent in the order of its
\* sends, none twice, and those that are not sent yet are all kept.
SentInOrder ==
  LET all == wire \o sndList \o mailbox
  IN  InSendOrder(all) /\ \A t \in Threads : SendsOf(t, all) = 1 .. sends[t]

\* The handler is given the datagrams that arrived, in their order, each once
\* and each with its own bytes, cut to the mtu but never joined with another
\* one or shortened by it.
HandedAsArrived ==
  /\ Len(handed) <= Len(arrived)
  /\ \A i \in DOMAIN handed :
       handed[i] = [arrived[i] EXCEPT !.size = Shorter(@, Mtu)]
  /\ ~closed => arrived = SubSeq(arrived, 1, Len(handed)) \o inbox

\* Dispatcher's order, for a dispatch during which handlers register others.
HandlersInOrder == pc = "reset" => InRegisteredOrder

\* The socket is edge triggered: a datagram that waits while the looper is not
\* in the endpoint has an edge that will bring the looper back, as long as the
\* endpoint still watches for reading.
NoStrandedDatagram ==
  Registered /\ pc = "idle" /\ watch = "read" /\ inbox # <<>> => ready \/ event = "read"

\* What is given to send is sent, or an error closes the endpoint.
PostedIsSent ==
  \A t \in Threads, k \in 1 .. MaxSends :
    sends[t] >= k ~> closed \/ \E i \in DOMAIN wire : wire[i].from = t /\ wire[i].no = k

\* Sending ends, whatever sendto returns.
SendReturns == pc = "send" ~> pc # "send"

\* The endpoint goes on receiving: what waits is taken.
ReceivingGoesOn == Registered /\ inbox # <<>> ~> ~Registered \/ inbox = <<>>

\* A datagram carries the readable bytes of the buffer that was sent.
ReadablePartIsSent ==
  pc = "send" /\ sndList # <<>> =>
    Payload(Head(sndList)) = ReadableSize(Head(sndList).buf)
==============================================================================
