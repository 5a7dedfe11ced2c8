------------------------------- MODULE TcpSend -------------------------------
(* src/TcpConnection.cpp sendInternal and src/include/TcpConnection.hpp send, *)
(* sendMultiple, markSended: the send list of one connection, in the thread   *)
(* of its looper.                                                             *)
(*                                                                            *)
(* A byte is its position in the stream the client sends; a buffer of the     *)
(* list is the range [from, to) of positions that is readable in it.          *)
(* writev's result goes through a size_t, so -1 is the largest size.          *)
(* A definition introduced as "Faulty" is a wrong version of the definition   *)
(* after it that a property has to reject.                                    *)
EXTENDS Naturals, Sequences, FiniteSetsExt, SequencesExt

CONSTANTS
  Sizes,       \* sizes of the buffers the client sends
  MaxBatch,    \* bound: buffers of one sendMultiple (send is a batch of one)
  MaxBytes,    \* bound: bytes the client sends altogether
  MaxCalls,    \* bound: calls of send and sendMultiple
  VecMax,      \* vecMax (50)
  Space,       \* the socket's send buffer
  Errors       \* writev may fail although there is room

SizeMax == 2 * MaxBytes + 1      \* stands for SIZE_MAX: more than is ever queued

ASSUME SendAssumption ==
  /\ Sizes \subseteq Nat /\ {MaxBatch, MaxBytes, MaxCalls, VecMax, Space} \subseteq Nat \ {0}
  /\ Errors \in BOOLEAN

VARIABLES
  list,      \* _sndBufList
  queued,    \* bytes given to send so far
  calls,     \* calls of send and sendMultiple
  wire,      \* positions the socket took, in order
  room,      \* free bytes of the socket's send buffer
  sending,   \* sendInternal is running
  watch,     \* the channel's events: "read", "write" (one shot), "spent"
  closed,    \* _sock.close() was called
  told,      \* calls of the close handler
  faulted,   \* the undefined behaviour of markSended ended the program
  given,     \* history: the sizes of the buffers given to send
  curtailed  \* history: a writev has failed or taken less than it was given

history == <<given, curtailed>>
sendVars == <<list, queued, calls, wire, room, sending, watch, closed, told, faulted, given, curtailed>>

Readable(b) == b.to - b.from

SendInit ==
  /\ list = <<>> /\ queued = 0 /\ calls = 0 /\ wire = <<>> /\ room = Space
  /\ sending = FALSE /\ watch = "read" /\ closed = FALSE /\ told = 0
  /\ faulted = FALSE /\ given = {} /\ curtailed = FALSE

------------------------------------------------------------------------------
\* Ends(sizes)[n]: the first n sizes together
Ends(sizes) ==
  LET end[n \in 0 .. Len(sizes)] == IF n = 0 THEN 0 ELSE end[n - 1] + sizes[n]
  IN  end

\* Buffers of these sizes, one behind the other, starting at position p
Buffers(sizes, p) ==
  [i \in DOMAIN sizes |-> [from |-> p + Ends(sizes)[i - 1], to |-> p + Ends(sizes)[i]]]
Total(bufs) == Ends([i \in DOMAIN bufs |-> Readable(bufs[i])])[Len(bufs)]

\* Faulty: the batch is spliced in at the front.
SendFront ==
  /\ ~sending /\ ~faulted /\ calls < MaxCalls
  /\ calls' = calls + 1
  /\ \E k \in 1 .. MaxBatch : \E sizes \in [1 .. k -> Sizes] :
       LET new == Buffers(sizes, queued) IN
       /\ queued + Total(new) <= MaxBytes
       /\ list' = new \o list
       /\ queued' = queued + Total(new)
       /\ given' = given \cup Range(sizes)
  /\ sending' = TRUE
  /\ UNCHANGED <<wire, room, watch, closed, told, faulted, curtailed>>

\* The closure of send and sendMultiple: append, then sendInternal.
Send ==
  /\ ~sending /\ ~faulted /\ calls < MaxCalls
  /\ calls' = calls + 1
  /\ \E k \in 1 .. MaxBatch : \E sizes \in [1 .. k -> Sizes] :
       LET new == Buffers(sizes, queued) IN
       /\ queued + Total(new) <= MaxBytes
       /\ list' = list \o new
       /\ queued' = queued + Total(new)
       /\ given' = given \cup Range(sizes)
  /\ sending' = TRUE
  /\ UNCHANGED <<wire, room, watch, closed, told, faulted, curtailed>>

\* The order of markSended's statements matters: the element after the erased
\* one is subtracted, which is past the end for the last one.  Undefined:
\* what is read there ends the program or is some number the loop, which is
\* over, does not use.
Minus(a, b) == IF a >= b THEN a - b ELSE SizeMax + 1 + a - b

\* What is left of sended when the loop comes to the buffer n
Left(bufs, sended) ==
  LET left[n \in 1 .. Len(bufs)] ==
        IF n = 1 THEN sended ELSE Minus(left[n - 1], Readable(bufs[n]))
  IN  left

\* The buffer that ends the loop: it is read in part, it is the last one, or
\* nothing is left behind it.
Stops(bufs, sended) ==
  LET left == Left(bufs, sended)
  IN  {n \in 1 .. Len(bufs) : \/ left[n] < Readable(bufs[n])
                              \/ n = Len(bufs)
                              \/ left[n + 1] = 0}

\* Faulty: one buffer is erased whatever was written.
MarkFirst(bufs, sended) == IF bufs = <<>> THEN bufs ELSE Tail(bufs)

MarkSended(bufs, sended) ==
  IF bufs = <<>> THEN bufs
  ELSE LET stop == Min(Stops(bufs, sended))
           left == Left(bufs, sended)[stop]
           behind == SubSeq(bufs, stop + 1, Len(bufs))
       IN  IF left >= Readable(bufs[stop]) THEN behind
           ELSE <<[bufs[stop] EXCEPT !.from = @ + left]>> \o behind

\* Whether the last element is erased, and *end() read
ReachesEnd(bufs, sended) == bufs # <<>> /\ MarkSended(bufs, sended) = <<>>

Positions(bufs) ==
  FlattenSeq([i \in DOMAIN bufs |->
                [k \in 1 .. Readable(bufs[i]) |-> bufs[i].from + k]])

Vec == SubSeq(list, 1, IF Len(list) < VecMax THEN Len(list) ELSE VecMax)

\* sendInternal: nothing to be sent
SendDone ==
  /\ sending /\ list = <<>> /\ ~faulted
  /\ sending' = FALSE
  /\ UNCHANGED <<list, queued, calls, wire, room, watch, closed, told, faulted, history>>

Marked(sended) ==
  /\ list' = MarkSended(list, sended)
  /\ \E fault \in BOOLEAN : faulted' = (ReachesEnd(list, sended) /\ fault)
  /\ UNCHANGED <<queued, calls, sending, watch, closed, told, given>>

\* writev took something
Writev ==
  /\ sending /\ list # <<>> /\ ~faulted /\ ~closed
  /\ room > 0 /\ Total(Vec) > 0
  /\ LET n == Min({Total(Vec), room})
     IN  /\ wire' = wire \o SubSeq(Positions(Vec), 1, n)
         /\ room' = room - n
         /\ Marked(n)
         /\ curtailed' = (curtailed \/ n < Total(Vec))

\* writev returned -1 (EAGAIN, an error, or the closed descriptor): sended is
\* SIZE_MAX, and positive
WritevFails ==
  /\ sending /\ list # <<>> /\ ~faulted
  /\ closed \/ Errors \/ (room = 0 /\ Total(Vec) > 0)
  /\ Marked(SizeMax) /\ curtailed' = TRUE
  /\ UNCHANGED <<wire, room>>

\* Channel::enableWrite, one shot: EVENT_READ is no longer watched.
EnableWrite == watch' = "write"

\* The error branch: the socket is closed under its channel, which stays
\* attached, and handleClose tells the handler.
CloseAndTell == closed' = TRUE /\ told' = told + 1

\* writev of nothing but empty buffers returned 0: the errno of some earlier
\* call decides
WritevZero ==
  /\ sending /\ list # <<>> /\ ~faulted /\ ~closed
  /\ Total(Vec) = 0
  /\ \E again \in BOOLEAN :
       IF again THEN EnableWrite /\ UNCHANGED <<closed, told>>
                ELSE CloseAndTell /\ UNCHANGED watch
  /\ sending' = FALSE
  /\ UNCHANGED <<list, queued, calls, wire, room, faulted, history>>

\* handleWrite on the one shot EPOLLOUT
HandleWrite ==
  /\ ~sending /\ watch = "write" /\ room > 0 /\ ~closed /\ ~faulted
  /\ watch' = "spent"
  /\ sending' = TRUE
  /\ UNCHANGED <<list, queued, calls, wire, room, closed, told, faulted, history>>

\* The peer acknowledges
Drain ==
  /\ room < Space
  /\ room' = Space
  /\ UNCHANGED <<list, queued, calls, wire, sending, watch, closed, told, faulted, history>>

SendNext == Send \/ SendDone \/ Writev \/ WritevFails \/ WritevZero \/ HandleWrite \/ Drain

SendSpec == SendInit /\ [][SendNext]_sendVars

------------------------------------------------------------------------------
(* Properties *)

\* Types, and: the list holds ranges of what was given to send, in its order,
\* whatever writev returned and markSended made of it; and the close handler is
\* called once for a socket that sendInternal closed, also when more is sent on
\* it.
SendTypeOK ==
  /\ \A i \in DOMAIN list : list[i].from <= list[i].to /\ list[i].to <= queued
  /\ \A i, j \in DOMAIN list : i < j => list[i].to <= list[j].from
  /\ queued \in 0 .. MaxBytes /\ calls \in 0 .. MaxCalls /\ room \in 0 .. Space
  /\ sending \in BOOLEAN /\ watch \in {"read", "write", "spent"}
  /\ closed \in BOOLEAN /\ told = (IF closed THEN 1 ELSE 0) /\ faulted \in BOOLEAN
  /\ given \subseteq Sizes /\ curtailed \in BOOLEAN

\* The peer gets every byte once, in the order of the send calls: what the
\* socket took and what is still in the list make up what was given to send.
SentOnceInOrder ==
  ~closed => wire \o Positions(list) = [k \in 1 .. queued |-> k]

\* Where the code keeps that promise: as long as all buffers have one size, not
\* 0, and every writev took all it was given: however the batches and the limit
\* of one writev cut the list, the rest is sent, in order and once.
OneSize == 0 \notin given /\ \A a, b \in given : a = b
EqualSentInOrder == OneSize /\ ~curtailed => SentOnceInOrder

\* No byte given to send vanishes: it was taken by the socket or it is queued.
NothingVanishes ==
  ~closed => {wire[i] : i \in DOMAIN wire} \cup {Positions(list)[i] : i \in DOMAIN Positions(list)}
               = 1 .. queued

\* Sending does not end the program (test.cpp:138 sends a reply).
SendSurvives == ~faulted
==============================================================================
