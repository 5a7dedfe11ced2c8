----------------------- MODULE MultiplexLooper_proofs -----------------------
(* LoopInv is an inductive invariant of the event loop, and every behaviour   *)
(* of the loop is one of the mailbox, for any set of threads and runnables    *)
(* and any number of calls.  And for the client that has such a loop of its   *)
(* own, however often it is started: its descriptor is closed or the loop     *)
(* ended first, its connection is handed over in time, and no assertion fails *)
(* before a second start.                                                     *)
EXTENDS MultiplexLooper, TcpClient, TLAPS, SequenceTheorems

------------------------------------------------------------------------------
(* Sequences: moving elements along executed, batch, runnables does not       *)
(* change the concatenation of the three.                                     *)

\* Appending to the last of three sequences appends to the whole (push_back).
LEMMA AppendToLast ==
  ASSUME NEW S, NEW a \in Seq(S), NEW b \in Seq(S), NEW c \in Seq(S), NEW x \in S
  PROVE  (a \o b) \o Append(c, x) = Append((a \o b) \o c, x)
  OBVIOUS

\* Moving the head of the second sequence to the end of the first (RunOne).
LEMMA MoveHead ==
  ASSUME NEW S, NEW a \in Seq(S), NEW b \in Seq(S), b # <<>>
  PROVE  Append(a, Head(b)) \o Tail(b) = a \o b
  OBVIOUS

\* An empty middle takes the last sequence over (Swap).
LEMMA TakeOver ==
  ASSUME NEW S, NEW a \in Seq(S), NEW c \in Seq(S)
  PROVE  (a \o c) \o <<>> = (a \o <<>>) \o c
  OBVIOUS

------------------------------------------------------------------------------
(* Inductive invariant *)

LEMMA InitInv == Init => LoopInv
<1> SUFFICES ASSUME Init PROVE LoopInv
  OBVIOUS
<1>1. TypeOK
  BY LoopAssumption DEF Init, TypeOK, LoopPcs
<1>2. QueueConserved
  BY <1>1, ConcatEmptySeq DEF Init, QueueConserved, TypeOK
<1>3. LocalsScoped /\ NoLostWakeup /\ NoLostStop /\ EventReadNeverBlocks
  BY DEF Init, LocalsScoped, NoLostWakeup, NoLostStop, EventReadNeverBlocks
<1> QED BY <1>1, <1>2, <1>3 DEF LoopInv

USE DEF vars, shared, loop, history

\* Every step keeps the types.
LEMMA TypeStep == LoopInv /\ [Next]_vars => TypeOK'
<1> SUFFICES ASSUME LoopInv, [Next]_vars PROVE TypeOK'
  OBVIOUS
<1> USE DEF LoopInv, TypeOK, LoopPcs, Threads
<1>1. CASE LoopStep
  <2>1. CASE StartLoop BY <2>1 DEF StartLoop
  <2>2. CASE CheckLooping BY <2>2 DEF CheckLooping
  <2>3. CASE EpollWait BY <2>3 DEF EpollWait
  <2>4. CASE DispatchDone BY <2>4 DEF DispatchDone
  <2>5. CASE Swap BY <2>5 DEF Swap
  <2>6. CASE RunOne BY <2>6 DEF RunOne
  <2>7. CASE BodyDone BY <2>7 DEF BodyDone
  <2>8. CASE RunDone BY <2>8 DEF RunDone
  <2>9. ASSUME NEW c \in Chans, EventRead(c) PROVE TypeOK'
    BY <2>9 DEF EventRead
  <2> QED BY <1>1, <2>1, <2>2, <2>3, <2>4, <2>5, <2>6, <2>7, <2>8, <2>9 DEF LoopStep
<1>2. ASSUME NEW t \in Threads, ThreadStep(t) PROVE TypeOK'
  <2>1. ASSUME NEW r \in Runnables, Push(t, r) PROVE TypeOK'
    BY <2>1 DEF Push
  <2>2. CASE StopFlag(t)
    <3>1. calls + 1 \in 0..MaxCalls
      BY <2>2, LoopAssumption DEF StopFlag
    <3> QED BY <2>2, <3>1 DEF StopFlag
  <2>3. CASE CallWakeup(t)
    <3>1. calls + 1 \in 0..MaxCalls
      BY <2>3, LoopAssumption DEF CallWakeup
    <3> QED BY <2>3, <3>1 DEF CallWakeup
  <2>4. CASE PushWakeup(t) BY <2>4 DEF PushWakeup, Signal, Chans
  <2>5. CASE WakeupWrite(t) BY <2>5 DEF WakeupWrite, Signal, Chans
  <2> QED BY <1>2, <2>1, <2>2, <2>3, <2>4, <2>5 DEF ThreadStep, CallEnd
<1>3. ASSUME NEW r \in Runnables, PostInline(r) PROVE TypeOK'
  BY <1>3 DEF PostInline
<1>4. CASE UNCHANGED vars BY <1>4
<1> QED BY <1>1, <1>2, <1>3, <1>4 DEF Next

\* No step changes what is in executed, batch and runnables taken together,
\* except a push, which posted records.
LEMMA QueueStep == LoopInv /\ [Next]_vars => QueueConserved'
<1> SUFFICES ASSUME LoopInv, [Next]_vars PROVE QueueConserved'
  OBVIOUS
<1> USE DEF LoopInv, TypeOK, QueueConserved
<1>1. CASE Swap
  <2>1. batch = <<>>
    BY <1>1 DEF Swap, LocalsScoped
  <2> QED BY <1>1, <2>1, TakeOver DEF Swap
<1>2. CASE RunOne
  BY <1>2, MoveHead DEF RunOne
<1>3. ASSUME NEW t \in Threads, NEW r \in Runnables, Push(t, r)
      PROVE  QueueConserved'
  <2>1. (executed \o batch) \o Append(runnables, r)
          = Append((executed \o batch) \o runnables, r)
    <3>1. /\ executed \in Seq(Runnables) /\ batch \in Seq(Runnables)
          /\ runnables \in Seq(Runnables) /\ r \in Runnables
      OBVIOUS
    <3> HIDE DEF LoopInv, TypeOK, QueueConserved
    <3> QED BY <3>1, AppendToLast
  <2> QED BY <1>3, <2>1 DEF Push
<1>4. CASE UNCHANGED <<executed, batch, runnables, posted>>
  BY <1>4
<1> QED
  BY <1>1, <1>2, <1>3, <1>4
     DEF Next, LoopStep, ThreadStep, CallEnd, StartLoop, CheckLooping, EpollWait,
         EventRead, DispatchDone, BodyDone, RunDone, PushWakeup, WakeupWrite,
         PostInline, StopFlag, CallWakeup

\* The wakeup of a queued runnable survives every step.
LEMMA WakeupStep == LoopInv /\ [Next]_vars => NoLostWakeup'
<1> SUFFICES ASSUME LoopInv, [Next]_vars PROVE NoLostWakeup'
  OBVIOUS
<1> USE DEF LoopInv, TypeOK, NoLostWakeup, Chans
<1>1. CASE EpollWait
  BY <1>1 DEF EpollWait, LocalsScoped
<1>2. ASSUME NEW c \in Chans, EventRead(c) PROVE NoLostWakeup'
  BY <1>2 DEF EventRead, EventReadNeverBlocks
<1>3. CASE Swap
  BY <1>3 DEF Swap
<1>4. ASSUME NEW t \in Threads, ThreadStep(t) PROVE NoLostWakeup'
  <2>1. ASSUME NEW r \in Runnables, Push(t, r) PROVE NoLostWakeup'
    BY <2>1 DEF Push
  <2>2. CASE StopFlag(t) \/ CallWakeup(t)
    BY <2>2 DEF StopFlag, CallWakeup, MayCall
  <2>3. CASE PushWakeup(t)
    BY <2>3 DEF PushWakeup, Signal
  <2>4. CASE WakeupWrite(t)
    BY <2>4 DEF WakeupWrite, Signal
  <2> QED BY <1>4, <2>1, <2>2, <2>3, <2>4 DEF ThreadStep, CallEnd
<1>5. CASE UNCHANGED <<runnables, counter, ready, events, pc>> /\ loopPc # "swap"
  BY <1>5
<1> QED
  BY <1>1, <1>2, <1>3, <1>4, <1>5
     DEF Next, LoopStep, StartLoop, CheckLooping, DispatchDone, RunOne, BodyDone,
         RunDone, PostInline, MayCall

\* So does the wakeup of stopLoop.
LEMMA StopStep == LoopInv /\ [Next]_vars => NoLostStop'
<1> SUFFICES ASSUME LoopInv, [Next]_vars PROVE NoLostStop'
  OBVIOUS
<1> USE DEF LoopInv, TypeOK, NoLostStop, Chans
<1>1. CASE LoopStep
  BY <1>1 DEF LoopStep, StartLoop, CheckLooping, EpollWait, EventRead,
              DispatchDone, Swap, RunOne, BodyDone, RunDone
<1>2. ASSUME NEW t \in Threads, ThreadStep(t) PROVE NoLostStop'
  <2>1. ASSUME NEW r \in Runnables, Push(t, r) PROVE NoLostStop'
    BY <2>1 DEF Push, MayCall
  <2>2. CASE StopFlag(t) \/ CallWakeup(t)
    BY <2>2 DEF StopFlag, CallWakeup, MayCall
  <2>3. CASE PushWakeup(t)
    BY <2>3 DEF PushWakeup, Signal
  <2>4. CASE WakeupWrite(t)
    BY <2>4 DEF WakeupWrite, Signal
  <2> QED BY <1>2, <2>1, <2>2, <2>3, <2>4 DEF ThreadStep, CallEnd
<1>3. CASE UNCHANGED <<looping, counter, ready, pc, loopPc>>
  BY <1>3
<1> QED BY <1>1, <1>2, <1>3 DEF Next, PostInline

\* An event that is waiting to be dispatched stays readable.
LEMMA ReadStep == LoopInv /\ [Next]_vars => EventReadNeverBlocks'
<1> SUFFICES ASSUME LoopInv, [Next]_vars PROVE EventReadNeverBlocks'
  OBVIOUS
<1> USE DEF LoopInv, TypeOK, EventReadNeverBlocks, Chans
<1>1. CASE EpollWait
  BY <1>1 DEF EpollWait
<1>2. ASSUME NEW c \in Chans, EventRead(c) PROVE EventReadNeverBlocks'
  BY <1>2 DEF EventRead
<1>3. ASSUME NEW t \in Threads, PushWakeup(t) \/ WakeupWrite(t)
      PROVE  EventReadNeverBlocks'
  <2>1. \A c \in Chans : counter'[c] >= counter[c]
    <3>1. CASE PushWakeup(t) BY <3>1 DEF PushWakeup, Signal
    <3>2. CASE WakeupWrite(t) BY <3>2 DEF WakeupWrite, Signal
    <3> QED BY <1>3, <3>1, <3>2
  <2>2. UNCHANGED <<events, loopPc>>
    BY <1>3 DEF PushWakeup, WakeupWrite
  <2>3. counter' \in [Chans -> Nat]
    BY TypeStep
  <2> QED BY <2>1, <2>2, <2>3
<1>4. CASE UNCHANGED <<counter, events>> /\ loopPc' # "aborted"
  BY <1>4
<1> QED
  BY <1>1, <1>2, <1>3, <1>4
     DEF Next, LoopStep, ThreadStep, CallEnd, StartLoop, CheckLooping,
         DispatchDone, Swap, RunOne, BodyDone, RunDone, Push, PostInline,
         StopFlag, CallWakeup

\* The local vector and the event array are empty outside their loops.
LEMMA ScopeStep == LoopInv /\ [Next]_vars => LocalsScoped'
<1> SUFFICES ASSUME LoopInv, [Next]_vars PROVE LocalsScoped'
  OBVIOUS
<1> USE DEF LoopInv, TypeOK, LocalsScoped, Threads
<1>1. CASE LoopStep
  BY <1>1 DEF LoopStep, StartLoop, CheckLooping, EpollWait, EventRead,
              DispatchDone, Swap, RunOne, BodyDone, RunDone, EventReadNeverBlocks
<1>2. ASSUME NEW t \in Threads, ThreadStep(t) PROVE LocalsScoped'
  BY <1>2 DEF ThreadStep, CallEnd, Push, StopFlag, CallWakeup, PushWakeup,
              WakeupWrite, MayCall
<1>3. CASE UNCHANGED <<batch, events, loopPc, pc>>
  BY <1>3
<1> QED BY <1>1, <1>2, <1>3 DEF Next, PostInline

\* In every reachable state of the loop: types, conservation of the queue, no
\* lost wakeup, no lost stop, and eventfd reads that do not block.
THEOREM LoopInvariant == SafetySpec => []LoopInv
<1>1. Init => LoopInv
  BY InitInv
<1>2. LoopInv /\ [Next]_vars => LoopInv'
  BY TypeStep, QueueStep, WakeupStep, StopStep, ReadStep, ScopeStep DEF LoopInv
<1> QED BY <1>1, <1>2, PTL DEF SafetySpec

\* Nothing that was posted is lost, duplicated or reordered (executeRunnables).
THEOREM Conservation == SafetySpec => []QueueConserved
<1>1. LoopInv => QueueConserved
  BY DEF LoopInv
<1> QED BY LoopInvariant, <1>1, PTL

\* A queued runnable never loses its wakeup (postRunnable, handleRead).
THEOREM WakeupKept == SafetySpec => []NoLostWakeup
<1>1. LoopInv => NoLostWakeup
  BY DEF LoopInv
<1> QED BY LoopInvariant, <1>1, PTL

\* A loop about to sleep after stopLoop is going to be woken.
THEOREM StopKept == SafetySpec => []NoLostStop
<1>1. LoopInv => NoLostStop
  BY DEF LoopInv
<1> QED BY LoopInvariant, <1>1, PTL

\* CHKRET on the eventfd read never ends the program.
THEOREM ReadsNeverBlock == SafetySpec => []EventReadNeverBlocks
<1>1. LoopInv => EventReadNeverBlocks
  BY DEF LoopInv
<1> QED BY LoopInvariant, <1>1, PTL

------------------------------------------------------------------------------
(* Refinement: a push is Post, the head of the local vector moving on is      *)
(* RunHead, the exit is Close, and the swap is invisible.                     *)

USE DEF Mail!vars

\* Appending to _runnables appends to the mailbox's queue.
LEMMA PostRefines ==
  ASSUME LoopInv, NEW t \in Threads, NEW r \in Runnables, Push(t, r)
  PROVE  Mail!Post(r)
<1> USE DEF LoopInv, TypeOK
<1>1. batch \o Append(runnables, r) = Append(batch \o runnables, r)
  OBVIOUS
<1> QED BY <1>1 DEF Push, Mail!Post

\* The loop takes the mailbox's head, because the local vector comes first.
LEMMA RunRefines ==
  ASSUME LoopInv, RunOne
  PROVE  Mail!RunHead
<1> USE DEF LoopInv, TypeOK
<1>1. /\ batch \o runnables # <<>>
      /\ Head(batch \o runnables) = Head(batch)
      /\ Tail(batch \o runnables) = Tail(batch) \o runnables
  <2>1. batch \in Seq(Runnables) /\ runnables \in Seq(Runnables) /\ batch # <<>>
    BY DEF RunOne
  <2> DEFINE b == batch
             r == runnables
  <2>2. b \in Seq(Runnables) /\ r \in Seq(Runnables) /\ Len(b) \in Nat \ {0} /\ Len(r) \in Nat
    BY ONLY <2>1
  <2> HIDE DEF b, r
  <2>3. b \o r # <<>> /\ Head(b \o r) = Head(b) /\ Tail(b \o r) = Tail(b) \o r
    <3> DEFINE t == Tail(b) \o r
               u == Tail(b \o r)
    <3>1. b \o r # <<>> /\ Head(b \o r) = Head(b)
      BY ONLY <2>2
    <3>2. t \in Seq(Runnables) /\ u \in Seq(Runnables) /\ Len(t) = Len(u)
      BY ONLY <2>2
    <3>3. \A i \in 1 .. Len(t) : t[i] = u[i]
      BY ONLY <2>2
    <3> HIDE DEF t, u
    <3>4. t = u
      BY ONLY <3>2, <3>3, SeqEqual
    <3> QED BY ONLY <3>1, <3>4 DEF t, u
  <2> QED BY ONLY <2>3 DEF b, r
<1>2. RunOne
  OBVIOUS
<1> QED BY ONLY <1>1, <1>2 DEF RunOne, Mail!RunHead

\* Every step of the loop is a step of the mailbox or leaves it unchanged.
LEMMA StepRefines == LoopInv /\ [Next]_vars => [Mail!Next]_Mail!vars
<1> SUFFICES ASSUME LoopInv, [Next]_vars PROVE [Mail!Next]_Mail!vars
  OBVIOUS
<1> USE DEF Mail!Next
<1>1. CASE RunOne
  BY <1>1, RunRefines
<1>2. ASSUME NEW t \in Threads, NEW r \in Runnables, Push(t, r)
      PROVE  Mail!Next
  BY <1>2, PostRefines
<1>3. ASSUME NEW r \in Runnables, PostInline(r)
      PROVE  Mail!RunInline(r)
  BY <1>3 DEF PostInline, Mail!RunInline
<1>4. CASE CheckLooping
  BY <1>4 DEF CheckLooping, Mail!Close
<1>5. CASE Swap
  <2>1. batch = <<>>
    BY <1>5 DEF Swap, LoopInv, LocalsScoped
  <2>2. runnables \o <<>> = <<>> \o runnables
    BY ConcatEmptySeq DEF LoopInv, TypeOK
  <2> QED BY <1>5, <2>1, <2>2 DEF Swap
<1>6. ASSUME NEW c \in Chans, EventRead(c) PROVE UNCHANGED Mail!vars
  BY <1>6 DEF EventRead, LoopInv, EventReadNeverBlocks
<1>7. CASE StartLoop \/ EpollWait \/ DispatchDone \/ BodyDone \/ RunDone
  BY <1>7 DEF StartLoop, EpollWait, DispatchDone, BodyDone, RunDone
<1>8. ASSUME NEW t \in Threads,
             StopFlag(t) \/ CallWakeup(t) \/ PushWakeup(t) \/ WakeupWrite(t)
      PROVE  UNCHANGED Mail!vars
  BY <1>8 DEF StopFlag, CallWakeup, PushWakeup, WakeupWrite
<1>9. CASE UNCHANGED vars
  BY <1>9
<1> QED
  BY <1>1, <1>2, <1>3, <1>4, <1>5, <1>6, <1>7, <1>8, <1>9
     DEF Next, LoopStep, ThreadStep, CallEnd

\* The loop implements the mailbox: runnables are run in the order they were
\* posted, each once, until the loop is over.
THEOREM LoopRefinesMailbox == SafetySpec => MailboxSafety
<1>1. Init => Mail!Init
  BY ConcatEmptySeq, EmptySeq DEF Init, Mail!Init
<1>2. LoopInv /\ [Next]_vars => [Mail!Next]_Mail!vars
  BY StepRefines
<1> QED
  BY <1>1, <1>2, LoopInvariant, PTL DEF SafetySpec, MailboxSafety, Mail!SafetySpec
------------------------------------------------------------------------------
(* The client: its invariant                                                  *)

\* What is left of the calls, from their first statement on.
StartTodo == {<<"thread", "attach", "connect">>, <<"attach", "connect">>, <<"connect">>}
StopTodo == {<<"detach", "disconnect", "stop", "join">>, <<"disconnect", "stop", "join">>}
EndTodo == {<<"stop", "join">>, <<"join">>}
GoneTodo == {<<"~connection", "~connector">>, <<"~connector">>}

CallInv ==
  /\ todo # <<>> =>
       \/ phase = "started" /\ todo \in StartTodo
       \/ phase = "stopped" /\ todo \in StopTodo \cup EndTodo
       \/ phase = "destroyed" /\ todo \in GoneTodo
  /\ phase \in {"new", "started", "stopped", "destroyed"}
  /\ starts \in Nat
  /\ phase \in {"started", "stopped"} => starts > 0
  /\ phase = "new" => starts = 0

\* A stopWork has posted its closure, and no startWork came after it.
Posted == phase \in {"stopped", "destroyed"} /\ starts > 0 /\ todo \notin StopTodo

\* stopWork has come back.
Joined == phase = "stopped" /\ todo = <<>>

\* The last closure then closes the descriptor, or did; while connect blocks the
\* looper the descriptor is open; a looper that was joined is over.
OrderInv ==
  /\ CallInv
  /\ queue \in Seq({"connect", "disconnect"})
  /\ Posted => IF queue = <<>> THEN ~opened ELSE queue[Len(queue)] = "disconnect"
  /\ lpc = "connecting" => opened
  /\ opened /\ conn = "none" => fd = "own"
  /\ Joined => lpc = "over"

\* The connector is in epoll from the attach of startWork to the detach of
\* stopWork, and nothing closes the descriptor in that time.
Before == phase = "new" \/ (phase = "started" /\ todo \in StartTodo \ {<<"connect">>})
Between == \/ phase = "started" /\ todo \in {<<"connect">>, <<>>}
           \/ phase = "stopped" /\ todo = <<"detach", "disconnect", "stop", "join">>

AttachInv ==
  starts <= 1 =>
    /\ ~failed
    /\ attached = IF Between THEN {"connector"} ELSE {}
    /\ Before => fd = "own" /\ owner = "none" /\ queue = <<>> /\ lpc \in {"none", "loop", "over"}
    /\ Between => fd = "own" /\ owner = "connector" /\ \A i \in DOMAIN queue : queue[i] # "disconnect"

\* Every statement has one place in one call.
LEMMA StatementsLeft ==
  ASSUME CallInv
  PROVE  /\ At("thread") => phase = "started" /\ todo = <<"thread", "attach", "connect">>
                            /\ todo' = <<"attach", "connect">>
         /\ At("attach") => phase = "started" /\ todo = <<"attach", "connect">> /\ todo' = <<"connect">>
         /\ At("connect") => phase = "started" /\ todo = <<"connect">> /\ todo' = <<>>
         /\ At("detach") => phase = "stopped" /\ todo = <<"detach", "disconnect", "stop", "join">>
                            /\ todo' = <<"disconnect", "stop", "join">>
         /\ At("disconnect") => phase = "stopped" /\ todo = <<"disconnect", "stop", "join">>
                                /\ todo' = <<"stop", "join">>
         /\ At("stop") => phase = "stopped" /\ todo = <<"stop", "join">> /\ todo' = <<"join">>
         /\ At("join") => phase = "stopped" /\ todo = <<"join">> /\ todo' = <<>>
         /\ At("~connection") => phase = "destroyed" /\ todo = <<"~connection", "~connector">>
                                 /\ todo' = <<"~connector">>
         /\ At("~connector") => phase = "destroyed" /\ todo = <<"~connector">> /\ todo' = <<>>
<1>1. CallInv /\ (\E step : At(step)) =>
        \/ phase = "started" /\ todo = <<"thread", "attach", "connect">>
        \/ phase = "started" /\ todo = <<"attach", "connect">>
        \/ phase = "started" /\ todo = <<"connect">>
        \/ phase = "stopped" /\ todo = <<"detach", "disconnect", "stop", "join">>
        \/ phase = "stopped" /\ todo = <<"disconnect", "stop", "join">>
        \/ phase = "stopped" /\ todo = <<"stop", "join">>
        \/ phase = "stopped" /\ todo = <<"join">>
        \/ phase = "destroyed" /\ todo = <<"~connection", "~connector">>
        \/ phase = "destroyed" /\ todo = <<"~connector">>
  BY DEF CallInv, At, StartTodo, StopTodo, EndTodo, GoneTodo
<1>2. Head(<<"thread", "attach", "connect">>) = "thread" /\ Tail(<<"thread", "attach", "connect">>) = <<"attach", "connect">>
  OBVIOUS
<1>3. Head(<<"attach", "connect">>) = "attach" /\ Tail(<<"attach", "connect">>) = <<"connect">>
  OBVIOUS
<1>4. Head(<<"connect">>) = "connect" /\ Tail(<<"connect">>) = <<>>
  OBVIOUS
<1>5. Head(<<"detach", "disconnect", "stop", "join">>) = "detach" /\ Tail(<<"detach", "disconnect", "stop", "join">>) = <<"disconnect", "stop", "join">>
  OBVIOUS
<1>6. Head(<<"disconnect", "stop", "join">>) = "disconnect" /\ Tail(<<"disconnect", "stop", "join">>) = <<"stop", "join">>
  OBVIOUS
<1>7. Head(<<"stop", "join">>) = "stop" /\ Tail(<<"stop", "join">>) = <<"join">>
  OBVIOUS
<1>8. Head(<<"join">>) = "join" /\ Tail(<<"join">>) = <<>>
  OBVIOUS
<1>9. Head(<<"~connection", "~connector">>) = "~connection" /\ Tail(<<"~connection", "~connector">>) = <<"~connector">>
  OBVIOUS
<1>10. Head(<<"~connector">>) = "~connector" /\ Tail(<<"~connector">>) = <<>>
  OBVIOUS
<1>11. At("thread") => phase = "started" /\ todo = <<"thread", "attach", "connect">> /\ todo' = <<"attach", "connect">>
  BY <1>1, <1>2, <1>3, <1>4, <1>5, <1>6, <1>7, <1>8, <1>9, <1>10 DEF At
<1>12. At("attach") => phase = "started" /\ todo = <<"attach", "connect">> /\ todo' = <<"connect">>
  BY <1>1, <1>2, <1>3, <1>4, <1>5, <1>6, <1>7, <1>8, <1>9, <1>10 DEF At
<1>13. At("connect") => phase = "started" /\ todo = <<"connect">> /\ todo' = <<>>
  BY <1>1, <1>2, <1>3, <1>4, <1>5, <1>6, <1>7, <1>8, <1>9, <1>10 DEF At
<1>14. At("detach") => phase = "stopped" /\ todo = <<"detach", "disconnect", "stop", "join">> /\ todo' = <<"disconnect", "stop", "join">>
  BY <1>1, <1>2, <1>3, <1>4, <1>5, <1>6, <1>7, <1>8, <1>9, <1>10 DEF At
<1>15. At("disconnect") => phase = "stopped" /\ todo = <<"disconnect", "stop", "join">> /\ todo' = <<"stop", "join">>
  BY <1>1, <1>2, <1>3, <1>4, <1>5, <1>6, <1>7, <1>8, <1>9, <1>10 DEF At
<1>16. At("stop") => phase = "stopped" /\ todo = <<"stop", "join">> /\ todo' = <<"join">>
  BY <1>1, <1>2, <1>3, <1>4, <1>5, <1>6, <1>7, <1>8, <1>9, <1>10 DEF At
<1>17. At("join") => phase = "stopped" /\ todo = <<"join">> /\ todo' = <<>>
  BY <1>1, <1>2, <1>3, <1>4, <1>5, <1>6, <1>7, <1>8, <1>9, <1>10 DEF At
<1>18. At("~connection") => phase = "destroyed" /\ todo = <<"~connection", "~connector">> /\ todo' = <<"~connector">>
  BY <1>1, <1>2, <1>3, <1>4, <1>5, <1>6, <1>7, <1>8, <1>9, <1>10 DEF At
<1>19. At("~connector") => phase = "destroyed" /\ todo = <<"~connector">> /\ todo' = <<>>
  BY <1>1, <1>2, <1>3, <1>4, <1>5, <1>6, <1>7, <1>8, <1>9, <1>10 DEF At
<1> QED BY <1>11, <1>12, <1>13, <1>14, <1>15, <1>16, <1>17, <1>18, <1>19

\* The sequences of statements differ.
LEMMA TodosDiffer ==
  /\ <<>> \notin StartTodo \cup StopTodo \cup EndTodo \cup GoneTodo
  /\ <<"thread", "attach", "connect">> \in StartTodo \ {<<"connect">>}
  /\ <<"attach", "connect">> \in StartTodo \ {<<"connect">>}
  /\ <<"connect">> \in StartTodo
  /\ <<"detach", "disconnect", "stop", "join">> \in StopTodo
  /\ <<"disconnect", "stop", "join">> \in StopTodo \ {<<"detach", "disconnect", "stop", "join">>}
  /\ <<"stop", "join">> \in EndTodo \ StopTodo
  /\ <<"join">> \in EndTodo \ StopTodo
  /\ <<"~connection", "~connector">> \in GoneTodo \ StopTodo
  /\ <<"~connector">> \in GoneTodo \ StopTodo
  BY DEF StartTodo, StopTodo, EndTodo, GoneTodo

LEMMA OrderInitially == ClientInit => OrderInv
<1> SUFFICES ASSUME ClientInit PROVE OrderInv
  OBVIOUS
<1>1. CallInv /\ ~Posted /\ ~Joined
  BY TodosDiffer DEF ClientInit, ConnectorInit, CallInv, Posted, Joined
<1> QED BY <1>1 DEF ClientInit, ConnectorInit, OrderInv

\* A closure is posted, and the first is run.
LEMMA QueueGrows ==
  ASSUME NEW S, NEW q \in Seq(S), NEW c \in S
  PROVE  /\ Append(q, c) \in Seq(S) /\ Append(q, c) # <<>>
         /\ Append(q, c)[Len(Append(q, c))] = c
         /\ \A i \in DOMAIN Append(q, c) : Append(q, c)[i] = c \/ \E k \in DOMAIN q : Append(q, c)[i] = q[k]
<1>1. Len(q) \in Nat /\ Len(Append(q, c)) = Len(q) + 1 /\ Append(q, c) \in Seq(S)
  OBVIOUS
<1>2. Append(q, c)[Len(q) + 1] = c /\ \A i \in 1 .. Len(q) : Append(q, c)[i] = q[i]
  OBVIOUS
<1>3. DOMAIN Append(q, c) = 1 .. Len(q) + 1 /\ DOMAIN q = 1 .. Len(q)
  BY <1>1
<1>4. Append(q, c) # <<>>
  BY <1>1
<1> QED BY <1>1, <1>2, <1>3, <1>4

LEMMA QueueShrinks ==
  ASSUME NEW S, NEW q \in Seq(S), q # <<>>
  PROVE  /\ Tail(q) \in Seq(S)
         /\ Tail(q) # <<>> => Tail(q)[Len(Tail(q))] = q[Len(q)]
         /\ Tail(q) = <<>> => q[Len(q)] = Head(q)
         /\ \A i \in DOMAIN Tail(q) : \E k \in DOMAIN q : Tail(q)[i] = q[k]
<1>1. /\ Len(q) \in Nat /\ Len(q) > 0 /\ Tail(q) \in Seq(S)
      /\ Len(Tail(q)) = Len(q) - 1 /\ Head(q) = q[1]
  OBVIOUS
<1>2. \A i \in 1 .. Len(q) - 1 : Tail(q)[i] = q[i + 1]
  OBVIOUS
<1>3. DOMAIN Tail(q) = 1 .. Len(q) - 1 /\ DOMAIN q = 1 .. Len(q)
  BY <1>1
<1>4. \A i \in DOMAIN Tail(q) : i + 1 \in DOMAIN q /\ Tail(q)[i] = q[i + 1]
  BY <1>1, <1>2, <1>3
<1> PICK t \in Seq(S) : t = Tail(q)
  BY <1>1
<1>5. Len(t) = Len(q) - 1 /\ \A i \in 1 .. Len(q) - 1 : t[i] = q[i + 1]
  BY <1>1, <1>2
<1>6. (t = <<>> => Len(q) = 1) /\ (t # <<>> => Len(q) - 1 \in 1 .. Len(q) - 1 /\ (Len(q) - 1) + 1 = Len(q))
  <2>1. t = <<>> <=> Len(t) = 0
    BY ONLY t \in Seq(S), EmptySeq
  <2>2. PICK n \in Nat : n = Len(q) /\ n > 0 /\ Len(t) = n - 1
    BY <1>1, <1>5
  <2>3. (n - 1 = 0 => n = 1) /\ (n - 1 # 0 => n - 1 \in 1 .. n - 1 /\ (n - 1) + 1 = n)
    BY <2>2
  <2> QED BY <2>1, <2>2, <2>3
<1>7. t # <<>> => t[Len(t)] = q[Len(q)]
  <2> SUFFICES ASSUME t # <<>> PROVE t[Len(t)] = q[Len(q)]
    OBVIOUS
  <2>1. t[Len(q) - 1] = q[(Len(q) - 1) + 1]
    BY <1>5, <1>6
  <2> QED BY <1>5, <1>6, <2>1
<1> QED BY <1>1, <1>4, <1>6, <1>7

\* The calls go on as they are written.
LEMMA CallStep == CallInv /\ [ClientNext]_clientVars => CallInv'
<1> SUFFICES ASSUME CallInv, [ClientNext]_clientVars PROVE CallInv'
  OBVIOUS
<1>1. CASE StartWork
  <2>1. phase' = "started" /\ todo' = <<"thread", "attach", "connect">> /\ starts' = starts + 1
    BY <1>1 DEF StartWork
  <2>2. starts' \in Nat /\ starts' > 0
    BY <2>1 DEF CallInv
  <2> QED BY <2>1, <2>2, TodosDiffer DEF CallInv
<1>2. CASE StopWork
  <2>1. /\ phase' = "stopped" /\ todo' = <<"detach", "disconnect", "stop", "join">>
        /\ starts' = starts /\ starts > 0
    BY <1>2 DEF StopWork, CallInv
  <2> QED BY <2>1, TodosDiffer DEF CallInv
<1>3. CASE Destroy
  <2>1. phase' = "destroyed" /\ todo' = <<"~connection", "~connector">> /\ starts' = starts
    BY <1>3 DEF Destroy
  <2> QED BY <2>1, TodosDiffer DEF CallInv
<1>4. CASE Statement
  <2>1. phase' = phase /\ starts' = starts
    BY <1>4 DEF Statement, Thread, AttachConnector, Connect, PostClosure, DetachConnector,
                Disconnect, StopLoop, Join, DropConnection, DestroyConnector, At
  <2>2. \/ At("thread") \/ At("attach") \/ At("connect") \/ At("detach") \/ At("disconnect")
        \/ At("stop") \/ At("join") \/ At("~connection") \/ At("~connector")
    BY <1>4 DEF Statement, Thread, AttachConnector, Connect, PostClosure, DetachConnector,
                Disconnect, StopLoop, Join, DropConnection, DestroyConnector
  <2> QED BY <2>1, <2>2, StatementsLeft, TodosDiffer DEF CallInv
<1>5. CASE UNCHANGED user
  BY <1>5 DEF user, CallInv
<1>6. CASE Handler \/ Release
  <2>1. UNCHANGED <<todo, phase, starts>>
    BY <1>6 DEF Handler, Release
  <2> QED BY <2>1 DEF CallInv
<1>7. CASE Looping
  <2>1. UNCHANGED user \/ Handler
    BY <1>7 DEF Looping, RunConnect, ConnectFails, ConnectSucceeds, OnNewConnection, RunDisconnect, HandleRead
  <2> QED BY <1>5, <1>6, <2>1
<1>8. CASE LoopEnds \/ OtherOpens \/ PeerSend \/ UNCHANGED clientVars
  <2>1. UNCHANGED user
    BY <1>8 DEF LoopEnds, OtherOpens, PeerSend, clientVars, user
  <2> QED BY <1>5, <2>1
<1> QED BY <1>1, <1>2, <1>3, <1>4, <1>6, <1>7, <1>8 DEF ClientNext

LEMMA OrderStep == OrderInv /\ [ClientNext]_clientVars => OrderInv'
<1> SUFFICES ASSUME OrderInv, [ClientNext]_clientVars PROVE OrderInv'
  OBVIOUS
<1>0. CallInv /\ CallInv'
  BY CallStep DEF OrderInv
<1>1. CASE StartWork
  <2>1. ~Posted' /\ ~Joined'
    BY <1>0, <1>1, TodosDiffer DEF StartWork, Posted, Joined
  <2> QED BY <1>0, <1>1, <2>1 DEF OrderInv, StartWork, looper, socket, objects
<1>2. CASE StopWork
  <2>1. ~Posted' /\ ~Joined'
    BY <1>0, <1>2, TodosDiffer DEF StopWork, Posted, Joined
  <2> QED BY <1>0, <1>2, <2>1 DEF OrderInv, StopWork, looper, socket, objects
<1>3. CASE Destroy
  <2>1. phase \in {"new", "stopped"} /\ todo = <<>> /\ starts' = starts /\ phase' = "destroyed"
    BY <1>3 DEF Destroy
  <2>2. Posted' => Posted
    BY <1>0, <2>1, TodosDiffer DEF Posted, CallInv
  <2>3. ~Joined'
    BY <2>1 DEF Joined
  <2> QED BY <1>0, <1>3, <2>2, <2>3 DEF OrderInv, Destroy, looper, socket, objects
<1>4. CASE Thread
  <2>1. ~Posted' /\ ~Joined'
    BY <1>0, <1>4, StatementsLeft, TodosDiffer DEF Thread, At, Posted, Joined
  <2> QED BY <1>0, <1>4, <2>1 DEF OrderInv, Thread, At, looper, socket, objects
<1>5. CASE AttachConnector
  <2>1. ~Posted' /\ ~Joined'
    BY <1>0, <1>5, StatementsLeft, TodosDiffer DEF AttachConnector, At, Posted, Joined
  <2> QED BY <1>0, <1>5, <2>1 DEF OrderInv, AttachConnector, At, looper, socket, objects
<1>6. CASE Connect
  <2>1. ~Posted' /\ ~Joined'
    BY <1>0, <1>6, StatementsLeft, TodosDiffer DEF Connect, PostClosure, At, Posted, Joined
  <2> QED BY <1>0, <1>6, <2>1, QueueGrows DEF OrderInv, Connect, PostClosure, At, looper, socket, objects
<1>7. CASE DetachConnector
  <2>1. ~Posted' /\ ~Joined'
    BY <1>0, <1>7, StatementsLeft, TodosDiffer DEF DetachConnector, At, Posted, Joined
  <2> QED BY <1>0, <1>7, <2>1 DEF OrderInv, DetachConnector, At, looper, socket, objects
<1>8. CASE Disconnect
  <2>1. ~Joined'
    BY <1>0, <1>8, StatementsLeft, TodosDiffer DEF Disconnect, PostClosure, Joined
  <2> QED BY <1>0, <1>8, <2>1, QueueGrows DEF OrderInv, Disconnect, PostClosure, looper, socket, objects
<1>9. CASE StopLoop
  <2>1. (Posted' => Posted) /\ ~Joined'
    BY <1>0, <1>9, StatementsLeft, TodosDiffer DEF StopLoop, Posted, Joined, At
  <2> QED BY <1>0, <1>9, <2>1 DEF OrderInv, StopLoop, socket, objects
<1>10. CASE Join
  <2>1. Posted' => Posted
    BY <1>0, <1>10, StatementsLeft, TodosDiffer DEF Join, Posted, At
  <2> QED BY <1>0, <1>10, <2>1 DEF OrderInv, Join, looper, socket, objects
<1>11. CASE DropConnection
  <2>1. (Posted' => Posted) /\ ~Joined'
    BY <1>0, <1>11, StatementsLeft, TodosDiffer DEF DropConnection, Posted, Joined, At
  <2> QED BY <1>0, <1>11, <2>1 DEF OrderInv, DropConnection, DestroyConnection, CloseFd, looper
<1>12. CASE DestroyConnector
  <2>1. (Posted' => Posted) /\ ~Joined'
    BY <1>0, <1>12, StatementsLeft, TodosDiffer DEF DestroyConnector, Posted, Joined, At
  <2> QED BY <1>0, <1>12, <2>1 DEF OrderInv, DestroyConnector, looper, socket, objects
<1>13. CASE RunConnect
  <2>1. (Posted' <=> Posted) /\ (Joined' <=> Joined)
    BY <1>13 DEF RunConnect, Posted, Joined, user
  <2> QED BY <1>0, <1>13, <2>1, QueueShrinks DEF OrderInv, RunConnect, looper, socket, objects
<1>14. CASE ConnectFails
  <2>1. (Posted' <=> Posted) /\ (Joined' <=> Joined)
    BY <1>14 DEF ConnectFails, Posted, Joined, user
  <2> QED BY <1>0, <1>14, <2>1 DEF OrderInv, ConnectFails, looper, socket, objects
<1>15. CASE ConnectSucceeds
  <2>1. (Posted' <=> Posted) /\ (Joined' <=> Joined)
    BY <1>15 DEF ConnectSucceeds, OnNewConnection, Posted, Joined, user
  <2> QED BY <1>0, <1>15, <2>1 DEF OrderInv, ConnectSucceeds, OnNewConnection, looper, socket, objects
<1>16. CASE Handler
  <2>1. (Posted' <=> Posted) /\ (Joined' <=> Joined)
    BY <1>16 DEF Handler, Posted, Joined, user
  <2> QED BY <1>0, <1>16, <2>1 DEF OrderInv, Handler, looper, socket, objects
<1>17. CASE RunDisconnect
  <2>1. (Posted' <=> Posted) /\ (Joined' <=> Joined)
    BY <1>17 DEF RunDisconnect, Posted, Joined, user
  <2> QED BY <1>0, <1>17, <2>1, QueueShrinks DEF OrderInv, RunDisconnect, CloseFd, looper, socket, objects
<1>18. CASE HandleRead
  <2>1. (Posted' <=> Posted) /\ (Joined' <=> Joined)
    BY <1>18 DEF HandleRead, Posted, Joined, user
  <2> QED BY <1>0, <1>18, <2>1 DEF OrderInv, HandleRead, looper, socket, objects
<1>19. CASE LoopEnds
  <2>1. (Posted' <=> Posted) /\ (Joined' <=> Joined)
    BY <1>19 DEF LoopEnds, Posted, Joined, user
  <2> QED BY <1>0, <1>19, <2>1 DEF OrderInv, LoopEnds, looper, socket, objects
<1>20. CASE Release
  <2>1. (Posted' <=> Posted) /\ (Joined' <=> Joined)
    BY <1>20 DEF Release, Posted, Joined, user
  <2> QED BY <1>0, <1>20, <2>1 DEF OrderInv, Release, DestroyConnection, CloseFd, looper, socket, objects
<1>21. CASE OtherOpens
  <2>1. (Posted' <=> Posted) /\ (Joined' <=> Joined)
    BY <1>21 DEF OtherOpens, Posted, Joined, user
  <2> QED BY <1>0, <1>21, <2>1 DEF OrderInv, OtherOpens, looper, socket, objects
<1>22. CASE PeerSend
  <2>1. (Posted' <=> Posted) /\ (Joined' <=> Joined)
    BY <1>22 DEF PeerSend, Posted, Joined, user
  <2> QED BY <1>0, <1>22, <2>1 DEF OrderInv, PeerSend, looper, socket, objects
<1>23. CASE UNCHANGED clientVars
  <2>1. (Posted' <=> Posted) /\ (Joined' <=> Joined)
    BY <1>23 DEF clientVars, Posted, Joined, user
  <2> QED BY <1>0, <1>23, <2>1 DEF OrderInv, clientVars, looper, socket, objects
<1> QED BY <1>1, <1>2, <1>3, <1>4, <1>5, <1>6, <1>7, <1>8, <1>9, <1>10, <1>11, <1>12, <1>13,
           <1>14, <1>15, <1>16, <1>17, <1>18, <1>19, <1>20, <1>21, <1>22, <1>23
       DEF ClientNext, Statement, Looping

\* What a statement's place says of the connector.
LEMMA Standing ==
  ASSUME CallInv
  PROVE  /\ ~(Before /\ Between)
         /\ At("thread") => Before /\ Before'
         /\ At("attach") => Before /\ Between'
         /\ At("connect") => Between /\ Between'
         /\ At("detach") => Between /\ ~Before' /\ ~Between'
         /\ \A s \in {"disconnect", "stop", "join", "~connection", "~connector"} :
              At(s) => ~Before /\ ~Between /\ ~Before' /\ ~Between'
<1>1. ~(Before /\ Between)
  BY TodosDiffer DEF Before, Between
<1>2. At("thread") => Before /\ Before'
  BY StatementsLeft, TodosDiffer DEF Before, At
<1>3. At("attach") => Before /\ Between'
  BY StatementsLeft, TodosDiffer DEF Before, Between, At
<1>4. At("connect") => Between /\ Between'
  BY StatementsLeft DEF Between, At
<1>5. At("detach") => Between /\ ~Before' /\ ~Between'
  BY StatementsLeft, TodosDiffer DEF Before, Between, At
<1>6. ASSUME NEW s \in {"disconnect", "stop", "join", "~connection", "~connector"}, At(s)
      PROVE  ~Before /\ ~Between /\ ~Before' /\ ~Between'
  <2>1. /\ phase \in {"stopped", "destroyed"} /\ phase' = phase
        /\ todo # <<"detach", "disconnect", "stop", "join">>
        /\ todo' # <<"detach", "disconnect", "stop", "join">>
    BY <1>6, StatementsLeft, TodosDiffer DEF At
  <2> QED BY <2>1 DEF Before, Between
<1> QED BY <1>1, <1>2, <1>3, <1>4, <1>5, <1>6

LEMMA AttachInitially == ClientInit => AttachInv
  BY TodosDiffer DEF ClientInit, ConnectorInit, AttachInv, Before, Between

LEMMA AttachStep ==
  ASSUME ~AttachInHandler, OrderInv, AttachInv, [ClientNext]_clientVars
  PROVE  AttachInv'
<1> SUFFICES ASSUME starts' <= 1 PROVE AttachInv'
  BY DEF AttachInv
<1>0. CallInv /\ CallInv'
  BY CallStep DEF OrderInv
<1> DEFINE Bound == /\ ~failed
                    /\ attached = IF Between THEN {"connector"} ELSE {}
                    /\ Before => fd = "own" /\ owner = "none" /\ queue = <<>>
                                 /\ lpc \in {"none", "loop", "over"}
                    /\ Between => fd = "own" /\ owner = "connector"
                                  /\ \A i \in DOMAIN queue : queue[i] # "disconnect"
<1> SUFFICES Bound'
  BY DEF AttachInv
<1>00. Bound
  <2>1. starts \in Nat /\ (starts' = starts \/ starts' = starts + 1)
    BY <1>0 DEF CallInv, ClientNext, clientVars, StartWork, StopWork, Destroy, Statement, Thread,
       AttachConnector, Connect, PostClosure, DetachConnector, Disconnect, StopLoop, Join,
       DropConnection, DestroyConnector, Looping, RunConnect, ConnectFails, ConnectSucceeds, OnNewConnection,
       Handler, RunDisconnect, HandleRead, LoopEnds, Release, OtherOpens, PeerSend, At, user
  <2> QED BY <2>1 DEF AttachInv
<1>000. ~(Before /\ Between)
  BY <1>0, Standing
<1>1. CASE StartWork
  <2>1. phase = "new"
    BY <1>0, <1>1 DEF StartWork, CallInv
  <2>2. Before /\ Before' /\ ~Between'
    BY <1>1, <2>1, TodosDiffer DEF StartWork, Before, Between
  <2> QED BY <1>1, <1>00, <1>000, <2>2 DEF StartWork, looper, socket, objects
<1>2. CASE StopWork
  <2>1. Between /\ Between' /\ ~Before'
    BY <1>2 DEF StopWork, Before, Between
  <2> QED BY <1>2, <1>00, <2>1 DEF StopWork, looper, socket, objects
<1>3. CASE Destroy
  <2>1. ~Between /\ ~Between' /\ ~Before'
    BY <1>3 DEF Destroy, Before, Between
  <2> QED BY <1>3, <1>00, <2>1 DEF Destroy, looper, socket, objects
<1>4. CASE Thread
  <2>1. Before /\ Before' /\ ~Between'
    BY <1>0, <1>4, Standing, StatementsLeft, TodosDiffer DEF Thread, Between, At
  <2> QED BY <1>4, <1>00, <1>000, <2>1 DEF Thread, socket, objects
<1>5. CASE AttachConnector
  <2>1. Before /\ Between' /\ ~Before'
    BY <1>0, <1>5, Standing, StatementsLeft, TodosDiffer DEF AttachConnector, Before, At
  <2> QED BY <1>5, <1>00, <1>000, <2>1 DEF AttachConnector, AttachChannel, looper
<1>6. CASE Connect
  <2>1. Between /\ Between' /\ ~Before'
    BY <1>0, <1>6, Standing, StatementsLeft, TodosDiffer DEF Connect, PostClosure, Before, At
  <2>2. queue \in Seq({"connect", "disconnect"}) /\ queue' = Append(queue, "connect")
    BY <1>6 DEF OrderInv, Connect, PostClosure
  <2>3. \A i \in DOMAIN queue' : queue'[i] # "disconnect"
    BY <1>00, <2>1, <2>2, QueueGrows
  <2> QED BY <1>6, <1>00, <2>1, <2>3 DEF Connect, PostClosure, socket, objects
<1>7. CASE DetachConnector
  <2>1. Between /\ ~Between' /\ ~Before'
    BY <1>0, <1>7, Standing DEF DetachConnector
  <2> QED BY <1>7, <1>00, <2>1 DEF DetachConnector, DetachChannel, looper
<1>8. CASE Disconnect
  <2>1. ~Between /\ ~Between' /\ ~Before'
    BY <1>0, <1>8, Standing DEF Disconnect, PostClosure
  <2> QED BY <1>8, <1>00, <2>1 DEF Disconnect, PostClosure, looper, socket, objects
<1>9. CASE StopLoop
  <2>1. ~Between /\ ~Between' /\ ~Before'
    BY <1>0, <1>9, Standing DEF StopLoop
  <2> QED BY <1>9, <1>00, <2>1 DEF StopLoop, looper, socket, objects
<1>10. CASE Join
  <2>1. ~Between /\ ~Between' /\ ~Before'
    BY <1>0, <1>10, Standing DEF Join
  <2> QED BY <1>10, <1>00, <2>1 DEF Join, looper, socket, objects
<1>11. CASE DropConnection
  <2>1. ~Between /\ ~Between' /\ ~Before'
    BY <1>0, <1>11, Standing DEF DropConnection
  <2> QED BY <1>11, <1>00, <2>1 DEF DropConnection, DestroyConnection, looper, socket, objects
<1>12. CASE DestroyConnector
  <2>1. ~Between /\ ~Between' /\ ~Before'
    BY <1>0, <1>12, Standing DEF DestroyConnector
  <2> QED BY <1>12, <1>00, <2>1 DEF DestroyConnector, looper, socket, objects
<1>13. CASE RunConnect
  <2>1. (Before' <=> Before) /\ (Between' <=> Between)
    BY <1>13 DEF RunConnect, Before, Between, user
  <2>2. /\ queue \in Seq({"connect", "disconnect"}) /\ queue # <<>> /\ queue' = Tail(queue)
        /\ ~Before
    BY <1>13, <1>00 DEF OrderInv, RunConnect
  <2>3. Between => \A i \in DOMAIN queue' : queue'[i] # "disconnect"
    BY <1>00, <2>2, QueueShrinks
  <2> QED BY <1>13, <1>00, <2>1, <2>2, <2>3 DEF RunConnect, looper, socket, objects
<1>14. CASE ConnectFails
  <2>1. (Before' <=> Before) /\ (Between' <=> Between)
    BY <1>14 DEF ConnectFails, Before, Between, user
  <2> QED BY <1>14, <1>00, <2>1 DEF ConnectFails, looper, socket, objects
<1>15. CASE ConnectSucceeds
  <2>1. (Before' <=> Before) /\ (Between' <=> Between)
    BY <1>15 DEF ConnectSucceeds, OnNewConnection, Before, Between, user
  <2> QED BY <1>15, <1>00, <2>1 DEF ConnectSucceeds, OnNewConnection, looper, socket, objects
<1>16. CASE Handler
  <2>1. (Before' <=> Before) /\ (Between' <=> Between)
    BY <1>16 DEF Handler, Before, Between, user
  <2> QED BY <1>16, <1>00, <2>1 DEF Handler, looper, socket, objects
<1>17. CASE RunDisconnect
  <2>1. (Before' <=> Before) /\ (Between' <=> Between)
    BY <1>17 DEF RunDisconnect, Before, Between, user
  <2>2. /\ queue \in Seq({"connect", "disconnect"}) /\ queue # <<>> /\ Head(queue) = "disconnect"
        /\ ~Before
    BY <1>17, <1>00 DEF OrderInv, RunDisconnect
  <2>3. ~Between
    <3>1. 1 \in DOMAIN queue /\ queue[1] = "disconnect"
      BY <2>2
    <3> QED BY <1>00, <3>1
  <2> QED BY <1>17, <1>00, <2>1, <2>2, <2>3 DEF RunDisconnect, looper, socket, objects
<1>18. CASE HandleRead
  <2>1. (Before' <=> Before) /\ (Between' <=> Between)
    BY <1>18 DEF HandleRead, Before, Between, user
  <2> QED BY <1>18, <1>00, <2>1 DEF HandleRead, looper, socket, objects
<1>19. CASE LoopEnds
  <2>1. (Before' <=> Before) /\ (Between' <=> Between)
    BY <1>19 DEF LoopEnds, Before, Between, user
  <2> QED BY <1>19, <1>00, <2>1 DEF LoopEnds, looper, socket, objects
<1>20. CASE Release
  <2>1. ~Between /\ ~Between' /\ ~Before'
    BY <1>20 DEF Release, Before, Between
  <2> QED BY <1>20, <1>00, <2>1 DEF Release, DestroyConnection, looper
<1>21. CASE OtherOpens
  <2>1. (Before' <=> Before) /\ (Between' <=> Between)
    BY <1>21 DEF OtherOpens, Before, Between, user
  <2> QED BY <1>21, <1>00, <2>1 DEF OtherOpens, looper, socket, objects
<1>22. CASE PeerSend
  <2>1. (Before' <=> Before) /\ (Between' <=> Between)
    BY <1>22 DEF PeerSend, Before, Between, user
  <2> QED BY <1>22, <1>00, <2>1 DEF PeerSend, looper, socket, objects
<1>23. CASE UNCHANGED clientVars
  <2>1. (Before' <=> Before) /\ (Between' <=> Between)
    BY <1>23 DEF clientVars, Before, Between, user
  <2> QED BY <1>23, <1>00, <2>1 DEF clientVars, looper, socket, objects
<1> QED BY <1>1, <1>2, <1>3, <1>4, <1>5, <1>6, <1>7, <1>8, <1>9, <1>10, <1>11, <1>12, <1>13,
           <1>14, <1>15, <1>16, <1>17, <1>18, <1>19, <1>20, <1>21, <1>22, <1>23
       DEF ClientNext, Statement, Looping

------------------------------------------------------------------------------
(* The client: theorems                                                       *)

LEMMA OrderKept == ClientSafety => []OrderInv
  BY OrderInitially, OrderStep, PTL DEF ClientSafety

\* TcpClient::stopWork, however often the client is started and whatever its
\* handler does: the descriptor is closed, or the closure that closes it is the
\* last of those the looper's end has left.
THEOREM ClosedOrLeft == ClientSafety => []ClosedOrOvertaken
<1>1. OrderInv => ClosedOrOvertaken
  <2> SUFFICES ASSUME OrderInv,
                      phase \in {"stopped", "destroyed"}, todo = <<>> \/ phase = "destroyed", starts > 0
               PROVE  ~opened \/ (queue # <<>> /\ queue[Len(queue)] = "disconnect")
    BY DEF ClosedOrOvertaken
  <2>1. Posted
    BY TodosDiffer DEF OrderInv, CallInv, Posted, StopTodo, GoneTodo
  <2> QED BY <2>1 DEF OrderInv
<1> QED BY <1>1, OrderKept, PTL

\* TcpConnector::connectInternal, in general: the connection is handed over on
\* an open descriptor, and not after stopWork has come back.
THEOREM HandedOverInTime == ClientSafety => HandedOverOpen
<1>1. OrderInv /\ [ClientNext]_clientVars =>
        (conn = "none" /\ conn' # "none" =>
           fd = "own" /\ opened /\ lpc = "connecting" /\ ~(phase = "stopped" /\ todo = <<>>))
  <2> SUFFICES ASSUME OrderInv, [ClientNext]_clientVars, conn = "none", conn' # "none"
               PROVE  fd = "own" /\ opened /\ lpc = "connecting" /\ ~(phase = "stopped" /\ todo = <<>>)
    OBVIOUS
  <2>1. ConnectSucceeds
    BY DEF ClientNext, clientVars, StartWork, StopWork, Destroy, Statement, Thread,
       AttachConnector, Connect, PostClosure, DetachConnector, Disconnect, StopLoop, Join,
       DropConnection, DestroyConnector, DestroyConnection, Looping, RunConnect, ConnectFails,
       Handler, RunDisconnect, HandleRead, LoopEnds, Release, OtherOpens, PeerSend, objects
  <2> QED BY <2>1 DEF ConnectSucceeds, OnNewConnection, OrderInv, Joined
<1> QED BY <1>1, OrderKept, PTL DEF ClientSafety, HandedOverOpen

\* TcpClient with a handler that does not attach the connection: no assertion
\* fails, from the first startWork to the destructor, until a second startWork.
THEOREM NoFailureInOneStart ==
  ASSUME ~AttachInHandler
  PROVE  ClientSafety => [](starts <= 1 => NoAssertFailure)
<1>1. ClientInit => AttachInv
  BY AttachInitially
<1>2. OrderInv /\ AttachInv /\ [ClientNext]_clientVars => AttachInv'
  BY AttachStep
<1>3. AttachInv => (starts <= 1 => NoAssertFailure)
  BY DEF AttachInv, NoAssertFailure
<1> QED BY <1>1, <1>2, <1>3, OrderKept, PTL DEF ClientSafety
==============================================================================
