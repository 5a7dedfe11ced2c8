--------------------------- MODULE MultiplexLooper ---------------------------
(* src/include/MultiplexLooper.hpp, src/MultiplexLooper.cpp: one event loop.  *)
(* Any thread posts closures (postRunnable, postRunnablePopStack), wakes the  *)
(* loop (wakeup) or stops it (stopLoop); the loop's thread sits in epoll_wait *)
(* and runs what was posted.  The two eventfds are registered edge triggered, *)
(* so a wakeup that is consumed too early is never reported again: the        *)
(* module is about the order of push, write, read, swap and flag.             *)
(* A definition introduced as "Faulty" is not part of the model: it is a      *)
(* wrong version of the definition after it that a property has to reject.    *)
(*                                                                            *)
(* The mutex _rqMutex guards exactly one statement on each side (a push_back, *)
(* a swap), so each of these is one step.  Channels other than the two        *)
(* eventfds are not here: TcpServer models them.                              *)
EXTENDS Naturals, Sequences, FiniteSets

CONSTANTS
  Posters,      \* threads other than the loop's own
  LoopThread,   \* the thread that calls startLoop
  Runnables,    \* closures; each is posted at most once
  MaxCalls      \* bound: calls of stopLoop and wakeup together

ASSUME LoopAssumption ==
  /\ LoopThread \notin Posters
  /\ MaxCalls \in Nat

Threads == Posters \cup {LoopThread}
Chans == {"wakeup", "runnable"}       \* _wakeupChan, _runnableChan

VARIABLES
  \* -- shared memory and kernel state
  runnables,    \* _runnables
  looping,      \* _looping
  counter,      \* the 64 bit counter of each eventfd
  ready,        \* epoll's ready list: eventfds written since they were reported
  \* -- the loop's thread
  loopPc,       \* where startLoop is
  events,       \* events of the last epoll_wait that are not dispatched yet
  batch,        \* executeRunnables' local vector, from element i on
  \* -- the callers
  pc,           \* where each thread is inside a call
  calls,        \* stopLoop and wakeup calls made
  \* -- history
  posted,       \* runnables pushed, in the order of the pushes
  executed,     \* runnables run by executeRunnables, in order
  inlined       \* runnables run by postRunnable itself

shared == <<runnables, looping, counter, ready>>
loop == <<loopPc, events, batch>>
history == <<posted, executed, inlined>>
vars == <<runnables, looping, counter, ready, loopPc, events, batch,
          pc, calls, posted, executed, inlined>>

LoopPcs == {"start", "check", "wait", "dispatch", "swap", "run", "body",
            "exited", "aborted"}

Init ==
  /\ runnables = <<>> /\ looping = TRUE
  /\ counter = [c \in Chans |-> 0] /\ ready = {}
  /\ loopPc = "start" /\ events = {} /\ batch = <<>>
  /\ pc = [t \in Threads |-> "idle"] /\ calls = 0
  /\ posted = <<>> /\ executed = <<>> /\ inlined = {}

------------------------------------------------------------------------------
(* The loop's thread *)

StartLoop ==
  /\ loopPc = "start" /\ pc[LoopThread] = "idle"
  /\ loopPc' = "check"
  /\ UNCHANGED <<shared, events, batch, pc, calls, history>>

\* while(_looping)
CheckLooping ==
  /\ loopPc = "check"
  /\ loopPc' = IF looping THEN "wait" ELSE "exited"
  /\ UNCHANGED <<shared, events, batch, pc, calls, history>>

\* epoll_wait: blocks until an eventfd on the ready list is readable; all of
\* them fit the 20 entries of the array; EPOLLET takes them off the list.
EpollWait ==
  /\ loopPc = "wait"
  /\ \E c \in ready : counter[c] > 0
  /\ events' = {c \in ready : counter[c] > 0}
  /\ ready' = {}
  /\ loopPc' = "dispatch"
  /\ UNCHANGED <<runnables, looping, counter, batch, pc, calls, history>>

\* EventChannel::handleRead: the read resets the counter, and CHKRET ends the
\* program if it would block; only _runnableChan has a handler to call.
EventRead(c) ==
  /\ loopPc = "dispatch" /\ c \in events
  /\ events' = events \ {c}
  /\ counter' = [counter EXCEPT ![c] = 0]
  /\ loopPc' = IF counter[c] = 0 THEN "aborted"
               ELSE IF c = "runnable" THEN "swap" ELSE "dispatch"
  /\ UNCHANGED <<runnables, looping, ready, batch, pc, calls, history>>

DispatchDone ==
  /\ loopPc = "dispatch" /\ events = {}
  /\ loopPc' = "check"
  /\ UNCHANGED <<shared, events, batch, pc, calls, history>>

\* executeRunnables, the part under the lock
Swap ==
  /\ loopPc = "swap"
  /\ batch' = runnables
  /\ runnables' = <<>>
  /\ loopPc' = "run"
  /\ UNCHANGED <<looping, counter, ready, events, pc, calls, history>>

RunOne ==
  /\ loopPc = "run" /\ batch # <<>>
  /\ executed' = Append(executed, Head(batch))
  /\ batch' = Tail(batch)
  /\ loopPc' = "body"
  /\ UNCHANGED <<shared, events, pc, calls, posted, inlined>>

\* runnables[i]() returns
BodyDone ==
  /\ loopPc = "body" /\ pc[LoopThread] = "idle"
  /\ loopPc' = "run"
  /\ UNCHANGED <<shared, events, batch, pc, calls, history>>

\* Faulty: i < size() - 1.
RunDoneEarly ==
  /\ loopPc = "run" /\ Len(batch) <= 1
  /\ loopPc' = "dispatch"
  /\ UNCHANGED <<shared, events, batch, pc, calls, history>>

RunDone ==
  /\ loopPc = "run" /\ batch = <<>>
  /\ loopPc' = "dispatch"
  /\ UNCHANGED <<shared, events, batch, pc, calls, history>>

LoopStep ==
  \/ StartLoop \/ CheckLooping \/ EpollWait \/ DispatchDone
  \/ Swap \/ RunOne \/ BodyDone \/ RunDone
  \/ \E c \in Chans : EventRead(c)

------------------------------------------------------------------------------
(* Calls, from any thread; the loop's own thread makes them before startLoop, *)
(* from inside a runnable, or after the loop is over.                         *)

MayCall(t) ==
  /\ pc[t] = "idle"
  /\ t = LoopThread => loopPc \in {"start", "body", "exited"}
  /\ loopPc # "aborted"

Fresh(r) == r \notin inlined /\ \A i \in DOMAIN posted : posted[i] # r

\* EventChannel::wakeup: eventfd write, which puts the channel on the ready list
Signal(c) ==
  /\ counter' = [counter EXCEPT ![c] = @ + 1]
  /\ ready' = ready \cup {c}

\* postRunnable from another thread, postRunnablePopStack from any: push_back
\* under the lock, then wake _runnableChan outside it.
Push(t, r) ==
  /\ MayCall(t) /\ Fresh(r)
  /\ runnables' = Append(runnables, r)
  /\ posted' = Append(posted, r)
  /\ pc' = [pc EXCEPT ![t] = "pushed"]
  /\ UNCHANGED <<looping, counter, ready, loop, calls, executed, inlined>>

\* Faulty: no write when the loop looks awake.
PushWakesSleeper(t) ==
  /\ pc[t] = "pushed"
  /\ IF loopPc = "wait" THEN Signal("runnable") ELSE UNCHANGED <<counter, ready>>
  /\ pc' = [pc EXCEPT ![t] = "idle"]
  /\ UNCHANGED <<runnables, looping, loop, calls, history>>

PushWakeup(t) ==
  /\ pc[t] = "pushed"
  /\ Signal("runnable")
  /\ pc' = [pc EXCEPT ![t] = "idle"]
  /\ UNCHANGED <<runnables, looping, loop, calls, history>>

\* postRunnable when this_thread is _threadId, which startLoop has set
PostInline(r) ==
  /\ MayCall(LoopThread) /\ loopPc # "start" /\ Fresh(r)
  /\ inlined' = inlined \cup {r}
  /\ UNCHANGED <<shared, loop, pc, calls, posted, executed>>

\* Faulty: the flag alone.
StopFlagOnly(t) ==
  /\ MayCall(t) /\ calls < MaxCalls
  /\ looping' = FALSE
  /\ calls' = calls + 1
  /\ UNCHANGED <<runnables, counter, ready, loop, pc, history>>

\* stopLoop: _looping = false, then wakeup()
StopFlag(t) ==
  /\ MayCall(t) /\ calls < MaxCalls
  /\ looping' = FALSE
  /\ calls' = calls + 1
  /\ pc' = [pc EXCEPT ![t] = "waking"]
  /\ UNCHANGED <<runnables, counter, ready, loop, history>>

\* wakeup() called on its own
CallWakeup(t) ==
  /\ MayCall(t) /\ calls < MaxCalls
  /\ calls' = calls + 1
  /\ pc' = [pc EXCEPT ![t] = "waking"]
  /\ UNCHANGED <<shared, loop, history>>

WakeupWrite(t) ==
  /\ pc[t] = "waking"
  /\ Signal("wakeup")
  /\ pc' = [pc EXCEPT ![t] = "idle"]
  /\ UNCHANGED <<runnables, looping, loop, calls, history>>

CallEnd(t) == PushWakeup(t) \/ WakeupWrite(t)

ThreadStep(t) ==
  \/ \E r \in Runnables : Push(t, r)
  \/ StopFlag(t) \/ CallWakeup(t) \/ CallEnd(t)

Next ==
  \/ LoopStep
  \/ \E t \in Threads : ThreadStep(t)
  \/ \E r \in Runnables : PostInline(r)

(* The loop's thread and a thread inside a call keep running; nobody is       *)
(* obliged to call anything.                                                  *)
Fairness ==
  /\ WF_vars(LoopStep)
  /\ \A t \in Threads : WF_vars(CallEnd(t))

SafetySpec == Init /\ [][Next]_vars
Spec == SafetySpec /\ Fairness

------------------------------------------------------------------------------
(* Properties *)

TypeOK ==
  /\ runnables \in Seq(Runnables)
  /\ looping \in BOOLEAN
  /\ counter \in [Chans -> Nat]
  /\ ready \in SUBSET Chans
  /\ loopPc \in LoopPcs
  /\ events \in SUBSET Chans
  /\ batch \in Seq(Runnables)
  /\ pc \in [Threads -> {"idle", "pushed", "waking"}]
  /\ calls \in 0..MaxCalls
  /\ posted \in Seq(Runnables)
  /\ executed \in Seq(Runnables)
  /\ inlined \in SUBSET Runnables

\* Nothing posted is lost, duplicated or reordered between push_back, swap and
\* the loop over the local vector (executeRunnables).
QueueConserved == (executed \o batch) \o runnables = posted

\* The wakeup for a queued runnable is never consumed before the swap: while
\* something is queued, its poster has still to write the eventfd, or the
\* eventfd is readable with an edge epoll reports, or the swap is next.
NoLostWakeup ==
  runnables # <<>> =>
    \/ \E t \in Threads : pc[t] = "pushed"
    \/ counter["runnable"] > 0 /\ "runnable" \in ready \cup events
    \/ loopPc = "swap"

\* A loop that goes to sleep after stopLoop cleared _looping is going to be
\* woken: the flag is cleared before the eventfd is written.
NoLostStop ==
  ~looping /\ loopPc = "wait" =>
    \/ \E t \in Threads : pc[t] = "waking"
    \/ counter["wakeup"] > 0 /\ "wakeup" \in ready

\* CHKRET(::read(...)) in EventChannel::handleRead never fails: an event that
\* epoll_wait reported is still readable when it is dispatched, although the
\* runnables of the same round run in between.
EventReadNeverBlocks ==
  /\ \A c \in events : counter[c] > 0
  /\ loopPc # "aborted"

\* The local vector and the event array live only inside their loops.
LocalsScoped ==
  /\ batch # <<>> => loopPc \in {"run", "body"}
  /\ events # {} => loopPc \in {"dispatch", "swap", "run", "body"}
  /\ loopPc # "start" /\ pc[LoopThread] # "idle" => loopPc \in {"body", "exited"}

\* The inductive invariant of MultiplexLooper_proofs.
LoopInv ==
  /\ TypeOK
  /\ LocalsScoped
  /\ QueueConserved
  /\ NoLostWakeup
  /\ NoLostStop
  /\ EventReadNeverBlocks

\* The loop implements the mailbox: what is in the local vector comes before
\* what is still in _runnables.
Mail == INSTANCE Mailbox WITH
          pending <- batch \o runnables,
          done <- executed,
          inline <- inlined,
          closed <- loopPc \in {"exited", "aborted"}

MailboxSafety == Mail!SafetySpec
MailboxSpec == Mail!Spec

\* stopLoop ends the loop, from whatever thread and in whatever state of the
\* loop it is called.
StopEndsLoop == ~looping ~> loopPc = "exited"
==============================================================================
