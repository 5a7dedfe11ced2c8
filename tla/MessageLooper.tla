---------------------------- MODULE MessageLooper ----------------------------
(* src/include/MessageLooper.hpp and src/MessageLooper.cpp: a queue of        *)
(* messages under a mutex and a condition variable.  The looper holds the     *)
(* mutex while it handles a message, so that posting threads wait for it.     *)
(* Handlers do not post to their own looper: the mutex is not recursive.      *)
(* A message is its number in the order of posting, with where it was put and *)
(* its what; a looper that gets other messages than functors has a _handler.  *)
(* A definition introduced as "Faulty" is a wrong version of the definition   *)
(* after it that a property has to reject.                                    *)
EXTENDS Integers, Sequences

CONSTANTS
  Posters,       \* threads that post
  Looper,        \* the thread in startLoop
  None,          \* no thread, no message
  MaxPosts       \* bound: messages posted

ASSUME MessageAssumption ==
  /\ Looper \notin Posters /\ None \notin Posters \cup {Looper}
  /\ MaxPosts \in Nat

VARIABLES
  lock,          \* the owner of _mutex, or None
  mq,            \* _mq
  asleep,        \* the looper is in _cond.wait and was not notified
  pc,            \* the looper: "lock", "test", "wait", "handle", "done"
  current,       \* upMsg
  call,          \* the arguments of a thread inside postMessage, or None
  posted,        \* history: messages pushed so far
  handled        \* history: messages handled, in that order

vars == <<lock, mq, asleep, pc, current, call, posted, handled>>

MSG_TERM == -1
MSG_FUNC == 0

\* A functor has the what MSG_FUNC, and only a functor; any other what is the
\* caller's, positive for the handler and negative for the end of the loop.
What == {MSG_TERM, MSG_FUNC, 1}
Calls == [what : What, first : BOOLEAN]
Messages == [id : 1 .. MaxPosts, what : What, first : BOOLEAN]

Init ==
  /\ lock = None /\ mq = <<>> /\ asleep = FALSE
  /\ pc = "lock" /\ current = None
  /\ call = [p \in Posters |-> None]
  /\ posted = 0 /\ handled = <<>>

------------------------------------------------------------------------------
(* Posting threads *)

\* A thread is on its way into postMessage with a message.
Call(p, what, first) ==
  /\ call[p] = None
  /\ call' = [call EXCEPT ![p] = [what |-> what, first |-> first]]
  /\ UNCHANGED <<lock, mq, asleep, pc, current, posted, handled>>

PostFunctor(p) == \E first \in BOOLEAN : Call(p, MSG_FUNC, first)
PostMessage(p) == \E what \in What \ {MSG_FUNC}, first \in BOOLEAN : Call(p, what, first)
StopLoop(p) == \E immediate \in BOOLEAN : Call(p, MSG_TERM, immediate)

\* Faulty: a message that goes first does not wake the looper.
PushSilently(p) ==
  /\ call[p] # None /\ lock = None /\ posted < MaxPosts
  /\ LET m == [id |-> posted + 1, what |-> call[p].what, first |-> call[p].first]
     IN  mq' = IF m.first THEN <<m>> \o mq ELSE Append(mq, m)
  /\ asleep' = (asleep /\ call[p].first)
  /\ posted' = posted + 1
  /\ call' = [call EXCEPT ![p] = None]
  /\ UNCHANGED <<lock, pc, current, handled>>

\* Faulty: every message goes first.
PushFront(p) ==
  /\ call[p] # None /\ lock = None /\ posted < MaxPosts
  /\ LET m == [id |-> posted + 1, what |-> call[p].what, first |-> call[p].first]
     IN  mq' = <<m>> \o mq
  /\ asleep' = FALSE
  /\ posted' = posted + 1
  /\ call' = [call EXCEPT ![p] = None]
  /\ UNCHANGED <<lock, pc, current, handled>>

\* postMessage under the mutex: push and notify_all.
Push(p) ==
  /\ call[p] # None /\ lock = None /\ posted < MaxPosts
  /\ LET m == [id |-> posted + 1, what |-> call[p].what, first |-> call[p].first]
     IN  mq' = IF m.first THEN <<m>> \o mq ELSE Append(mq, m)
  /\ asleep' = FALSE
  /\ posted' = posted + 1
  /\ call' = [call EXCEPT ![p] = None]
  /\ UNCHANGED <<lock, pc, current, handled>>

------------------------------------------------------------------------------
(* startLoop *)

Lock ==
  /\ pc = "lock" /\ lock = None
  /\ lock' = Looper /\ pc' = "test"
  /\ UNCHANGED <<mq, asleep, current, call, posted, handled>>

\* Faulty: the looper sleeps with the mutex.
WaitLocked ==
  /\ pc = "test" /\ mq = <<>>
  /\ lock' = lock /\ asleep' = TRUE /\ pc' = "wait"
  /\ UNCHANGED <<mq, current, call, posted, handled>>

\* _cond.wait releases the mutex and sleeps in one step.
Wait ==
  /\ pc = "test" /\ mq = <<>>
  /\ lock' = None /\ asleep' = TRUE /\ pc' = "wait"
  /\ UNCHANGED <<mq, current, call, posted, handled>>

\* A wakeup without notify_all.
Spurious ==
  /\ pc = "wait" /\ asleep /\ asleep' = FALSE
  /\ UNCHANGED <<lock, mq, pc, current, call, posted, handled>>

\* _cond.wait takes the mutex again, and the looper tests the queue again.
Wake ==
  /\ pc = "wait" /\ ~asleep /\ lock = None
  /\ lock' = Looper /\ pc' = "test"
  /\ UNCHANGED <<mq, asleep, current, call, posted, handled>>

\* The message in front is taken; a negative what ends the loop and frees the
\* mutex.
Take ==
  /\ pc = "test" /\ mq # <<>>
  /\ current' = Head(mq) /\ mq' = Tail(mq)
  /\ pc' = IF current'.what < 0 THEN "done" ELSE "handle"
  /\ lock' = IF current'.what < 0 THEN None ELSE lock
  /\ UNCHANGED <<asleep, call, posted, handled>>

\* The handler or functor returns, and the mutex is free until the next round.
Handled ==
  /\ pc = "handle"
  /\ handled' = Append(handled, current)
  /\ lock' = None /\ pc' = "lock"
  /\ UNCHANGED <<mq, asleep, current, call, posted>>

StartLoop == Lock \/ Wait \/ Wake \/ Take \/ Handled

\* The looper is gone, or waits, and no thread can post any more.
Quiet ==
  /\ posted = MaxPosts /\ \A p \in Posters : call[p] # None
  /\ pc = "done" \/ asleep
  /\ UNCHANGED vars

Next ==
  \/ \E p \in Posters : PostFunctor(p) \/ PostMessage(p) \/ StopLoop(p) \/ Push(p)
  \/ StartLoop \/ Spurious \/ Quiet

SafetySpec == Init /\ [][Next]_vars
\* The mutex is weakly fair, and spurious wakeups come to an end.
Spec ==
  /\ SafetySpec /\ WF_vars(StartLoop)
  /\ <>[][~Spurious]_vars
  /\ \A p \in Posters : WF_vars(Push(p))

------------------------------------------------------------------------------
(* Properties *)

TypeOK ==
  /\ lock \in {Looper, None} /\ asleep \in BOOLEAN
  /\ mq \in Seq(Messages) /\ handled \in Seq(Messages)
  /\ pc \in {"lock", "test", "wait", "handle", "done"}
  /\ current \in IF pc \in {"handle", "done"} THEN Messages ELSE Messages \cup {None}
  /\ call \in [Posters -> Calls \cup {None}]
  /\ posted \in 0 .. MaxPosts
  /\ lock = Looper <=> pc \in {"test", "handle"}

\* The looper does not sleep on a message: no notify_all falls between the test
\* of the queue and the sleep.
NoLostWakeup == pc = "wait" /\ asleep => mq = <<>>

\* Of two messages in s that were posted without first the earlier was posted
\* earlier.
InPostedOrder(s) ==
  \A i, j \in DOMAIN s :
    i < j /\ ~s[i].first /\ ~s[j].first => s[i].id < s[j].id

\* Messages posted without first are handled in the order of posting and none
\* twice, whoever posts messages that go first in between.
Mine == IF pc = "handle" THEN <<current>> ELSE <<>>
InOrder == InPostedOrder((handled \o Mine) \o mq)

\* n is the number of a message in s, of a message handled or being handled
Has(s, n) == \E i \in DOMAIN s : s[i].id = n
Seen(n) == Has(handled, n) \/ (pc = "handle" /\ current.id = n)

\* Until the looper ends every posted message is queued, handled or in between,
\* and numbers are given out once.
Accounted ==
  /\ \A s \in {handled, mq} : \A i \in DOMAIN s : s[i].id <= posted
  /\ pc = "handle" => current.id <= posted
  /\ pc # "done" => \A n \in 1 .. posted : Seen(n) \/ Has(mq, n)

\* Whatever was posted before a message that is queued behind is handled before.
WaitsBehind ==
  pc # "done" =>
    \A j \in DOMAIN mq : ~mq[j].first =>
      \A n \in 1 .. mq[j].id - 1 : Seen(n) \/ \E i \in 1 .. j - 1 : mq[i].id = n

\* Types, the mutex, the sleep, the order and the account together, as one
\* invariant.
LooperInv == TypeOK /\ NoLostWakeup /\ InOrder /\ Accounted /\ WaitsBehind

\* stopLoop() lets the looper finish: when it ends by a MSG_TERM that was put
\* behind, every message that was posted before has been handled.
StopDrains ==
  pc = "done" /\ ~current.first =>
    \A n \in 1 .. current.id - 1 : Has(handled, n)

\* A thread that posts gets the mutex: it is not kept by a looper that sleeps,
\* is busy with other messages or has ended.
CallsReturn ==
  \A p \in Posters :
    call[p] # None ~> call[p] = None \/ posted = MaxPosts

\* What is posted is handled, or the looper ends.
PostedIsHandled ==
  \A n \in 1 .. MaxPosts :
    posted >= n ~> pc = "done" \/ Has(handled, n)
==============================================================================
