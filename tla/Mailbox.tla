------------------------------- MODULE Mailbox -------------------------------
(* What MultiplexLooper promises the threads that post work to it, whatever   *)
(* epoll, eventfds and locks it is built from: posted runnables are run one   *)
(* after the other, in the order they were posted, each exactly once, until   *)
(* the loop is over; after that they are kept and never run.  A runnable      *)
(* given to postRunnable by the loop's own thread is run on the spot.         *)
EXTENDS Naturals, Sequences

CONSTANT Runnables      \* the closures that are ever posted

VARIABLES
  pending,   \* posted and not yet run, oldest first
  done,      \* run by the loop, in the order they were run
  inline,    \* run on the spot by the loop's own thread
  closed     \* the loop is over

vars == <<pending, done, inline, closed>>

Init ==
  /\ pending = <<>>
  /\ done = <<>>
  /\ inline = {}
  /\ closed = FALSE

Post(r) ==
  /\ pending' = Append(pending, r)
  /\ UNCHANGED <<done, inline, closed>>

RunInline(r) ==
  /\ inline' = inline \cup {r}
  /\ UNCHANGED <<pending, done, closed>>

RunHead ==
  /\ ~closed
  /\ pending # <<>>
  /\ done' = Append(done, Head(pending))
  /\ pending' = Tail(pending)
  /\ UNCHANGED <<inline, closed>>

Close ==
  /\ ~closed
  /\ closed' = TRUE
  /\ UNCHANGED <<pending, done, inline>>

Next ==
  \/ \E r \in Runnables : Post(r) \/ RunInline(r)
  \/ RunHead
  \/ Close

SafetySpec == Init /\ [][Next]_vars

\* The loop does not rest while something is posted and it is not over.
Spec == SafetySpec /\ WF_vars(RunHead)
==============================================================================
