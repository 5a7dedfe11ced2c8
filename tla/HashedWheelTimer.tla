-------------------------- MODULE HashedWheelTimer --------------------------
(* src/include/HashedWheelTimer.hpp and src/HashedWheelTimer.cpp, driven by   *)
(* the timerfd of src/include/TimerWrap.hpp.                                  *)
(*                                                                            *)
(* The kernel counts expirations of the timerfd; the looper reads the count   *)
(* and ticks the wheel once, whatever the count.  A tick walks one bucket and *)
(* may run a task in the middle of the walk; the task may add and cancel      *)
(* timeouts, also in the bucket being walked.  Everything but the clock runs  *)
(* on the looper's thread: the timer has no lock.                             *)
(* A definition introduced as "Faulty" is a wrong version of the definition   *)
(* after it that a property has to reject.                                    *)
EXTENDS Naturals, Sequences, SequencesExt

CONSTANTS
  Timeouts,        \* the HashedWheelTimeout objects
  None,            \* no timeout
  TicksPerWheel,   \* the wheel size asked for in the constructor
  MsPerTick,
  Delays,          \* expireMs arguments of addTimeout
  LastAdd,         \* bound: no timeout is added after this expiration
  LastClock,       \* bound: expirations of the timerfd
  MaxLost          \* bound: expirations read together with another one

ASSUME TimerAssumption ==
  /\ None \notin Timeouts
  /\ TicksPerWheel \in Nat
  /\ MsPerTick \in Nat \ {0}           \* ASSERT(_msPerTick > 0)
  /\ Delays \subseteq Nat
  /\ LastAdd \in Nat /\ LastClock \in Nat /\ MaxLost \in Nat

VARIABLES
  clock,           \* expirations of the timerfd so far
  unread,          \* expirations read() has not returned yet
  lost,            \* expirations that ticked nothing
  attached,        \* the timer's channel is in epoll
  ticked,          \* HashedWheelTimer::_ticked
  bucket,          \* _buckets: the lists of timeouts
  pos,             \* expireTimeouts' iterator, 0 outside tick()
  running,         \* the timeout whose task runs, or None
  rounds,          \* HashedWheelTimeout::_remainingRounds
  st,              \* HashedWheelTimeout::_state, "new" before addTimeout
  added,           \* history: clock and lost at addTimeout, its ticks, and
                   \* whether a task called it with an expiration unread
  ran              \* history: how often its task was called

timerVars == <<clock, unread, lost, attached, ticked, bucket, pos, running,
               rounds, st, added, ran>>

\* 1 << s
Shifted[s \in 0 .. TicksPerWheel] == IF s = 0 THEN 1 ELSE 2 * Shifted[s - 1]

\* calculateNormalizeShift: the smallest power of two that is large enough.
Wheel ==
  Shifted[CHOOSE s \in 0 .. TicksPerWheel :
            /\ Shifted[s] >= TicksPerWheel
            /\ \A r \in 0 .. s - 1 : Shifted[r] < TicksPerWheel]

Slot == ticked % Wheel

TimerInit ==
  /\ clock = 0 /\ unread = 0 /\ lost = 0 /\ attached = FALSE
  /\ ticked = 0
  /\ bucket = [b \in 0 .. Wheel - 1 |-> <<>>]
  /\ pos = 0 /\ running = None
  /\ rounds = [t \in Timeouts |-> 0]
  /\ st = [t \in Timeouts |-> "new"]
  /\ added = [t \in Timeouts |->
       [clock |-> 0, lost |-> 0, ticks |-> 0, behind |-> FALSE]]
  /\ ran = [t \in Timeouts |-> 0]

------------------------------------------------------------------------------
(* TimerWrap *)

\* The timerfd expires.
Clock ==
  /\ clock < LastClock
  /\ unread > 0 => lost + unread <= MaxLost
  /\ clock' = clock + 1 /\ unread' = unread + 1
  /\ UNCHANGED <<lost, attached, ticked, bucket, pos, running, rounds, st,
                 added, ran>>

\* startWork and stopWork of the owner, in the looper, between two ticks.
Attach ==
  /\ ~attached /\ attached' = TRUE
  /\ UNCHANGED <<clock, unread, lost, ticked, bucket, pos, running, rounds, st,
                 added, ran>>

Detach ==
  /\ attached /\ pos = 0 /\ attached' = FALSE
  /\ UNCHANGED <<clock, unread, lost, ticked, bucket, pos, running, rounds, st,
                 added, ran>>

\* handleRead: read() takes all expirations, and tick() begins.
HandleRead ==
  /\ attached /\ pos = 0 /\ unread > 0
  /\ unread' = 0 /\ lost' = lost + unread - 1
  /\ pos' = 1
  /\ UNCHANGED <<clock, attached, ticked, bucket, running, rounds, st, added, ran>>

------------------------------------------------------------------------------
(* HashedWheelTimer::tick: the walk over one bucket *)

Current == bucket[Slot][pos]
Walking == pos > 0 /\ running = None /\ pos <= Len(bucket[Slot])

\* Faulty: expire() without the compare and exchange of the state.
ExpireAlways ==
  /\ Walking /\ rounds[Current] = 0
  /\ running' = Current
  /\ st' = [st EXCEPT ![Current] = "expired"]
  /\ ran' = [ran EXCEPT ![Current] = @ + 1]
  /\ UNCHANGED <<clock, unread, lost, attached, ticked, bucket, pos, rounds,
                 added>>

\* No round is left: expire() runs the task of a timeout in ST_INIT.
Expire ==
  /\ Walking /\ rounds[Current] = 0 /\ st[Current] = "init"
  /\ running' = Current
  /\ st' = [st EXCEPT ![Current] = "expired"]
  /\ ran' = [ran EXCEPT ![Current] = @ + 1]
  /\ UNCHANGED <<clock, unread, lost, attached, ticked, bucket, pos, rounds,
                 added>>

\* Faulty: the iterator moves on after erase().
ReturnSkips ==
  /\ running # None
  /\ bucket' = [bucket EXCEPT ![Slot] = RemoveAt(@, pos)]
  /\ running' = None
  /\ pos' = pos + 1
  /\ UNCHANGED <<clock, unread, lost, attached, ticked, rounds, st, added, ran>>

\* The task returns, and its timeout leaves the list.
Return ==
  /\ running # None
  /\ bucket' = [bucket EXCEPT ![Slot] = RemoveAt(@, pos)]
  /\ running' = None
  /\ UNCHANGED <<clock, unread, lost, attached, ticked, pos, rounds, st, added, ran>>

\* A cancelled timeout leaves the list.
Drop ==
  /\ Walking /\ st[Current] = "cancelled"
  /\ bucket' = [bucket EXCEPT ![Slot] = RemoveAt(@, pos)]
  /\ UNCHANGED <<clock, unread, lost, attached, ticked, pos, running, rounds,
                 st, added, ran>>

\* decreaseRounds, and on to the next one.
Pass ==
  /\ Walking /\ rounds[Current] > 0 /\ st[Current] # "cancelled"
  /\ rounds' = [rounds EXCEPT ![Current] = @ - 1]
  /\ pos' = pos + 1
  /\ UNCHANGED <<clock, unread, lost, attached, ticked, bucket, running, st,
                 added, ran>>

\* Faulty: tick() without ++_ticked.
TickEndStays ==
  /\ pos > Len(bucket[Slot]) /\ running = None
  /\ ticked' = ticked /\ pos' = 0
  /\ UNCHANGED <<clock, unread, lost, attached, bucket, running, rounds, st,
                 added, ran>>

TickEnd ==
  /\ pos > Len(bucket[Slot]) /\ running = None
  /\ ticked' = ticked + 1 /\ pos' = 0
  /\ UNCHANGED <<clock, unread, lost, attached, bucket, running, rounds, st,
                 added, ran>>

Tick == Expire \/ Return \/ Drop \/ Pass \/ TickEnd

------------------------------------------------------------------------------
(* The timer's interface, for code in the looper: a task, or between ticks *)

Calling == pos = 0 \/ running # None

\* convertExpireMsToTicks
Ticks(ms) == (ms + MsPerTick - 1) \div MsPerTick

\* Faulty: the index does not count from the current tick.
IndexOfTicks(ticks) == ticks % Wheel

Index(ticks) == (ticks + Slot) % Wheel

\* HashedWheelTimeout's constructor (its state is set with those of the others)
NewTimeout(t, r) ==
  /\ st[t] = "new"
  /\ rounds' = [rounds EXCEPT ![t] = r]

\* addTimeout
Inserted(t, ms) ==
  /\ NewTimeout(t, Ticks(ms) \div Wheel)
  /\ bucket' = [bucket EXCEPT ![Index(Ticks(ms))] = Append(@, t)]
  /\ added' = [added EXCEPT ![t] =
       [clock |-> clock, lost |-> lost, ticks |-> Ticks(ms),
        behind |-> pos > 0 /\ unread > 0]]

AddTimeout ==
  /\ Calling /\ clock <= LastAdd
  /\ \E t \in Timeouts, ms \in Delays :
       Inserted(t, ms) /\ st' = [st EXCEPT ![t] = "init"]
  /\ UNCHANGED <<clock, unread, lost, attached, ticked, pos, running, ran>>

\* HashedWheelTimeout::cancel, also of a timeout whose task is over.  A task
\* does not cancel its own timeout: that would destroy the running function.
Cancel ==
  /\ Calling
  /\ \E t \in Timeouts \ {running} :
       /\ st[t] \notin {"new", "cancelled"}
       /\ st' = [st EXCEPT ![t] = "cancelled"]
  /\ UNCHANGED <<clock, unread, lost, attached, ticked, bucket, pos, running,
                 rounds, added, ran>>

Next ==
  \/ Clock \/ Attach \/ Detach \/ HandleRead \/ Tick
  \/ AddTimeout \/ Cancel

SafetySpec == TimerInit /\ [][Next]_timerVars

\* The owner that has stopped the timer starts it again in the end.
Spec ==
  /\ SafetySpec
  /\ WF_timerVars(Clock) /\ WF_timerVars(Tick)
  /\ SF_timerVars(HandleRead) /\ WF_timerVars(Attach)

------------------------------------------------------------------------------
(* Properties *)

TypeOK ==
  /\ clock \in 0 .. LastClock /\ unread \in Nat /\ lost \in Nat
  /\ attached \in BOOLEAN /\ ticked \in Nat
  /\ bucket \in [0 .. Wheel - 1 -> Seq(Timeouts)]
  /\ pos \in Nat /\ running \in Timeouts \cup {None}
  /\ rounds \in [Timeouts -> Nat]
  /\ st \in [Timeouts -> {"new", "init", "cancelled", "expired"}]
  /\ added \in [Timeouts ->
       [clock : Nat, lost : Nat, ticks : Nat, behind : BOOLEAN]]
  /\ ran \in [Timeouts -> 0 .. 1]

\* A task is called once at most, and never after its timeout was cancelled;
\* whatever other tasks do to the list while expireTimeouts walks it.
RunsOnceUncancelled ==
  [][\A t \in Timeouts : ran'[t] # ran[t] => st[t] = "init" /\ ran[t] = 0]_timerVars

\* No task runs before the timerfd has expired as often as its delay asks,
\* counted from the call of addTimeout; one less for a call from a task with an
\* expiration unread, because the next tick then begins at once.
NeverEarly ==
  [][\A t \in Timeouts : ran'[t] # ran[t] =>
       clock + (IF added[t].behind THEN 1 ELSE 0)
         >= added[t].clock + added[t].ticks]_timerVars

\* A timeout is late by the expirations handleRead lost or has not read yet,
\* and by no others: the walk that is due for it does not pass it by.
LateByLost ==
  \A t \in Timeouts :
    st[t] = "init" =>
      clock <= added[t].clock + added[t].ticks + 1 + unread
                 + (lost - added[t].lost)

\* A timeout that is added runs or is cancelled.
PendingEnds == \A t \in Timeouts : st[t] = "init" ~> st[t] # "init"
==============================================================================
