------------------------ MODULE MessageLooper_proofs ------------------------
(* LooperInv and StopDrains for any number of posting threads and messages.   *)
EXTENDS MessageLooper, TLAPS, SequenceTheorems

------------------------------------------------------------------------------
(* Sequences of messages *)

AllUpTo(s, n) == \A i \in DOMAIN s : s[i].id <= n

LEMMA MessageIds ==
  ASSUME NEW s \in Seq(Messages)
  PROVE  \A i \in DOMAIN s : s[i] \in Messages /\ s[i].id \in Nat
<1>1. \A i \in DOMAIN s : s[i] \in Messages
  OBVIOUS
<1>2. \A m \in Messages : m.id \in Nat
  BY MessageAssumption DEF Messages
<1> QED BY <1>1, <1>2

\* A message put behind the others is in order if its number is larger (Push).
LEMMA OrderBehind ==
  ASSUME NEW a \in Seq(Messages), NEW b \in Seq(Messages), NEW m \in Messages,
         NEW n \in Nat, InPostedOrder(a \o b), AllUpTo(a \o b, n), m.id > n
  PROVE  InPostedOrder(a \o Append(b, m))
<1> DEFINE s == a \o b
           t == a \o Append(b, m)
<1>1. /\ s \in Seq(Messages) /\ Len(s) \in Nat
      /\ DOMAIN s = 1 .. Len(s) /\ DOMAIN t = 1 .. Len(s) + 1
      /\ \A i \in 1 .. Len(s) : t[i] = s[i]
      /\ t[Len(s) + 1] = m
  OBVIOUS
<1>2. \A i \in DOMAIN s : s[i].id \in Nat /\ s[i].id <= n
  BY <1>1, MessageIds DEF AllUpTo
<1>3. m.id \in Nat
  BY MessageAssumption DEF Messages
<1>4. InPostedOrder(s)
  OBVIOUS
<1> HIDE DEF s, t
<1>5. InPostedOrder(t)
  BY <1>1, <1>2, <1>3, <1>4 DEF InPostedOrder
<1> QED BY <1>5 DEF t

\* A message that goes first disturbs no order, wherever it is put (Push).
LEMMA OrderFirst ==
  ASSUME NEW a \in Seq(Messages), NEW b \in Seq(Messages), NEW m \in Messages,
         InPostedOrder(a \o b), m.first
  PROVE  InPostedOrder(a \o (<<m>> \o b))
<1> DEFINE t == a \o (<<m>> \o b)
           old(i) == IF i <= Len(a) THEN i ELSE i - 1
<1>1. /\ Len(a) \in Nat /\ Len(b) \in Nat
      /\ DOMAIN (a \o b) = 1 .. Len(a) + Len(b)
      /\ DOMAIN t = 1 .. Len(a) + Len(b) + 1
      /\ t[Len(a) + 1] = m
  OBVIOUS
<1>2. \A i \in DOMAIN t : i # Len(a) + 1 => t[i] = (a \o b)[old(i)]
  OBVIOUS
<1> SUFFICES ASSUME NEW i \in DOMAIN t, NEW j \in DOMAIN t, i < j,
                    ~t[i].first, ~t[j].first
             PROVE  t[i].id < t[j].id
  BY DEF InPostedOrder
<1> HIDE DEF t
<1>3. old(i) \in DOMAIN (a \o b) /\ old(j) \in DOMAIN (a \o b) /\ old(i) < old(j)
  BY <1>1
<1>4. t[i] = (a \o b)[old(i)] /\ t[j] = (a \o b)[old(j)]
  BY <1>1, <1>2
<1> HIDE DEF old
<1> QED BY <1>3, <1>4 DEF InPostedOrder

\* A message that is left out disturbs no order (Take).
LEMMA OrderWithout ==
  ASSUME NEW a \in Seq(Messages), NEW b \in Seq(Messages), b # <<>>,
         InPostedOrder(a \o b)
  PROVE  InPostedOrder(a \o Tail(b))
<1> DEFINE t == a \o Tail(b)
           old(i) == IF i <= Len(a) THEN i ELSE i + 1
<1>1. /\ Len(a) \in Nat /\ Len(b) \in Nat \ {0}
      /\ DOMAIN (a \o b) = 1 .. Len(a) + Len(b)
      /\ DOMAIN t = 1 .. Len(a) + Len(b) - 1
  OBVIOUS
<1>2. \A i \in DOMAIN t : t[i] = (a \o b)[old(i)]
  OBVIOUS
<1> SUFFICES ASSUME NEW i \in DOMAIN t, NEW j \in DOMAIN t, i < j,
                    ~t[i].first, ~t[j].first
             PROVE  t[i].id < t[j].id
  BY DEF InPostedOrder
<1> HIDE DEF t
<1>3. old(i) \in DOMAIN (a \o b) /\ old(j) \in DOMAIN (a \o b) /\ old(i) < old(j)
  BY <1>1
<1>4. t[i] = (a \o b)[old(i)] /\ t[j] = (a \o b)[old(j)]
  BY <1>2
<1> HIDE DEF old
<1> QED BY <1>3, <1>4 DEF InPostedOrder

------------------------------------------------------------------------------
(* The invariant *)

USE DEF vars

IInv == LooperInv /\ StopDrains

LEMMA InitInv == Init => IInv
<1> SUFFICES ASSUME Init PROVE IInv
  OBVIOUS
<1>1. TypeOK
  <2>1. call \in [Posters -> Calls \cup {None}]
    BY DEF Init
  <2>2. posted \in 0 .. MaxPosts
    BY MessageAssumption DEF Init
  <2>3. lock \in {Looper, None} /\ (lock = Looper <=> pc \in {"test", "handle"})
    BY MessageAssumption DEF Init
  <2>4. mq \in Seq(Messages) /\ handled \in Seq(Messages)
    BY EmptySeq DEF Init
  <2>5. /\ pc \in {"lock", "test", "wait", "handle", "done"} /\ asleep \in BOOLEAN
        /\ current \in IF pc \in {"handle", "done"} THEN Messages
                      ELSE Messages \cup {None}
    BY DEF Init
  <2> QED BY <2>1, <2>2, <2>3, <2>4, <2>5 DEF TypeOK
<1>2. (handled \o Mine) \o mq = <<>>
  BY DEF Init, Mine
<1>3. InOrder
  BY <1>2 DEF InOrder, InPostedOrder
<1> QED
  BY <1>1, <1>3 DEF Init, IInv, LooperInv, NoLostWakeup, Accounted, WaitsBehind, StopDrains

\* Every call is one of Call with a message's what.
LEMMA CallsAreCalls ==
  ASSUME NEW p \in Posters, PostFunctor(p) \/ PostMessage(p) \/ StopLoop(p)
  PROVE  \E what \in What, first \in BOOLEAN : Call(p, what, first)
BY DEF PostFunctor, PostMessage, StopLoop, What

\* Every step keeps the types and the mutex.
LEMMA TypeStep == TypeOK /\ [Next]_vars => TypeOK'
<1> SUFFICES ASSUME TypeOK, [Next]_vars PROVE TypeOK'
  OBVIOUS
<1> USE DEF TypeOK
<1>1. ASSUME NEW p \in Posters, NEW what \in What, NEW first \in BOOLEAN,
             Call(p, what, first)
      PROVE  TypeOK'
  BY <1>1 DEF Call, Calls
<1>2. ASSUME NEW p \in Posters, Push(p) PROVE TypeOK'
  <2> DEFINE m == [id |-> posted + 1, what |-> call[p].what, first |-> call[p].first]
  <2>1. call[p] \in Calls
    BY <1>2 DEF Push
  <2>2. posted + 1 \in 1 .. MaxPosts
    BY <1>2, MessageAssumption DEF Push
  <2>3. m \in Messages
    BY <2>1, <2>2 DEF Calls, Messages
  <2>4. mq' \in Seq(Messages)
    BY <1>2, <2>3 DEF Push
  <2>5. posted' \in 0 .. MaxPosts
    BY <1>2, <2>2 DEF Push
  <2> QED BY <1>2, <2>4, <2>5 DEF Push
<1>3. CASE Lock BY <1>3 DEF Lock
<1>4. CASE Wait BY <1>4, MessageAssumption DEF Wait
<1>5. CASE Wake BY <1>5 DEF Wake
<1>6. CASE Take
  <2>1. Head(mq) \in Messages /\ Tail(mq) \in Seq(Messages)
    BY <1>6 DEF Take
  <2> QED BY <1>6, <2>1, MessageAssumption DEF Take
<1>7. CASE Handled BY <1>7, MessageAssumption DEF Handled
<1>8. CASE Spurious BY <1>8 DEF Spurious
<1>9. CASE UNCHANGED vars BY <1>9
<1> QED BY <1>1, <1>2, <1>3, <1>4, <1>5, <1>6, <1>7, <1>8, <1>9,
              CallsAreCalls DEF Next, StartLoop, Quiet

\* No step lets the looper sleep on a message.
LEMMA WakeupStep == TypeOK /\ NoLostWakeup /\ [Next]_vars => NoLostWakeup'
  BY DEF TypeOK, NoLostWakeup, Next, StartLoop, PostFunctor, PostMessage, StopLoop,
         Call, Push, Lock, Wait, Wake, Take,
         Handled, Spurious, Quiet

\* The message a thread pushes, and what the push does with it.
Pushed(p) == [id |-> posted + 1, what |-> call[p].what, first |-> call[p].first]

LEMMA PushedMessage ==
  ASSUME TypeOK, NEW p \in Posters, Push(p)
  PROVE  /\ Pushed(p) \in Messages /\ Pushed(p).id = posted + 1 /\ posted \in Nat
         /\ mq' = IF Pushed(p).first THEN <<Pushed(p)>> \o mq ELSE Append(mq, Pushed(p))
         /\ posted' = posted + 1 /\ UNCHANGED <<pc, current, handled>>
<1>1. call[p] \in Calls
  BY DEF Push, TypeOK
<1>2. posted \in Nat /\ posted + 1 \in 1 .. MaxPosts
  BY MessageAssumption DEF Push, TypeOK
<1> QED BY <1>1, <1>2 DEF Calls, Messages, Pushed, Push

\* The concatenation of handled, mine and mq changes by a push and by the
\* MSG_TERM that is taken out, and in order.
LEMMA OrderStep == TypeOK /\ InOrder /\ Accounted /\ [Next]_vars => InOrder'
<1> SUFFICES ASSUME TypeOK, InOrder, Accounted, [Next]_vars PROVE InOrder'
  OBVIOUS
<1> USE DEF TypeOK, InOrder
<1> DEFINE Front == handled \o Mine
<1>0. /\ Mine \in Seq(Messages) /\ Front \in Seq(Messages)
      /\ mq \in Seq(Messages) /\ handled \in Seq(Messages)
  BY DEF Mine
<1>a. InPostedOrder(Front \o mq)
  OBVIOUS
<1>b. InPostedOrder(Front' \o mq') => InOrder'
  OBVIOUS
<1>1. ASSUME NEW p \in Posters, Push(p) PROVE InOrder'
  <2> DEFINE m == Pushed(p)
  <2>1. /\ m \in Messages /\ posted \in Nat /\ m.id = posted + 1
        /\ mq' = IF m.first THEN <<m>> \o mq ELSE Append(mq, m)
    BY <1>1, PushedMessage
  <2>2. Front' = Front
    BY <1>1 DEF Push, Mine
  <2>3. AllUpTo(Front \o mq, posted)
    <3>1. AllUpTo(handled, posted) /\ AllUpTo(Mine, posted) /\ AllUpTo(mq, posted)
      BY DEF Accounted, AllUpTo, Mine
    <3> QED BY <1>0, <3>1 DEF AllUpTo
  <2> HIDE DEF m, Front, TypeOK, InOrder
  <2>4. CASE m.first
    <3>1. mq' = <<m>> \o mq
      BY <2>1, <2>4
    <3>2. InPostedOrder(Front \o (<<m>> \o mq))
      BY <1>0, <1>a, <2>1, <2>4, OrderFirst, Zenon
    <3> QED BY <1>b, <2>2, <3>1, <3>2, Zenon
  <2>5. CASE ~m.first
    <3>1. mq' = Append(mq, m)
      BY <2>1, <2>5
    <3>2. m.id > posted
      BY <2>1
    <3>3. InPostedOrder(Front \o Append(mq, m))
      BY <1>0, <1>a, <2>1, <2>3, <3>2, OrderBehind, Zenon
    <3> QED BY <1>b, <2>2, <3>1, <3>3, Zenon
  <2> QED BY <2>4, <2>5
<1>2. CASE Take
  <2>1. Mine = <<>> /\ Front = handled
    BY <1>2 DEF Take, Mine
  <2>2. CASE Head(mq).what < 0
    <3>1. Front' = handled /\ mq' = Tail(mq)
      BY <1>2, <2>2 DEF Take, Mine
    <3>2. InPostedOrder(handled \o Tail(mq))
      BY <1>0, <1>2, <2>1, OrderWithout DEF Take
    <3> QED BY <3>1, <3>2
  <2>3. CASE ~(Head(mq).what < 0)
    <3>0. /\ current' = Head(mq) /\ mq' = Tail(mq) /\ handled' = handled
          /\ pc' = "handle"
      BY <1>2, <2>3 DEF Take
    <3>1. Front' = Append(handled, Head(mq)) /\ mq' = Tail(mq)
      <4>1. Mine' = <<Head(mq)>>
        BY <3>0 DEF Mine
      <4>2. Head(mq) \in Messages
        BY <1>0, <1>2 DEF Take
      <4>3. handled \o <<Head(mq)>> = Append(handled, Head(mq))
        BY <1>0, <4>2
      <4> QED BY <3>0, <4>1, <4>3
    <3>2. Append(handled, Head(mq)) \o Tail(mq) = handled \o mq
      <4>1. mq \in Seq(Messages) /\ handled \in Seq(Messages) /\ mq # <<>>
        BY <1>0, <1>2 DEF Take
      <4> QED BY ONLY <4>1
    <3>3. Front' \o mq' = Front \o mq
      BY ONLY <2>1, <3>1, <3>2, Zenon
    <3> QED BY <1>2, <2>1, <3>3 DEF Take
  <2> QED BY <2>2, <2>3
<1>3. CASE Handled
  <2>1. Front' = Front
    BY <1>0, <1>3 DEF Handled, Mine
  <2> QED BY <1>3, <2>1 DEF Handled
<1>4. CASE UNCHANGED <<handled, Mine, mq>>
  BY <1>4
<1> QED
  BY <1>1, <1>2, <1>3, <1>4
     DEF Next, StartLoop, PostFunctor, PostMessage, StopLoop, Call,
         Lock, Wait, Wake, Spurious, Quiet, Mine

\* Where the elements are after a push (Push) and what they number.
LEMMA BehindAt ==
  ASSUME NEW s \in Seq(Messages), NEW m \in Messages
  PROVE  /\ Len(s) \in Nat /\ DOMAIN s = 1 .. Len(s)
         /\ DOMAIN Append(s, m) = 1 .. Len(s) + 1
         /\ Append(s, m)[Len(s) + 1] = m
         /\ \A i \in DOMAIN s : Append(s, m)[i] = s[i]
  OBVIOUS

LEMMA FirstAt ==
  ASSUME NEW s \in Seq(Messages), NEW m \in Messages
  PROVE  /\ Len(s) \in Nat /\ DOMAIN s = 1 .. Len(s)
         /\ DOMAIN (<<m>> \o s) = 1 .. Len(s) + 1
         /\ (<<m>> \o s)[1] = m
         /\ \A i \in DOMAIN s : (<<m>> \o s)[i + 1] = s[i]
  OBVIOUS

LEMMA HasBehind ==
  ASSUME NEW s \in Seq(Messages), NEW m \in Messages, NEW n
  PROVE  Has(Append(s, m), n) <=> Has(s, n) \/ m.id = n
<1> DEFINE t == Append(s, m)
<1>1. /\ Len(s) \in Nat /\ DOMAIN s = 1 .. Len(s) /\ DOMAIN t = 1 .. Len(s) + 1
      /\ t[Len(s) + 1] = m /\ \A i \in DOMAIN s : t[i] = s[i]
  OBVIOUS
<1> HIDE DEF t
<1>2. Has(t, n) <=> Has(s, n) \/ m.id = n
  BY <1>1 DEF Has
<1> QED BY <1>2 DEF t

LEMMA HasFirst ==
  ASSUME NEW s \in Seq(Messages), NEW m \in Messages, NEW n
  PROVE  Has(<<m>> \o s, n) <=> Has(s, n) \/ m.id = n
<1> DEFINE t == <<m>> \o s
<1>1. /\ Len(s) \in Nat /\ DOMAIN s = 1 .. Len(s) /\ DOMAIN t = 1 .. Len(s) + 1
      /\ t[1] = m /\ \A i \in DOMAIN s : i + 1 \in DOMAIN t /\ t[i + 1] = s[i]
      /\ \A i \in DOMAIN t : i # 1 => i - 1 \in DOMAIN s /\ t[i] = s[i - 1]
  OBVIOUS
<1> HIDE DEF t
<1>2. Has(t, n) <=> Has(s, n) \/ m.id = n
  BY <1>1 DEF Has
<1> QED BY <1>2 DEF t

LEMMA HasHead ==
  ASSUME NEW s \in Seq(Messages), s # <<>>, NEW n
  PROVE  Has(s, n) <=> Has(Tail(s), n) \/ Head(s).id = n
<1> DEFINE t == Tail(s)
<1>1. /\ Len(s) \in Nat /\ DOMAIN s = 1 .. Len(s) /\ Head(s) = s[1] /\ 1 \in DOMAIN s
      /\ \A i \in DOMAIN t : i + 1 \in DOMAIN s /\ t[i] = s[i + 1]
      /\ \A i \in DOMAIN s : i # 1 => i - 1 \in DOMAIN t /\ s[i] = t[i - 1]
  OBVIOUS
<1> HIDE DEF t
<1>2. Has(s, n) <=> Has(t, n) \/ Head(s).id = n
  BY <1>1 DEF Has
<1> QED BY <1>2 DEF t

\* Each step either leaves alone what the account is about, or pushes, takes or
\* handles a message.
LEMMA AccountStep == TypeOK /\ Accounted /\ [Next]_vars => Accounted'
<1> SUFFICES ASSUME TypeOK, Accounted, [Next]_vars PROVE Accounted'
  OBVIOUS
<1> USE DEF Accounted, Seen
<1>0. /\ mq \in Seq(Messages) /\ handled \in Seq(Messages) /\ posted \in Nat
      /\ \A m \in Messages : m.id \in Nat
      /\ pc = "handle" => current \in Messages
  BY MessageAssumption DEF TypeOK, Messages
<1>1. ASSUME NEW p \in Posters, Push(p) PROVE Accounted'
  <2> DEFINE m == Pushed(p)
  <2>1. m \in Messages /\ m.id = posted + 1
    BY <1>1, PushedMessage
  <2>2. /\ mq' = IF m.first THEN <<m>> \o mq ELSE Append(mq, m)
        /\ posted' = posted + 1 /\ UNCHANGED <<pc, current, handled>>
    BY <1>1, PushedMessage
  <2> HIDE DEF m
  <2>3. \A n : Has(mq', n) <=> Has(mq, n) \/ n = posted + 1
    BY <1>0, <2>1, <2>2, HasFirst, HasBehind
  <2>4. \A i \in DOMAIN mq' : mq'[i].id <= posted'
    <3>1. SUFFICES ASSUME NEW i \in DOMAIN mq' PROVE mq'[i].id <= posted'
      OBVIOUS
    <3>2. Has(mq', mq'[i].id)
      BY DEF Has
    <3>3. Has(mq, mq'[i].id) \/ mq'[i].id = posted + 1
      BY <2>3, <3>2
    <3>4. Has(mq, mq'[i].id) => \E k \in DOMAIN mq : mq[k].id = mq'[i].id
      BY DEF Has
    <3>5. \A k \in DOMAIN mq : mq[k].id <= posted /\ mq[k].id \in Nat
      BY <1>0, MessageIds
    <3> QED BY <1>0, <2>2, <3>3, <3>4, <3>5
  <2>5. \A i \in DOMAIN handled' : handled'[i].id <= posted'
    <3>1. \A k \in DOMAIN handled : handled[k].id <= posted /\ handled[k].id \in Nat
      BY <1>0, MessageIds
    <3> QED BY <1>0, <2>2, <3>1
  <2>6. pc' = "handle" => current'.id <= posted'
    BY <1>0, <2>2
  <2>7. \A n \in 1 .. posted' : n \in 1 .. posted \/ n = posted + 1
    BY <1>0, <2>2
  <2> QED BY <2>2, <2>3, <2>4, <2>5, <2>6, <2>7
<1>2. CASE Take
  <2>1. \A n : Has(mq, n) <=> Has(mq', n) \/ current'.id = n
    BY <1>0, <1>2, HasHead DEF Take
  <2>2. \A i \in DOMAIN mq' : mq'[i].id <= posted'
    BY <1>0, <1>2 DEF Take
  <2>3. current'.id <= posted'
    BY <1>0, <1>2 DEF Take
  <2>4. UNCHANGED <<handled, posted>> /\ pc = "test" /\ pc' \in {"handle", "done"}
    BY <1>2 DEF Take
  <2> QED BY <2>1, <2>2, <2>3, <2>4
<1>3. CASE Handled
  <2>1. \A n : Has(handled', n) <=> Has(handled, n) \/ current.id = n
    BY <1>0, <1>3, HasBehind DEF Handled
  <2>2. \A i \in DOMAIN handled' : handled'[i].id <= posted'
    BY <1>0, <1>3 DEF Handled
  <2> QED BY <1>3, <2>1, <2>2 DEF Handled
<1>4. CASE /\ UNCHANGED <<handled, current, mq, posted>> /\ pc # "handle"
           /\ pc' # "handle" /\ (pc' = "done" <=> pc = "done")
  BY <1>4
<1>5. CASE UNCHANGED <<handled, current, mq, posted, pc>>
  BY <1>5
<1> QED
  BY <1>1, <1>2, <1>3, <1>4, <1>5
     DEF Next, StartLoop, PostFunctor, PostMessage, StopLoop, Call,
         Lock, Wait, Wake, Spurious, Quiet

\* What is ahead of a queued message stays ahead of it until it is seen.
LEMMA BehindStep == TypeOK /\ Accounted /\ WaitsBehind /\ [Next]_vars => WaitsBehind'
<1> SUFFICES ASSUME TypeOK, Accounted, WaitsBehind, [Next]_vars PROVE WaitsBehind'
  OBVIOUS
<1>0. /\ mq \in Seq(Messages) /\ handled \in Seq(Messages) /\ posted \in Nat
      /\ Len(mq) \in Nat /\ DOMAIN mq = 1 .. Len(mq)
      /\ pc = "handle" => current \in Messages
  BY MessageAssumption DEF TypeOK
<1>1. ASSUME NEW p \in Posters, Push(p) PROVE WaitsBehind'
  <2> DEFINE m == Pushed(p)
  <2>1. m \in Messages /\ m.id = posted + 1
    BY <1>1, PushedMessage
  <2>2. /\ mq' = IF m.first THEN <<m>> \o mq ELSE Append(mq, m)
        /\ posted' = posted + 1 /\ UNCHANGED <<pc, current, handled>>
    BY <1>1, PushedMessage
  <2> HIDE DEF m
  <2>3. \A n : Seen(n)' <=> Seen(n)
    BY <2>2 DEF Seen
  <2>4. CASE m.first
    <3>1. mq' = <<m>> \o mq
      BY <2>2, <2>4
    <3>2. /\ DOMAIN mq' = 1 .. Len(mq) + 1 /\ mq'[1] = m
          /\ \A i \in DOMAIN mq : mq'[i + 1] = mq[i]
      BY <1>0, <2>1, <3>1, FirstAt
    <3> SUFFICES ASSUME pc' # "done", NEW k \in DOMAIN mq', ~mq'[k].first,
                        NEW n \in 1 .. mq'[k].id - 1
                 PROVE  Seen(n)' \/ \E i \in 1 .. k - 1 : mq'[i].id = n
      BY Zenon DEF WaitsBehind
    <3>a. pc # "done" /\ k \in 1 .. Len(mq) + 1
      BY <2>2, <3>2
    <3> DEFINE j == k - 1
    <3>3. j \in 1 .. Len(mq) /\ mq'[k] = mq[j]
      BY <1>0, <2>4, <3>2, <3>a
    <3> HIDE DEF j
    <3>4. Seen(n) \/ \E i \in 1 .. j - 1 : mq[i].id = n
      BY <1>0, <3>3, <3>a DEF WaitsBehind
    <3>5. ASSUME NEW i \in 1 .. j - 1, mq[i].id = n
          PROVE  i + 1 \in 1 .. k - 1 /\ mq'[i + 1].id = n
      <4>1. i \in DOMAIN mq /\ i + 1 \in 1 .. k - 1
        BY <1>0, <3>3, <3>a DEF j
      <4>2. mq'[i + 1] = mq[i]
        BY ONLY <3>2, <4>1, Zenon
      <4> QED BY <3>5, <4>1, <4>2, Zenon
    <3> QED BY <2>3, <3>4, <3>5
  <2>5. CASE ~m.first
    <3>0. mq' = Append(mq, m)
      BY <2>2, <2>5
    <3>1. /\ DOMAIN mq' = 1 .. Len(mq) + 1 /\ mq'[Len(mq) + 1] = m
          /\ \A i \in DOMAIN mq : mq'[i] = mq[i]
      BY <1>0, <2>1, <3>0, BehindAt
    <3> SUFFICES ASSUME pc' # "done", NEW j \in DOMAIN mq', ~mq'[j].first,
                        NEW n \in 1 .. mq'[j].id - 1
                 PROVE  Seen(n)' \/ \E i \in 1 .. j - 1 : mq'[i].id = n
      BY Zenon DEF WaitsBehind
    <3>a. pc # "done" /\ j \in 1 .. Len(mq) + 1
      BY <2>2, <3>1
    <3>2. CASE j \in 1 .. Len(mq)
      <4>1. Seen(n) \/ \E i \in 1 .. j - 1 : mq[i].id = n
        BY <1>0, <3>1, <3>2, <3>a DEF WaitsBehind
      <4> QED BY <1>0, <2>3, <3>1, <3>2, <4>1
    <3>3. CASE j = Len(mq) + 1
      <4>1. n \in 1 .. posted
        BY <1>0, <2>1, <3>1, <3>3
      <4>2. Seen(n) \/ Has(mq, n)
        BY <3>a, <4>1 DEF Accounted
      <4> QED BY <1>0, <2>3, <3>1, <3>3, <4>2 DEF Has
    <3> QED BY <1>0, <3>2, <3>3, <3>a
  <2> QED BY <2>4, <2>5
<1>2. CASE Take
  <2>1. /\ \A i \in DOMAIN mq' : i + 1 \in DOMAIN mq /\ mq'[i] = mq[i + 1]
        /\ current' = mq[1] /\ Len(mq) > 0 /\ DOMAIN mq' = 1 .. Len(mq) - 1
    BY <1>0, <1>2 DEF Take
  <2>2. pc = "test" /\ handled' = handled /\ pc' \in {"handle", "done"}
    BY <1>2 DEF Take
  <2> SUFFICES ASSUME pc' = "handle", NEW j \in DOMAIN mq', ~mq'[j].first,
                      NEW n \in 1 .. mq'[j].id - 1
               PROVE  Seen(n)' \/ \E i \in 1 .. j - 1 : mq'[i].id = n
    BY <2>2 DEF WaitsBehind
  <2>3. Has(handled, n) \/ \E i \in 1 .. j : mq[i].id = n
    BY <1>0, <2>1, <2>2 DEF WaitsBehind, Seen
  <2>4. ASSUME NEW i \in 1 .. j, mq[i].id = n
        PROVE  current'.id = n \/ (i - 1 \in 1 .. j - 1 /\ mq'[i - 1].id = n)
    <3>1. CASE i = 1
      BY <2>1, <2>4, <3>1
    <3>2. CASE i # 1
      <4>1. i - 1 \in DOMAIN mq' /\ i - 1 \in 1 .. j - 1 /\ (i - 1) + 1 = i
        BY <2>1, <3>2
      <4>2. mq'[i - 1] = mq[i]
        BY ONLY <2>1, <4>1
      <4> QED BY <2>4, <4>1, <4>2
    <3> QED BY <3>1, <3>2
  <2>5. Seen(n)' <=> Has(handled, n) \/ current'.id = n
    BY <2>2 DEF Seen
  <2> QED BY <2>3, <2>4, <2>5
<1>3. CASE Handled
  <2>1. \A n : Has(handled', n) <=> Has(handled, n) \/ current.id = n
    BY <1>0, <1>3, HasBehind DEF Handled
  <2>2. \A n : Seen(n) => Seen(n)'
    BY <1>3, <2>1 DEF Seen, Handled
  <2> QED BY <1>3, <2>2 DEF WaitsBehind, Handled
<1>4. CASE /\ UNCHANGED <<handled, current, mq>> /\ pc # "handle" /\ pc' # "handle"
           /\ (pc' = "done" <=> pc = "done")
  BY <1>4 DEF WaitsBehind, Seen
<1>5. CASE UNCHANGED <<handled, current, mq, pc>>
  BY <1>5 DEF WaitsBehind, Seen
<1> QED
  BY <1>1, <1>2, <1>3, <1>4, <1>5
     DEF Next, StartLoop, PostFunctor, PostMessage, StopLoop, Call,
         Lock, Wait, Wake, Spurious, Quiet

\* The MSG_TERM that ends the loop was in front of the queue: nothing was ahead.
LEMMA DrainStep == TypeOK /\ WaitsBehind /\ StopDrains /\ [Next]_vars => StopDrains'
<1> SUFFICES ASSUME TypeOK, WaitsBehind, StopDrains, [Next]_vars PROVE StopDrains'
  OBVIOUS
<1>1. CASE Take
  <2>1. mq # <<>> /\ mq \in Seq(Messages) /\ pc = "test" /\ handled' = handled
        /\ current' = Head(mq)
    BY <1>1 DEF Take, TypeOK
  <2>2. 1 \in DOMAIN mq /\ Head(mq) = mq[1]
    BY <2>1
  <2>3. ~mq[1].first => \A n \in 1 .. mq[1].id - 1 : Has(handled, n)
    BY <2>1, <2>2 DEF WaitsBehind, Seen
  <2> QED BY <2>1, <2>2, <2>3 DEF StopDrains
<1>2. CASE UNCHANGED <<handled, current>> /\ pc' = pc
  BY <1>2 DEF StopDrains
<1>3. CASE pc' # "done"
  BY <1>3 DEF StopDrains
<1> QED
  BY <1>1, <1>2, <1>3
     DEF Next, StartLoop, PostFunctor, PostMessage, StopLoop, Call,
         Push, Lock, Wait, Wake, Handled, Spurious, Quiet

------------------------------------------------------------------------------
(* Theorems *)

LEMMA Inductive == IInv /\ [Next]_vars => IInv'
  BY TypeStep, WakeupStep, OrderStep, AccountStep, BehindStep, DrainStep
     DEF IInv, LooperInv

\* Whoever posts, and wherever to: the types, the mutex and the queue are what
\* startLoop and postMessage take them for; the looper never sleeps on a message
\* (MessageLooper.cpp:27), ordinary messages are handled in the order of posting
\* and nothing is lost on the way.
THEOREM LooperInvariant == SafetySpec => []LooperInv
<1>1. IInv => LooperInv
  BY DEF IInv
<1> QED BY InitInv, Inductive, <1>1, PTL DEF SafetySpec

\* When an ordinary stopLoop ends the loop, every message that was posted before
\* it has been handled (MessageLooper.cpp:36).
THEOREM OrdinaryStopDrains == SafetySpec => []StopDrains
<1>1. IInv => StopDrains
  BY DEF IInv
<1> QED BY InitInv, Inductive, <1>1, PTL DEF SafetySpec
============================================================================
