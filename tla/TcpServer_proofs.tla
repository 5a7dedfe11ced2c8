-------------------------- MODULE TcpServer_proofs --------------------------
(* The life of a connection for any number of connections and loopers.        *)
EXTENDS TcpServer, SequenceLemmas, TLAPS, SequenceTheorems

------------------------------------------------------------------------------
(* The work that is left to do on a connection *)

WorkKinds == OpKinds \ {"release", "send"}
Work(o, c) == o.c = c /\ o.op \in WorkKinds

\* What s has to do on c is w, in this order: p says where.
Works(s, c, w) ==
  \E p \in [DOMAIN w -> DOMAIN s] :
    /\ \A i, j \in DOMAIN w : i < j => p[i] < p[j]
    /\ \A i \in DOMAIN w : s[p[i]] = Op(w[i], c)
    /\ \A k \in DOMAIN s : Work(s[k], c) => \E i \in DOMAIN w : p[i] = k

LEMMA NoWork ==
  ASSUME NEW s \in Seq(Ops), NEW c
  PROVE  Works(s, c, <<>>) <=> \A k \in DOMAIN s : ~Work(s[k], c)
<1>1. ASSUME Works(s, c, <<>>) PROVE \A k \in DOMAIN s : ~Work(s[k], c)
  BY <1>1 DEF Works
<1>2. ASSUME \A k \in DOMAIN s : ~Work(s[k], c) PROVE Works(s, c, <<>>)
  <2> DEFINE p == [i \in {} |-> 1]
  <2>1. p \in [DOMAIN <<>> -> DOMAIN s]
    OBVIOUS
  <2>2. DOMAIN <<>> = {}
    OBVIOUS
  <2> HIDE DEF p
  <2> QED BY <1>2, <2>1, <2>2 DEF Works
<1> QED BY <1>1, <1>2

\* The work on c of a statement that is next.
LEMMA OneWork ==
  ASSUME NEW c \in Conns, NEW k \in WorkKinds
  PROVE  Works(<<Op(k, c)>>, c, <<k>>)
<1> DEFINE p == [i \in {1} |-> 1]
<1>1. /\ DOMAIN <<k>> = {1} /\ DOMAIN <<Op(k, c)>> = {1}
      /\ <<k>>[1] = k /\ <<Op(k, c)>>[1] = Op(k, c)
  OBVIOUS
<1>2. p \in [DOMAIN <<k>> -> DOMAIN <<Op(k, c)>>] /\ p[1] = 1
  BY <1>1
<1> HIDE DEF p
<1> QED BY <1>1, <1>2 DEF Works

\* Work one after the other.
LEMMA WorkConcat ==
  ASSUME NEW s \in Seq(Ops), NEW t \in Seq(Ops), NEW c \in Conns,
         NEW v \in Seq(WorkKinds), NEW w \in Seq(WorkKinds),
         Works(s, c, v), Works(t, c, w)
  PROVE  Works(s \o t, c, v \o w)
<1>1. PICK p \in [DOMAIN v -> DOMAIN s] :
        /\ \A i, j \in DOMAIN v : i < j => p[i] < p[j]
        /\ \A i \in DOMAIN v : s[p[i]] = Op(v[i], c)
        /\ \A k \in DOMAIN s : Work(s[k], c) => \E i \in DOMAIN v : p[i] = k
  BY DEF Works
<1>2. PICK q \in [DOMAIN w -> DOMAIN t] :
        /\ \A i, j \in DOMAIN w : i < j => q[i] < q[j]
        /\ \A i \in DOMAIN w : t[q[i]] = Op(w[i], c)
        /\ \A k \in DOMAIN t : Work(t[k], c) => \E i \in DOMAIN w : q[i] = k
  BY DEF Works
<1> DEFINE r == [i \in DOMAIN (v \o w) |->
                   IF i <= Len(v) THEN p[i] ELSE Len(s) + q[i - Len(v)]]
<1>3. /\ Len(v) \in Nat /\ Len(w) \in Nat /\ Len(s) \in Nat /\ Len(t) \in Nat
      /\ DOMAIN v = 1 .. Len(v) /\ DOMAIN w = 1 .. Len(w)
      /\ DOMAIN s = 1 .. Len(s) /\ DOMAIN t = 1 .. Len(t)
      /\ DOMAIN (v \o w) = 1 .. Len(v) + Len(w)
      /\ DOMAIN (s \o t) = 1 .. Len(s) + Len(t)
  OBVIOUS
<1>4. /\ \A i \in 1 .. Len(v) : (v \o w)[i] = v[i]
      /\ \A i \in 1 .. Len(w) : (v \o w)[Len(v) + i] = w[i]
      /\ \A i \in 1 .. Len(s) : (s \o t)[i] = s[i]
      /\ \A i \in 1 .. Len(t) : (s \o t)[Len(s) + i] = t[i]
  OBVIOUS
<1> DEFINE x == v \o w
           z == s \o t
<1>a. /\ DOMAIN x = 1 .. Len(v) + Len(w) /\ DOMAIN z = 1 .. Len(s) + Len(t)
      /\ \A i \in 1 .. Len(v) : x[i] = v[i]
      /\ \A i \in 1 .. Len(w) : x[Len(v) + i] = w[i]
      /\ \A i \in 1 .. Len(s) : z[i] = s[i]
      /\ \A i \in 1 .. Len(t) : z[Len(s) + i] = t[i]
  BY <1>3, <1>4
<1> HIDE DEF x, z
<1>5. /\ r \in [DOMAIN x -> DOMAIN z]
      /\ \A i \in 1 .. Len(v) : r[i] = p[i]
      /\ \A i \in 1 .. Len(w) : r[Len(v) + i] = Len(s) + q[i]
      /\ \A i \in DOMAIN x : i \notin 1 .. Len(v) => r[i] = Len(s) + q[i - Len(v)]
  BY <1>3 DEF x, z
<1> HIDE DEF r
<1>6. \A i \in DOMAIN x : i \in 1 .. Len(v) \/ (i - Len(v) \in 1 .. Len(w) /\ i = Len(v) + (i - Len(v)))
  BY <1>3, <1>a
<1>7. \A i \in DOMAIN z : i \in 1 .. Len(s) \/ (i - Len(s) \in 1 .. Len(t) /\ i = Len(s) + (i - Len(s)))
  BY <1>3, <1>a
<1>8. /\ \A i \in 1 .. Len(v) : p[i] \in 1 .. Len(s)
      /\ \A i \in 1 .. Len(w) : q[i] \in 1 .. Len(t)
  BY <1>3
<1>9. \A i, j \in DOMAIN x : i < j => r[i] < r[j]
  <2> SUFFICES ASSUME NEW i \in DOMAIN x, NEW j \in DOMAIN x, i < j PROVE r[i] < r[j]
    OBVIOUS
  <2>1. CASE j \in 1 .. Len(v)
    <3>1. i \in DOMAIN v /\ j \in DOMAIN v
      BY <1>3, <1>a, <2>1
    <3> QED BY <1>1, <1>3, <1>5, <3>1
  <2>2. CASE i \in 1 .. Len(v) /\ j - Len(v) \in 1 .. Len(w)
    <3> DEFINE b == j - Len(v)
    <3>1. b \in 1 .. Len(w) /\ r[j] = Len(s) + q[b] /\ r[i] = p[i]
      BY <1>3, <1>5, <1>a, <2>2
    <3> HIDE DEF b
    <3>2. p[i] \in 1 .. Len(s) /\ q[b] \in 1 .. Len(t)
      BY <1>8, <2>2, <3>1
    <3> QED BY <1>3, <3>1, <3>2
  <2>3. CASE i - Len(v) \in 1 .. Len(w) /\ j - Len(v) \in 1 .. Len(w)
    <3> DEFINE a == i - Len(v)
               b == j - Len(v)
    <3>1. a \in 1 .. Len(w) /\ b \in 1 .. Len(w) /\ a < b
      BY <1>3, <1>a, <2>3
    <3>0. i = Len(v) + a /\ j = Len(v) + b
      BY <1>3, <1>a
    <3> HIDE DEF a, b
    <3>2. r[i] = Len(s) + q[a] /\ r[j] = Len(s) + q[b]
      BY ONLY <1>5, <3>0, <3>1
    <3>3. q[a] < q[b] /\ q[a] \in 1 .. Len(t) /\ q[b] \in 1 .. Len(t)
      BY <1>2, <1>3, <1>8, <3>1
    <3> QED BY <1>3, <3>2, <3>3
  <2> QED BY <1>3, <1>6, <1>a, <2>1, <2>2, <2>3
<1>10. \A i \in DOMAIN x : z[r[i]] = Op(x[i], c)
  <2> SUFFICES ASSUME NEW i \in DOMAIN x PROVE z[r[i]] = Op(x[i], c)
    OBVIOUS
  <2>1. CASE i \in 1 .. Len(v)
    BY <1>1, <1>3, <1>5, <1>8, <1>a, <2>1
  <2>2. CASE i - Len(v) \in 1 .. Len(w)
    <3> DEFINE j == i - Len(v)
    <3>1. x[i] = w[j] /\ r[i] = Len(s) + q[j] /\ q[j] \in 1 .. Len(t)
      BY <1>3, <1>5, <1>6, <1>8, <1>a, <2>2
    <3>2. t[q[j]] = Op(w[j], c)
      BY <1>2, <1>3, <2>2
    <3> HIDE DEF j
    <3> QED BY <1>a, <3>1, <3>2
  <2> QED BY <1>6, <2>1, <2>2
<1>11. \A k \in DOMAIN z : Work(z[k], c) => \E i \in DOMAIN x : r[i] = k
  <2> SUFFICES ASSUME NEW k \in DOMAIN z, Work(z[k], c) PROVE \E i \in DOMAIN x : r[i] = k
    OBVIOUS
  <2>1. CASE k \in 1 .. Len(s)
    <3>1. PICK i \in 1 .. Len(v) : p[i] = k
      BY <1>1, <1>3, <1>a, <2>1
    <3>2. i \in DOMAIN x /\ r[i] = k
      BY <1>3, <1>5, <1>a, <3>1
    <3> QED BY <3>2
  <2>2. CASE k - Len(s) \in 1 .. Len(t)
    <3> DEFINE m == k - Len(s)
    <3>1. z[k] = t[m] /\ m \in DOMAIN t /\ k = Len(s) + m
      BY <1>3, <1>7, <1>a, <2>2
    <3>2. PICK i \in 1 .. Len(w) : q[i] = m
      BY <1>2, <1>3, <3>1
    <3> DEFINE n == Len(v) + i
    <3>3. n \in DOMAIN x /\ r[n] = k
      BY <1>3, <1>5, <1>a, <3>1, <3>2
    <3> HIDE DEF n
    <3> QED BY <3>3
  <2> QED BY <1>7, <2>1, <2>2
<1>12. Works(z, c, x)
  BY <1>5, <1>9, <1>10, <1>11 DEF Works
<1> QED BY <1>12 DEF x, z

\* The next statement is the first of the work on its connection.
LEMMA WorkHead ==
  ASSUME NEW s \in Seq(Ops), s # <<>>, NEW c \in Conns, NEW k \in WorkKinds,
         Head(s) = Op(k, c), NEW w \in Seq(WorkKinds), Works(s, c, w)
  PROVE  /\ w # <<>> /\ w[1] = k
         /\ Works(Tail(s), c, Tail(w))
<1>1. PICK p \in [DOMAIN w -> DOMAIN s] :
        /\ \A i, j \in DOMAIN w : i < j => p[i] < p[j]
        /\ \A i \in DOMAIN w : s[p[i]] = Op(w[i], c)
        /\ \A j \in DOMAIN s : Work(s[j], c) => \E i \in DOMAIN w : p[i] = j
  BY DEF Works
<1> DEFINE t == Tail(s)
           v == Tail(w)
<1>2. /\ Len(w) \in Nat /\ DOMAIN w = 1 .. Len(w)
      /\ Len(s) \in Nat /\ DOMAIN s = 1 .. Len(s) /\ 1 \in DOMAIN s /\ s[1] = Op(k, c)
      /\ DOMAIN t = 1 .. Len(s) - 1 /\ \A i \in DOMAIN t : t[i] = s[i + 1]
  OBVIOUS
<1>3. Work(s[1], c)
  BY <1>2 DEF Work, Op
<1>4. PICK i \in DOMAIN w : p[i] = 1
  BY <1>1, <1>2, <1>3
<1>5. \A j \in DOMAIN w : p[j] \in 1 .. Len(s)
  BY <1>2
<1>6. 1 \in DOMAIN w /\ i = 1
  BY <1>1, <1>2, <1>4, <1>5
<1>7. w # <<>> /\ w[1] = k
  <2>1. Op(w[1], c) = Op(k, c)
    BY <1>1, <1>2, <1>4, <1>6
  <2> QED BY <1>6, <2>1 DEF Op
<1>8. DOMAIN v = 1 .. Len(w) - 1 /\ \A j \in DOMAIN v : v[j] = w[j + 1]
  BY <1>2, <1>6
<1> DEFINE q == [j \in DOMAIN v |-> p[j + 1] - 1]
<1> HIDE DEF t, v
<1>9. \A j \in DOMAIN v : j + 1 \in DOMAIN w /\ p[j + 1] > 1 /\ p[j + 1] \in 1 .. Len(s)
  BY <1>1, <1>2, <1>4, <1>5, <1>6, <1>8
<1>10. q \in [DOMAIN v -> DOMAIN t] /\ \A j \in DOMAIN v : q[j] + 1 = p[j + 1] /\ q[j] \in DOMAIN t
  BY <1>2, <1>9
<1> HIDE DEF q
<1>11. \A j, m \in DOMAIN v : j < m => q[j] < q[m]
  <2> SUFFICES ASSUME NEW j \in DOMAIN v, NEW m \in DOMAIN v, j < m PROVE q[j] < q[m]
    OBVIOUS
  <2>1. p[j + 1] < p[m + 1]
    BY <1>1, <1>2, <1>8, <1>9
  <2> QED BY <1>2, <1>9, <1>10, <2>1
<1>12. \A j \in DOMAIN v : t[q[j]] = Op(v[j], c)
  BY <1>1, <1>2, <1>8, <1>9, <1>10
<1>13. \A m \in DOMAIN t : Work(t[m], c) => \E j \in DOMAIN v : q[j] = m
  <2> SUFFICES ASSUME NEW m \in DOMAIN t, Work(t[m], c) PROVE \E j \in DOMAIN v : q[j] = m
    OBVIOUS
  <2>1. m + 1 \in DOMAIN s /\ t[m] = s[m + 1]
    BY <1>2
  <2>2. PICK j \in DOMAIN w : p[j] = m + 1
    BY <1>1, <2>1
  <2>3. j # 1
    BY <1>2, <1>4, <1>6, <2>2
  <2>4. j - 1 \in DOMAIN v /\ (j - 1) + 1 = j
    BY <1>2, <1>8, <2>3
  <2>5. q[j - 1] + 1 = m + 1 /\ q[j - 1] \in DOMAIN t
    BY <1>10, <2>2, <2>4
  <2> QED BY <1>2, <2>4, <2>5
<1>14. Works(t, c, v)
  BY <1>10, <1>11, <1>12, <1>13 DEF Works
<1> QED BY <1>7, <1>14 DEF t, v

\* A statement that is no work on c leaves the work on c alone.
LEMMA WorkOther ==
  ASSUME NEW s \in Seq(Ops), s # <<>>, NEW c \in Conns, ~Work(Head(s), c),
         NEW w \in Seq(WorkKinds), Works(s, c, w)
  PROVE  Works(Tail(s), c, w)
<1>1. PICK p \in [DOMAIN w -> DOMAIN s] :
        /\ \A i, j \in DOMAIN w : i < j => p[i] < p[j]
        /\ \A i \in DOMAIN w : s[p[i]] = Op(w[i], c)
        /\ \A j \in DOMAIN s : Work(s[j], c) => \E i \in DOMAIN w : p[i] = j
  BY DEF Works
<1> DEFINE t == Tail(s)
           q == [j \in DOMAIN w |-> p[j] - 1]
<1>2. /\ Len(s) \in Nat /\ DOMAIN s = 1 .. Len(s) /\ 1 \in DOMAIN s /\ Head(s) = s[1]
      /\ DOMAIN t = 1 .. Len(s) - 1 /\ \A i \in DOMAIN t : t[i] = s[i + 1]
      /\ \A j \in DOMAIN w : w[j] \in WorkKinds
  OBVIOUS
<1> HIDE DEF t
<1>3. \A j \in DOMAIN w : p[j] # 1
  <2>1. \A j \in DOMAIN w : Work(Op(w[j], c), c)
    BY <1>2 DEF Work, Op
  <2> QED BY <1>1, <1>2, <2>1
<1>4. \A j \in DOMAIN w : p[j] \in 1 .. Len(s) /\ p[j] - 1 \in DOMAIN t
  BY <1>2, <1>3
<1>5. q \in [DOMAIN w -> DOMAIN t] /\ \A j \in DOMAIN w : q[j] + 1 = p[j] /\ q[j] \in DOMAIN t
  BY <1>2, <1>4
<1> HIDE DEF q
<1>6. \A i, j \in DOMAIN w : i < j => q[i] < q[j]
  BY <1>1, <1>2, <1>5
<1>7. \A j \in DOMAIN w : t[q[j]] = Op(w[j], c)
  BY <1>1, <1>2, <1>5
<1>8. \A m \in DOMAIN t : Work(t[m], c) => \E j \in DOMAIN w : q[j] = m
  <2> SUFFICES ASSUME NEW m \in DOMAIN t, Work(t[m], c) PROVE \E j \in DOMAIN w : q[j] = m
    OBVIOUS
  <2>1. m + 1 \in DOMAIN s /\ t[m] = s[m + 1]
    BY <1>2
  <2>2. PICK j \in DOMAIN w : p[j] = m + 1
    BY <1>1, <2>1
  <2> QED BY <1>2, <1>5, <2>2
<1>9. Works(t, c, w)
  BY <1>5, <1>6, <1>7, <1>8 DEF Works
<1> QED BY <1>9 DEF t

------------------------------------------------------------------------------
(* The invariant.  Calm: peers do not reset, client threads do not ask for    *)
(* removals and send no empty buffer, and the connection handler does not     *)
(* attach a connection of another looper.  They may send what is not empty.   *)

Calm == ~Resets /\ ~Kicks /\ ~EmptySends /\ (AttachInline => Pool = {Main})

\* Every channel watches for reading, and sendInternal has closed nothing.
ReadsOnly == hollow = {} /\ cut = {} /\ watch = [c \in Conns |-> "read"]

\* What thread l has been told to do and not done.
Line(l) == todo[l] \o queue[l]

\* Thread l has to do w on c, and nobody else has to do anything.
Only(c, l, w) ==
  Works(Line(l), c, w) /\ \A m \in Pool \ {l} : Works(Line(m), c, <<>>)
Nothing(c) == \A m \in Pool : Works(Line(m), c, <<>>)

Flags(c, open, reg, att) ==
  /\ c \in fdOpen <=> open
  /\ c \in registered <=> reg
  /\ c \in attached <=> att
Served(c) == state[c] = "live" /\ c \in connSet /\ c \in kept /\ notified[c] = 0
Mine(c, w) == Only(c, looperOf[c], w)

\* The way of a connection through the threads, a stage after the other.
Fresh(c) ==
  /\ state[c] = "none" /\ c \notin connSet /\ c \notin kept /\ notified[c] = 0
  /\ Flags(c, FALSE, FALSE, FALSE) /\ Nothing(c)
Attaching(c) ==
  /\ Served(c)
  /\ \/ Flags(c, TRUE, FALSE, FALSE) /\ Mine(c, <<"attach">>)
     \/ Flags(c, TRUE, FALSE, FALSE) /\ Mine(c, <<"add", "set">>)
     \/ Flags(c, TRUE, TRUE, FALSE) /\ Mine(c, <<"set">>)
Resting(c) == Served(c) /\ Flags(c, TRUE, TRUE, TRUE) /\ Nothing(c)
Reading(c) == Served(c) /\ Flags(c, TRUE, TRUE, TRUE) /\ Mine(c, <<"read">>)
Closing(c) ==
  /\ Served(c)
  /\ \/ Flags(c, TRUE, TRUE, TRUE) /\ Mine(c, <<"detach", "close", "notify">>)
     \/ Flags(c, TRUE, TRUE, TRUE) /\ Mine(c, <<"del", "clear", "close", "notify">>)
     \/ Flags(c, TRUE, FALSE, TRUE) /\ Mine(c, <<"clear", "close", "notify">>)
     \/ Flags(c, TRUE, FALSE, FALSE) /\ Mine(c, <<"close", "notify">>)
     \/ Flags(c, FALSE, FALSE, FALSE) /\ Mine(c, <<"notify">>)
Forgotten(c) ==
  /\ state[c] = "live" /\ c \in connSet /\ c \notin kept /\ notified[c] = 1
  /\ Flags(c, FALSE, FALSE, FALSE)
Leaving(c) ==
  /\ Forgotten(c)
  /\ \/ Only(c, Main, <<"remove">>)
     \/ Only(c, Main, <<"detach", "erase">>)
     \/ Only(c, Main, <<"erase">>)
Left(c) ==
  /\ state[c] \in {"live", "destroyed"} /\ c \notin connSet /\ c \notin kept
  /\ notified[c] = 1 /\ Flags(c, FALSE, FALSE, FALSE) /\ Nothing(c)

Stage(c) ==
  \/ Fresh(c) \/ Attaching(c) \/ Resting(c) \/ Reading(c)
  \/ Closing(c) \/ Leaving(c) \/ Left(c)

\* A reported event is about a connection that rests in the same looper; the
\* acceptor's channel is the main looper's.
EventsRest ==
  \A l \in Pool : \A e \in batch[l] :
    /\ e.kind = "conn" => ~e.hup /\ e.op = "read" /\ looperOf[e.c] = l /\ Resting(e.c)
    /\ e.kind = "accept" => l = Main

\* Whoever holds a shared_ptr holds something.
In(s) == {s[i] : i \in DOMAIN s}
HeldLives == \A l \in Pool : \A c \in Conns : Op("release", c) \in In(todo[l]) => state[c] = "live"

\* A send that is under way was asked for.
SendsAsked == \A l \in Pool : \A o \in In(todo[l]) \cup In(queue[l]) : o.op = "send" => sent # {}

IInv ==
  /\ TypeOK /\ ReadsOnly /\ rst = {} /\ early = {}
  /\ \A c \in Conns : Stage(c)
  /\ \A c \in backlog : state[c] = "none"
  /\ EventsRest /\ HeldLives /\ SendsAsked
  /\ NoAssertFailure /\ (failure = "uaf" => sent # {})

------------------------------------------------------------------------------
(* What a statement does to the lines *)

LEMMA Words ==
  /\ <<>> \in Seq(WorkKinds)
  /\ <<"attach">> \in Seq(WorkKinds) /\ <<"add", "set">> \in Seq(WorkKinds)
  /\ <<"set">> \in Seq(WorkKinds) /\ <<"read">> \in Seq(WorkKinds)
  /\ <<"detach", "close", "notify">> \in Seq(WorkKinds)
  /\ <<"del", "clear", "close", "notify">> \in Seq(WorkKinds)
  /\ <<"clear", "close", "notify">> \in Seq(WorkKinds)
  /\ <<"close", "notify">> \in Seq(WorkKinds) /\ <<"notify">> \in Seq(WorkKinds)
  /\ <<"remove">> \in Seq(WorkKinds) /\ <<"detach", "erase">> \in Seq(WorkKinds)
  /\ <<"erase">> \in Seq(WorkKinds) /\ <<"del", "clear">> \in Seq(WorkKinds)
  BY DEF WorkKinds, OpKinds

LEMMA MainInPool == Main \in Pool
  BY ServerAssumption DEF Main, Pool

LEMMA LineTypes ==
  ASSUME TypeOK, NEW l \in Pool
  PROVE  todo[l] \in Seq(Ops) /\ queue[l] \in Seq(Ops) /\ Line(l) \in Seq(Ops)
<1>1. todo[l] \in Seq(Ops)
  BY DEF TypeOK
<1>2. queue[l] \in Seq(Posts)
  BY DEF TypeOK
<1>3. queue[l] \in Seq(Ops)
  BY <1>2 DEF Posts
<1> QED BY <1>1, <1>3 DEF Line

LEMMA EventTypes ==
  ASSUME TypeOK
  PROVE  \A m \in Pool : \A e \in batch[m] : e \in Events /\ (e.kind = "conn" => e.c \in Conns)
<1>1. \A m \in Pool : batch[m] \in SUBSET Events
  BY DEF TypeOK
<1>2. \A e \in Events : e.kind = "conn" => e.c \in Conns
  BY DEF Events, EventKinds
<1> QED BY <1>1, <1>2

LEMMA TakeFront ==
  ASSUME NEW a \in Seq(Ops), NEW b \in Seq(Ops), NEW s \in Seq(Ops), a # <<>>
  PROVE  /\ a \o b # <<>> /\ Head(a \o b) = Head(a)
         /\ (s \o Tail(a)) \o b = s \o Tail(a \o b)
  OBVIOUS

LEMMA AppendBehind ==
  ASSUME NEW S, NEW a \in Seq(S), NEW b \in Seq(S), NEW x \in S
  PROVE  a \o Append(b, x) = (a \o b) \o <<x>>
  OBVIOUS

\* A statement is taken off the line of its thread and what it calls is put there.
LEMMA LineStep ==
  ASSUME TypeOK, NEW l \in Pool, NEW o, todo[l] # <<>>, Head(todo[l]) = o,
         NEW s \in Seq(Ops), Goes(l, s), queue' = queue
  PROVE  /\ Line(l) # <<>> /\ Head(Line(l)) = o
         /\ Line(l)' = s \o Tail(Line(l))
         /\ \A m \in Pool \ {l} : Line(m)' = Line(m)
<1>1. todo[l] \in Seq(Ops) /\ queue[l] \in Seq(Ops)
  BY LineTypes
<1>2. todo'[l] = s \o Tail(todo[l]) /\ \A m \in Pool \ {l} : todo'[m] = todo[m]
  BY DEF Goes, TypeOK
<1>3. /\ todo[l] \o queue[l] # <<>> /\ Head(todo[l] \o queue[l]) = Head(todo[l])
      /\ (s \o Tail(todo[l])) \o queue[l] = s \o Tail(todo[l] \o queue[l])
  BY <1>1, TakeFront, Zenon
<1> QED BY <1>2, <1>3 DEF Line

\* The work on its connection goes on with what the statement calls.
LEMMA OwnStep ==
  ASSUME TypeOK, NEW l \in Pool, NEW c \in Conns, NEW k \in WorkKinds, At(l, k, c),
         NEW s \in Seq(Ops), Goes(l, s), queue' = queue,
         NEW v \in Seq(WorkKinds), Works(s, c, v),
         NEW w \in Seq(WorkKinds), Works(Line(l), c, w)
  PROVE  w # <<>> /\ w[1] = k /\ Works(Line(l)', c, v \o Tail(w))
<1>1. /\ Line(l) # <<>> /\ Head(Line(l)) = Op(k, c) /\ Line(l) \in Seq(Ops)
      /\ Line(l)' = s \o Tail(Line(l))
  BY LineStep, LineTypes DEF At
<1>2. w # <<>> /\ w[1] = k /\ Works(Tail(Line(l)), c, Tail(w))
  BY <1>1, WorkHead
<1>3. Tail(Line(l)) \in Seq(Ops) /\ Tail(w) \in Seq(WorkKinds)
  BY <1>1, <1>2
<1>4. Works(s \o Tail(Line(l)), c, v \o Tail(w))
  BY <1>2, <1>3, WorkConcat, Zenon
<1> QED BY <1>1, <1>2, <1>4

\* The work on other connections stays, and so does the work of other threads.
LEMMA OtherStep ==
  ASSUME TypeOK, NEW l \in Pool, NEW o, todo[l] # <<>>, Head(todo[l]) = o,
         NEW s \in Seq(Ops), Goes(l, s), queue' = queue,
         NEW d \in Conns, NEW m \in Pool,
         m = l => ~Work(o, d) /\ \A i \in DOMAIN s : ~Work(s[i], d),
         NEW w \in Seq(WorkKinds), Works(Line(m), d, w)
  PROVE  Works(Line(m)', d, w)
<1>1. /\ Line(l) # <<>> /\ Head(Line(l)) = o /\ Line(l) \in Seq(Ops)
      /\ Line(l)' = s \o Tail(Line(l))
      /\ \A x \in Pool \ {l} : Line(x)' = Line(x)
  BY LineStep, LineTypes
<1>2. CASE m # l
  BY <1>1, <1>2
<1>3. CASE m = l
  <2>1. Works(Tail(Line(l)), d, w)
    BY <1>1, <1>3, WorkOther
  <2>2. Works(s, d, <<>>)
    BY <1>3, NoWork
  <2>3. Tail(Line(l)) \in Seq(Ops) /\ <<>> \in Seq(WorkKinds)
    BY <1>1
  <2>4. Works(s \o Tail(Line(l)), d, <<>> \o w)
    BY <2>1, <2>2, <2>3, WorkConcat, Zenon
  <2>5. <<>> \o w = w
    OBVIOUS
  <2> QED BY <1>1, <1>3, <2>4, <2>5
<1> QED BY <1>2, <1>3

\* What a stage is about.
Untouched(d) ==
  /\ state'[d] = state[d] /\ notified'[d] = notified[d] /\ looperOf'[d] = looperOf[d]
  /\ d \in connSet' <=> d \in connSet
  /\ d \in kept' <=> d \in kept
  /\ d \in fdOpen' <=> d \in fdOpen
  /\ d \in registered' <=> d \in registered
  /\ d \in attached' <=> d \in attached
SameWork(d) ==
  \A m \in Pool : \A w \in Seq(WorkKinds) : Works(Line(m), d, w) => Works(Line(m)', d, w)

LEMMA StageKept ==
  ASSUME TypeOK, NEW d \in Conns, Untouched(d), SameWork(d)
  PROVE  (Stage(d) => Stage(d)') /\ (Resting(d) => Resting(d)')
<1> USE Words
<1>1. looperOf[d] \in Pool
  BY DEF TypeOK
<1>2. /\ Served(d)' <=> Served(d)
      /\ \A x, y, z \in BOOLEAN : Flags(d, x, y, z) => Flags(d, x, y, z)'
  BY DEF Untouched, Served, Flags
<1>3. \A w \in Seq(WorkKinds) : \A l \in Pool : Only(d, l, w) => Only(d, l, w)'
  BY DEF SameWork, Only
<1>4. \A w \in Seq(WorkKinds) : Mine(d, w) => Mine(d, w)'
  BY <1>1, <1>3 DEF Mine, Untouched
<1>5. Nothing(d) => Nothing(d)'
  BY DEF SameWork, Nothing
<1>6. Fresh(d) => Fresh(d)'
  BY <1>2, <1>5 DEF Fresh, Untouched
<1>7. Attaching(d) => Attaching(d)'
  BY <1>2, <1>4 DEF Attaching
<1>8. Resting(d) => Resting(d)'
  BY <1>2, <1>5 DEF Resting
<1>9. Reading(d) => Reading(d)'
  BY <1>2, <1>4 DEF Reading
<1>10. Closing(d) => Closing(d)'
  BY <1>2, <1>4 DEF Closing
<1>11. Leaving(d) => Leaving(d)'
  <2>1. Main \in Pool
    BY MainInPool
  <2> QED BY <1>2, <1>3, <2>1 DEF Leaving, Forgotten, Untouched
<1>12. Left(d) => Left(d)'
  BY <1>2, <1>5 DEF Left, Untouched
<1> QED BY <1>6, <1>7, <1>8, <1>9, <1>10, <1>11, <1>12 DEF Stage

\* Work of which every statement is known.
LEMMA WorkAll ==
  ASSUME NEW s \in Seq(Ops), NEW c \in Conns, NEW v \in Seq(WorkKinds), Len(s) = Len(v),
         \A i \in DOMAIN v : s[i] = Op(v[i], c)
  PROVE  Works(s, c, v)
<1> DEFINE p == [i \in DOMAIN v |-> i]
<1>1. DOMAIN s = DOMAIN v /\ p \in [DOMAIN v -> DOMAIN s] /\ \A i \in DOMAIN v : p[i] = i
  OBVIOUS
<1> HIDE DEF p
<1> QED BY <1>1 DEF Works

\* The kinds of statements, one by one.
LEMMA CallKinds ==
  /\ WorkKinds \subseteq OpKinds /\ "release" \in OpKinds /\ "send" \in OpKinds
  /\ "hup" \in WorkKinds /\ "err" \in WorkKinds /\ "read" \in WorkKinds
  /\ "attach" \in WorkKinds /\ "add" \in WorkKinds /\ "set" \in WorkKinds
  /\ "detach" \in WorkKinds /\ "del" \in WorkKinds /\ "clear" \in WorkKinds
  /\ "close" \in WorkKinds /\ "notify" \in WorkKinds /\ "remove" \in WorkKinds
  /\ "erase" \in WorkKinds
  BY DEF WorkKinds, OpKinds

\* What the statements put on a line.
LEMMA Calls ==
  ASSUME NEW c \in Conns
  PROVE  /\ \A k \in OpKinds : <<Op(k, c)>> \in Seq(Ops)
         /\ \A k, j \in OpKinds : <<Op(k, c), Op(j, c)>> \in Seq(Ops)
         /\ \A k, j, n \in OpKinds : <<Op(k, c), Op(j, c), Op(n, c)>> \in Seq(Ops)
         /\ <<>> \in Seq(Ops)
         /\ Works(<<>>, c, <<>>)
         /\ \A k \in WorkKinds : Works(<<Op(k, c)>>, c, <<k>>)
         /\ \A k, j \in WorkKinds : Works(<<Op(k, c), Op(j, c)>>, c, <<k, j>>)
         /\ \A k, j, n \in WorkKinds :
              Works(<<Op(k, c), Op(j, c), Op(n, c)>>, c, <<k, j, n>>)
         /\ Works(<<Op("release", c)>>, c, <<>>)
         /\ \A k \in WorkKinds : Works(<<Op(k, c), Op("release", c)>>, c, <<k>>)
<1>1. \A k \in OpKinds : Op(k, c) \in Ops
  BY DEF Op, Ops
<1>2. WorkKinds \subseteq OpKinds /\ "release" \in OpKinds /\ "remove" \in WorkKinds
  BY DEF WorkKinds, OpKinds
<1>3. /\ \A k \in OpKinds : <<Op(k, c)>> \in Seq(Ops)
      /\ \A k, j \in OpKinds : <<Op(k, c), Op(j, c)>> \in Seq(Ops)
      /\ \A k, j, n \in OpKinds : <<Op(k, c), Op(j, c), Op(n, c)>> \in Seq(Ops)
      /\ <<>> \in Seq(Ops)
  BY <1>1
<1>4. Works(<<>>, c, <<>>)
  <2>1. \A k \in DOMAIN <<>> : ~Work(<<>>[k], c)
    OBVIOUS
  <2> QED BY <1>3, <2>1, NoWork, Zenon
<1>5. \A k \in WorkKinds : Works(<<Op(k, c)>>, c, <<k>>)
  BY OneWork
<1>6. ASSUME NEW k \in WorkKinds, NEW j \in WorkKinds
      PROVE  Works(<<Op(k, c), Op(j, c)>>, c, <<k, j>>)
  <2> DEFINE s == <<Op(k, c), Op(j, c)>>
             v == <<k, j>>
  <2>1. s \in Seq(Ops) /\ v \in Seq(WorkKinds) /\ Len(s) = Len(v)
    BY <1>2, <1>3
  <2>2. \A i \in DOMAIN v : s[i] = Op(v[i], c)
    OBVIOUS
  <2> HIDE DEF s, v
  <2>3. Works(s, c, v)
    BY <2>1, <2>2, WorkAll
  <2> QED BY <2>3 DEF s, v
<1>7. ASSUME NEW k \in WorkKinds, NEW j \in WorkKinds, NEW n \in WorkKinds
      PROVE  Works(<<Op(k, c), Op(j, c), Op(n, c)>>, c, <<k, j, n>>)
  <2> DEFINE s == <<Op(k, c), Op(j, c), Op(n, c)>>
             v == <<k, j, n>>
  <2>1. s \in Seq(Ops) /\ v \in Seq(WorkKinds) /\ Len(s) = Len(v)
    BY <1>2, <1>3
  <2>2. \A i \in DOMAIN v : s[i] = Op(v[i], c)
    OBVIOUS
  <2> HIDE DEF s, v
  <2>3. Works(s, c, v)
    BY <2>1, <2>2, WorkAll
  <2> QED BY <2>3 DEF s, v
<1>8. Works(<<Op("release", c)>>, c, <<>>)
  <2>1. \A k \in DOMAIN <<Op("release", c)>> : ~Work(<<Op("release", c)>>[k], c)
    BY DEF Work, Op, WorkKinds
  <2> QED BY <1>2, <1>3, <2>1, NoWork
<1>9. ASSUME NEW k \in WorkKinds PROVE Works(<<Op(k, c), Op("release", c)>>, c, <<k>>)
  <2> DEFINE s == <<Op(k, c), Op("release", c)>>
             v == <<k>>
             p == [i \in {1} |-> 1]
  <2>1. /\ DOMAIN s = {1, 2} /\ s[1] = Op(k, c) /\ s[2] = Op("release", c)
        /\ DOMAIN v = {1} /\ v[1] = k
    OBVIOUS
  <2>2. ~Work(s[2], c)
    BY <2>1 DEF Work, Op, WorkKinds
  <2>3. p \in [DOMAIN v -> DOMAIN s] /\ p[1] = 1
    BY <2>1
  <2> HIDE DEF s, v, p
  <2>4. Works(s, c, v)
    BY <2>1, <2>2, <2>3 DEF Works
  <2> QED BY <2>4 DEF s, v
<1> QED BY <1>3, <1>4, <1>5, <1>6, <1>7, <1>8, <1>9

------------------------------------------------------------------------------
(* The statements, one by one *)

\* The thread that has work on c next is the one that has all of it.
LEMMA WhoseTurn ==
  ASSUME TypeOK, NEW l \in Pool, NEW c \in Conns, NEW k \in WorkKinds, At(l, k, c)
  PROVE  /\ \A x \in Pool : \A w \in Seq(WorkKinds) :
              Only(c, x, w) => x = l /\ w # <<>> /\ w[1] = k
         /\ ~Nothing(c)
<1>1. /\ Line(l) # <<>> /\ Line(l) \in Seq(Ops) /\ Head(Line(l)) = Op(k, c)
  <2>1. todo[l] \in Seq(Ops) /\ queue[l] \in Seq(Ops) /\ Line(l) \in Seq(Ops)
    BY LineTypes
  <2>2. todo[l] # <<>> /\ Head(todo[l]) = Op(k, c)
    BY DEF At
  <2> QED BY <2>1, <2>2, TakeFront DEF Line
<1>2. \A w \in Seq(WorkKinds) : Works(Line(l), c, w) => w # <<>> /\ w[1] = k
  BY <1>1, WorkHead
<1>3. ~Works(Line(l), c, <<>>)
  BY <1>2, Words
<1> QED BY <1>2, <1>3 DEF Only, Nothing

\* A statement of kind k on c runs in thread l and calls s.
Runs(l, k, c, s) == At(l, k, c) /\ Goes(l, s) /\ queue' = queue

LEMMA OnlyStep ==
  ASSUME TypeOK, NEW l \in Pool, NEW c \in Conns, NEW k \in WorkKinds,
         NEW s \in Seq(Ops), Runs(l, k, c, s),
         NEW v \in Seq(WorkKinds), Works(s, c, v),
         NEW w \in Seq(WorkKinds), Only(c, l, w)
  PROVE  Only(c, l, v \o Tail(w))'
<1>1. Works(Line(l)', c, v \o Tail(w))
  BY OwnStep DEF Runs, Only
<1>2. \A m \in Pool \ {l} : Line(m)' = Line(m)
  BY LineStep DEF Runs, At
<1> QED BY <1>1, <1>2 DEF Only

LEMMA OthersStay ==
  ASSUME TypeOK, NEW l \in Pool, NEW c \in Conns, NEW k \in OpKinds,
         NEW s \in Seq(Ops), Runs(l, k, c, s), \A i \in DOMAIN s : s[i].c = c,
         NEW d \in Conns, d # c
  PROVE  SameWork(d)
<1>1. ~Work(Op(k, c), d) /\ \A i \in DOMAIN s : ~Work(s[i], d)
  BY DEF Work, Op
<1>2. todo[l] # <<>> /\ Head(todo[l]) = Op(k, c) /\ Goes(l, s) /\ queue' = queue
  BY DEF Runs, At
<1> SUFFICES ASSUME NEW m \in Pool, NEW w \in Seq(WorkKinds), Works(Line(m), d, w)
             PROVE  Works(Line(m)', d, w)
  BY DEF SameWork
<1> QED BY <1>1, <1>2, OtherStep

\* Statements that are no work, and call nothing, change nobody's work.
LEMMA NoWorkStays ==
  ASSUME TypeOK, NEW l \in Pool, NEW c \in Conns, NEW k \in {"release", "send"},
         Runs(l, k, c, <<>>), NEW d \in Conns
  PROVE  SameWork(d)
<1>1. ~Work(Op(k, c), d) /\ \A i \in DOMAIN <<>> : ~Work(<<>>[i], d)
  BY DEF Work, Op, WorkKinds
<1>2. todo[l] # <<>> /\ Head(todo[l]) = Op(k, c) /\ Goes(l, <<>>) /\ queue' = queue
  BY DEF Runs, At
<1>3. <<>> \in Seq(Ops)
  OBVIOUS
<1> SUFFICES ASSUME NEW m \in Pool, NEW w \in Seq(WorkKinds), Works(Line(m), d, w)
             PROVE  Works(Line(m)', d, w)
  BY DEF SameWork
<1> QED BY <1>1, <1>2, <1>3, OtherStep

\* What is left of the words.
LEMMA Tails ==
  /\ Tail(<<"attach">>) = <<>> /\ Tail(<<"set">>) = <<>> /\ Tail(<<"read">>) = <<>>
  /\ Tail(<<"notify">>) = <<>> /\ Tail(<<"remove">>) = <<>> /\ Tail(<<"erase">>) = <<>>
  /\ Tail(<<"add", "set">>) = <<"set">>
  /\ Tail(<<"detach", "close", "notify">>) = <<"close", "notify">>
  /\ Tail(<<"del", "clear", "close", "notify">>) = <<"clear", "close", "notify">>
  /\ Tail(<<"clear", "close", "notify">>) = <<"close", "notify">>
  /\ Tail(<<"close", "notify">>) = <<"notify">>
  /\ Tail(<<"detach", "erase">>) = <<"erase">>
  OBVIOUS

LEMMA Joins ==
  /\ \A w \in Seq(WorkKinds) : <<>> \o w = w /\ w \o <<>> = w
  /\ <<"del", "clear">> \o <<"close", "notify">> = <<"del", "clear", "close", "notify">>
<1>1. \A w \in Seq(WorkKinds) : <<>> \o w = w /\ w \o <<>> = w
  OBVIOUS
<1>2. <<"del", "clear">> \o <<"close", "notify">> = <<"del", "clear", "close", "notify">>
  <2> DEFINE t == <<"del", "clear">> \o <<"close", "notify">>
             u == <<"del", "clear", "close", "notify">>
  <2>1. t \in Seq(WorkKinds) /\ Len(t) = 4
    BY Words
  <2>2. u \in Seq(WorkKinds) /\ Len(u) = 4
    BY Words
  <2>3. /\ t[1] = "del" /\ t[2] = "clear" /\ t[3] = "close" /\ t[4] = "notify"
        /\ u[1] = "del" /\ u[2] = "clear" /\ u[3] = "close" /\ u[4] = "notify"
    BY Words
  <2> HIDE DEF t, u
  <2>4. \A i \in 1 .. Len(t) : t[i] = u[i]
    BY <2>1, <2>3
  <2>5. t = u
    BY <2>1, <2>2, <2>4, SeqEqual
  <2> QED BY <2>5 DEF t, u
<1> QED BY <1>1, <1>2

\* The stage of a connection whose turn it is tells what comes next.
LEMMA Turn ==
  ASSUME TypeOK, NEW l \in Pool, NEW c \in Conns, NEW k \in WorkKinds, At(l, k, c),
         Stage(c)
  PROVE  \/ /\ Served(c) /\ l = looperOf[c]
            /\ \/ /\ k = "attach" /\ Flags(c, TRUE, FALSE, FALSE)
                  /\ Only(c, l, <<"attach">>)
               \/ /\ k = "add" /\ Flags(c, TRUE, FALSE, FALSE)
                  /\ Only(c, l, <<"add", "set">>)
               \/ /\ k = "set" /\ Flags(c, TRUE, TRUE, FALSE)
                  /\ Only(c, l, <<"set">>)
               \/ /\ k = "read" /\ Flags(c, TRUE, TRUE, TRUE)
                  /\ Only(c, l, <<"read">>)
               \/ /\ k = "detach" /\ Flags(c, TRUE, TRUE, TRUE)
                  /\ Only(c, l, <<"detach", "close", "notify">>)
               \/ /\ k = "del" /\ Flags(c, TRUE, TRUE, TRUE)
                  /\ Only(c, l, <<"del", "clear", "close", "notify">>)
               \/ /\ k = "clear" /\ Flags(c, TRUE, FALSE, TRUE)
                  /\ Only(c, l, <<"clear", "close", "notify">>)
               \/ /\ k = "close" /\ Flags(c, TRUE, FALSE, FALSE)
                  /\ Only(c, l, <<"close", "notify">>)
               \/ /\ k = "notify" /\ Flags(c, FALSE, FALSE, FALSE)
                  /\ Only(c, l, <<"notify">>)
         \/ /\ Forgotten(c) /\ l = Main
            /\ \/ k = "remove" /\ Only(c, l, <<"remove">>)
               \/ k = "detach" /\ Only(c, l, <<"detach", "erase">>)
               \/ k = "erase" /\ Only(c, l, <<"erase">>)
<1>1. looperOf[c] \in Pool /\ Main \in Pool
  BY MainInPool DEF TypeOK
<1>2. /\ ~Nothing(c)
      /\ \A x \in Pool : \A w \in Seq(WorkKinds) : Only(c, x, w) => x = l /\ w[1] = k
  BY WhoseTurn
<1>3. ~Fresh(c) /\ ~Resting(c) /\ ~Left(c)
  BY <1>2 DEF Fresh, Resting, Left
<1>4. \A w \in Seq(WorkKinds) : Mine(c, w) => l = looperOf[c] /\ w[1] = k /\ Only(c, l, w)
  BY <1>1, <1>2 DEF Mine
<1>5. CASE Attaching(c)
  BY <1>4, <1>5, Words DEF Attaching
<1>6. CASE Reading(c)
  BY <1>4, <1>6, Words DEF Reading
<1>7. CASE Closing(c)
  BY <1>4, <1>7, Words DEF Closing
<1>8. CASE Leaving(c)
  BY <1>1, <1>2, <1>8, Words DEF Leaving
<1> QED BY <1>3, <1>5, <1>6, <1>7, <1>8 DEF Stage

\* The others stay what they are.
StagesStep(c) ==
  /\ \A d \in Conns : Stage(d)'
  /\ \A d \in Conns \ {c} : Resting(d) => Resting(d)'

LEMMA Others ==
  ASSUME TypeOK, \A d \in Conns : Stage(d), NEW c \in Conns, Stage(c)',
         \A d \in Conns \ {c} : Untouched(d) /\ SameWork(d)
  PROVE  StagesStep(c)
  BY StageKept DEF StagesStep

\* Channel::attach finds the flag unset.
LEMMA AttachStep ==
  ASSUME IInv, NEW l \in Pool, NEW c \in Conns, Attach(l, c)
  PROVE  StagesStep(c)
<1> USE Words
<1>1. TypeOK /\ (\A d \in Conns : Stage(d)) /\ "attach" \in WorkKinds /\ At(l, "attach", c)
  BY DEF IInv, Attach, WorkKinds, OpKinds
<1>2. /\ Served(c) /\ l = looperOf[c] /\ Flags(c, TRUE, FALSE, FALSE)
      /\ Only(c, l, <<"attach">>)
  BY <1>1, Turn
<1> DEFINE s == <<Op("add", c), Op("set", c)>>
<1>3. /\ Runs(l, "attach", c, s)
      /\ UNCHANGED <<epoll, server, kept, notified>>
  BY <1>2 DEF Attach, Flags, Runs, client
<1>4. s \in Seq(Ops) /\ Works(s, c, <<"add", "set">>)
  BY Calls, CallKinds
<1>5. \A i \in DOMAIN s : s[i].c = c
  BY DEF Op
<1> HIDE DEF s
<1>6. Only(c, l, <<"add", "set">>)'
  <2>1. Only(c, l, <<"add", "set">> \o Tail(<<"attach">>))'
    BY <1>1, <1>2, <1>3, <1>4, OnlyStep, Zenon
  <2> QED BY <2>1, Tails, Joins
<1>7. \A d \in Conns \ {c} : Untouched(d)
  BY <1>3 DEF Untouched, epoll, server
<1>8. Stage(c)'
  <2>1. Served(c)' /\ Flags(c, TRUE, FALSE, FALSE)' /\ looperOf'[c] = l
    BY <1>1, <1>2, <1>3 DEF Served, Forgotten, Flags, TypeOK, epoll, server
  <2> QED BY <1>2, <1>6, <2>1 DEF Stage, Attaching, Mine
<1>9. \A d \in Conns \ {c} : SameWork(d)
  BY <1>1, <1>3, <1>4, <1>5, OthersStay DEF WorkKinds
<1> QED BY <1>1, <1>7, <1>8, <1>9, Others

LEMMA AddStep ==
  ASSUME IInv, NEW l \in Pool, NEW c \in Conns, Add(l, c)
  PROVE  StagesStep(c)
<1> USE Words
<1>1. TypeOK /\ (\A d \in Conns : Stage(d)) /\ "add" \in WorkKinds /\ At(l, "add", c)
  BY DEF IInv, Add, WorkKinds, OpKinds
<1>2. /\ Served(c) /\ l = looperOf[c] /\ Flags(c, TRUE, FALSE, FALSE)
      /\ Only(c, l, <<"add", "set">>)
  BY <1>1, Turn
<1> DEFINE s == <<>>
<1>3. /\ Runs(l, "add", c, s)
      /\ UNCHANGED <<fdOpen, server, kept, notified>>
      /\ registered' = registered \cup {c}
  BY <1>2 DEF Add, Flags, Runs, client
<1>4. s \in Seq(Ops) /\ Works(s, c, <<>>)
  BY Calls, CallKinds
<1>5. \A i \in DOMAIN s : s[i].c = c
  BY DEF Op
<1> HIDE DEF s
<1>6. Only(c, l, <<"set">>)'
  <2>1. Only(c, l, <<>> \o Tail(<<"add", "set">>))'
    BY <1>1, <1>2, <1>3, <1>4, OnlyStep, Zenon
  <2> QED BY <2>1, Tails, Joins
<1>7. \A d \in Conns \ {c} : Untouched(d)
  BY <1>3 DEF Untouched, server
<1>8. Stage(c)'
  <2>1. Served(c)' /\ Flags(c, TRUE, TRUE, FALSE)' /\ looperOf'[c] = l
    BY <1>1, <1>2, <1>3 DEF Served, Forgotten, Flags, TypeOK, server
  <2> QED BY <1>2, <1>6, <2>1 DEF Stage, Attaching, Mine
<1>9. \A d \in Conns \ {c} : SameWork(d)
  BY <1>1, <1>3, <1>4, <1>5, OthersStay DEF WorkKinds
<1> QED BY <1>1, <1>7, <1>8, <1>9, Others

LEMMA SetStep ==
  ASSUME IInv, NEW l \in Pool, NEW c \in Conns, Set(l, c)
  PROVE  StagesStep(c)
<1> USE Words
<1>1. TypeOK /\ (\A d \in Conns : Stage(d)) /\ "set" \in WorkKinds /\ At(l, "set", c)
  BY DEF IInv, Set, WorkKinds, OpKinds
<1>2. /\ Served(c) /\ l = looperOf[c] /\ Flags(c, TRUE, TRUE, FALSE)
      /\ Only(c, l, <<"set">>)
  BY <1>1, Turn
<1> DEFINE s == <<>>
<1>3. /\ Runs(l, "set", c, s)
      /\ UNCHANGED <<epoll, connSet, looperOf, state, kept, notified>>
      /\ attached' = attached \cup {c}
  BY <1>2 DEF Set, Flags, Runs, client
<1>4. s \in Seq(Ops) /\ Works(s, c, <<>>)
  BY Calls, CallKinds
<1>5. \A i \in DOMAIN s : s[i].c = c
  BY DEF Op
<1> HIDE DEF s
<1>6. Only(c, l, <<>>)'
  <2>1. Only(c, l, <<>> \o Tail(<<"set">>))'
    BY <1>1, <1>2, <1>3, <1>4, OnlyStep, Zenon
  <2> QED BY <2>1, Tails, Joins
<1>7. \A d \in Conns \ {c} : Untouched(d)
  BY <1>3 DEF Untouched, epoll
<1>8. Stage(c)'
  <2>1. Served(c)' /\ Flags(c, TRUE, TRUE, TRUE)' /\ looperOf'[c] = l
    BY <1>1, <1>2, <1>3 DEF Served, Forgotten, Flags, TypeOK, epoll
  <2>2. Nothing(c)'
    BY <1>6 DEF Only, Nothing
  <2> QED BY <2>1, <2>2 DEF Stage, Resting
<1>9. \A d \in Conns \ {c} : SameWork(d)
  BY <1>1, <1>3, <1>4, <1>5, OthersStay DEF WorkKinds
<1> QED BY <1>1, <1>7, <1>8, <1>9, Others

LEMMA DelStep ==
  ASSUME IInv, NEW l \in Pool, NEW c \in Conns, Del(l, c)
  PROVE  StagesStep(c)
<1> USE Words
<1>1. TypeOK /\ (\A d \in Conns : Stage(d)) /\ "del" \in WorkKinds /\ At(l, "del", c)
  BY DEF IInv, Del, WorkKinds, OpKinds
<1>2. /\ Served(c) /\ l = looperOf[c] /\ Flags(c, TRUE, TRUE, TRUE)
      /\ Only(c, l, <<"del", "clear", "close", "notify">>)
  BY <1>1, Turn
<1> DEFINE s == <<>>
<1>3. /\ Runs(l, "del", c, s)
      /\ UNCHANGED <<fdOpen, server, kept, notified>>
      /\ registered' = registered \ {c}
  BY <1>2 DEF Del, Flags, Runs, client
<1>4. s \in Seq(Ops) /\ Works(s, c, <<>>)
  BY Calls, CallKinds
<1>5. \A i \in DOMAIN s : s[i].c = c
  BY DEF Op
<1> HIDE DEF s
<1>6. Only(c, l, <<"clear", "close", "notify">>)'
  <2>1. Only(c, l, <<>> \o Tail(<<"del", "clear", "close", "notify">>))'
    BY <1>1, <1>2, <1>3, <1>4, OnlyStep, Zenon
  <2> QED BY <2>1, Tails, Joins
<1>7. \A d \in Conns \ {c} : Untouched(d)
  BY <1>3 DEF Untouched, server
<1>8. Stage(c)'
  <2>1. Served(c)' /\ Flags(c, TRUE, FALSE, TRUE)' /\ looperOf'[c] = l
    BY <1>1, <1>2, <1>3 DEF Served, Forgotten, Flags, TypeOK, server
  <2> QED BY <1>2, <1>6, <2>1 DEF Stage, Closing, Mine
<1>9. \A d \in Conns \ {c} : SameWork(d)
  BY <1>1, <1>3, <1>4, <1>5, OthersStay DEF WorkKinds
<1> QED BY <1>1, <1>7, <1>8, <1>9, Others

LEMMA ClearStep ==
  ASSUME IInv, NEW l \in Pool, NEW c \in Conns, Clear(l, c)
  PROVE  StagesStep(c)
<1> USE Words
<1>1. TypeOK /\ (\A d \in Conns : Stage(d)) /\ "clear" \in WorkKinds /\ At(l, "clear", c)
  BY DEF IInv, Clear, WorkKinds, OpKinds
<1>2. /\ Served(c) /\ l = looperOf[c] /\ Flags(c, TRUE, FALSE, TRUE)
      /\ Only(c, l, <<"clear", "close", "notify">>)
  BY <1>1, Turn
<1> DEFINE s == <<>>
<1>3. /\ Runs(l, "clear", c, s)
      /\ UNCHANGED <<epoll, connSet, looperOf, state, kept, notified>>
      /\ attached' = attached \ {c}
  BY <1>2 DEF Clear, Flags, Runs, client
<1>4. s \in Seq(Ops) /\ Works(s, c, <<>>)
  BY Calls, CallKinds
<1>5. \A i \in DOMAIN s : s[i].c = c
  BY DEF Op
<1> HIDE DEF s
<1>6. Only(c, l, <<"close", "notify">>)'
  <2>1. Only(c, l, <<>> \o Tail(<<"clear", "close", "notify">>))'
    BY <1>1, <1>2, <1>3, <1>4, OnlyStep, Zenon
  <2> QED BY <2>1, Tails, Joins
<1>7. \A d \in Conns \ {c} : Untouched(d)
  BY <1>3 DEF Untouched, epoll
<1>8. Stage(c)'
  <2>1. Served(c)' /\ Flags(c, TRUE, FALSE, FALSE)' /\ looperOf'[c] = l
    BY <1>1, <1>2, <1>3 DEF Served, Forgotten, Flags, TypeOK, epoll
  <2> QED BY <1>2, <1>6, <2>1 DEF Stage, Closing, Mine
<1>9. \A d \in Conns \ {c} : SameWork(d)
  BY <1>1, <1>3, <1>4, <1>5, OthersStay DEF WorkKinds
<1> QED BY <1>1, <1>7, <1>8, <1>9, Others

LEMMA CloseStep ==
  ASSUME IInv, NEW l \in Pool, NEW c \in Conns, CloseFd(l, c)
  PROVE  StagesStep(c)
<1> USE Words
<1>1. TypeOK /\ (\A d \in Conns : Stage(d)) /\ "close" \in WorkKinds /\ At(l, "close", c)
  BY DEF IInv, CloseFd, WorkKinds, OpKinds
<1>2. /\ Served(c) /\ l = looperOf[c] /\ Flags(c, TRUE, FALSE, FALSE)
      /\ Only(c, l, <<"close", "notify">>)
  BY <1>1, Turn
<1> DEFINE s == <<>>
<1>3. /\ Runs(l, "close", c, s)
      /\ UNCHANGED <<server, kept, notified>>
      /\ registered' = registered \ {c} /\ fdOpen' = fdOpen \ {c}
  BY <1>2 DEF CloseFd, Flags, Runs, client
<1>4. s \in Seq(Ops) /\ Works(s, c, <<>>)
  BY Calls, CallKinds
<1>5. \A i \in DOMAIN s : s[i].c = c
  BY DEF Op
<1> HIDE DEF s
<1>6. Only(c, l, <<"notify">>)'
  <2>1. Only(c, l, <<>> \o Tail(<<"close", "notify">>))'
    BY <1>1, <1>2, <1>3, <1>4, OnlyStep, Zenon
  <2> QED BY <2>1, Tails, Joins
<1>7. \A d \in Conns \ {c} : Untouched(d)
  BY <1>3 DEF Untouched, server
<1>8. Stage(c)'
  <2>1. Served(c)' /\ Flags(c, FALSE, FALSE, FALSE)' /\ looperOf'[c] = l
    BY <1>1, <1>2, <1>3 DEF Served, Forgotten, Flags, TypeOK, server
  <2> QED BY <1>2, <1>6, <2>1 DEF Stage, Closing, Mine
<1>9. \A d \in Conns \ {c} : SameWork(d)
  BY <1>1, <1>3, <1>4, <1>5, OthersStay DEF WorkKinds
<1> QED BY <1>1, <1>7, <1>8, <1>9, Others

LEMMA RemoveStep ==
  ASSUME IInv, NEW l \in Pool, NEW c \in Conns, RemoveConn(l, c)
  PROVE  StagesStep(c)
<1> USE Words
<1>1. TypeOK /\ (\A d \in Conns : Stage(d)) /\ "remove" \in WorkKinds /\ At(l, "remove", c)
  BY DEF IInv, RemoveConn, WorkKinds, OpKinds
<1>2. /\ Forgotten(c) /\ l = Main
      /\ Only(c, l, <<"remove">>)
  BY <1>1, Turn
<1> DEFINE s == <<Op("detach", c), Op("erase", c)>>
<1>3. /\ Runs(l, "remove", c, s)
      /\ UNCHANGED <<epoll, server, kept, notified>>
  BY <1>2 DEF RemoveConn, Flags, Runs, client
<1>4. s \in Seq(Ops) /\ Works(s, c, <<"detach", "erase">>)
  BY Calls, CallKinds
<1>5. \A i \in DOMAIN s : s[i].c = c
  BY DEF Op
<1> HIDE DEF s
<1>6. Only(c, l, <<"detach", "erase">>)'
  <2>1. Only(c, l, <<"detach", "erase">> \o Tail(<<"remove">>))'
    BY <1>1, <1>2, <1>3, <1>4, OnlyStep, Zenon
  <2> QED BY <2>1, Tails, Joins
<1>7. \A d \in Conns \ {c} : Untouched(d)
  BY <1>3 DEF Untouched, epoll, server
<1>8. Stage(c)'
  <2>1. Forgotten(c)'
    BY <1>1, <1>2, <1>3 DEF Served, Forgotten, Flags, TypeOK, epoll, server
  <2> QED BY <1>2, <1>6, <2>1 DEF Stage, Leaving, Mine
<1>9. \A d \in Conns \ {c} : SameWork(d)
  BY <1>1, <1>3, <1>4, <1>5, OthersStay DEF WorkKinds
<1> QED BY <1>1, <1>7, <1>8, <1>9, Others

LEMMA EraseStep ==
  ASSUME IInv, NEW l \in Pool, NEW c \in Conns, Erase(l, c)
  PROVE  StagesStep(c)
<1> USE Words
<1>1. TypeOK /\ (\A d \in Conns : Stage(d)) /\ "erase" \in WorkKinds /\ At(l, "erase", c)
  BY DEF IInv, Erase, WorkKinds, OpKinds
<1>2. /\ Forgotten(c) /\ l = Main
      /\ Only(c, l, <<"erase">>)
  BY <1>1, Turn
<1> DEFINE s == <<>>
<1>3. /\ Runs(l, "erase", c, s)
      /\ UNCHANGED <<epoll, looperOf, attached, state, kept, notified>>
      /\ connSet' = connSet \ {c}
  BY <1>2 DEF Erase, Flags, Runs, client
<1>4. s \in Seq(Ops) /\ Works(s, c, <<>>)
  BY Calls, CallKinds
<1>5. \A i \in DOMAIN s : s[i].c = c
  BY DEF Op
<1> HIDE DEF s
<1>6. Only(c, l, <<>>)'
  <2>1. Only(c, l, <<>> \o Tail(<<"erase">>))'
    BY <1>1, <1>2, <1>3, <1>4, OnlyStep, Zenon
  <2> QED BY <2>1, Tails, Joins
<1>7. \A d \in Conns \ {c} : Untouched(d)
  BY <1>3 DEF Untouched, epoll
<1>8. Stage(c)'
  <2>1. /\ state'[c] = "live" /\ c \notin connSet' /\ c \notin kept'
        /\ notified'[c] = 1 /\ Flags(c, FALSE, FALSE, FALSE)'
    BY <1>1, <1>2, <1>3 DEF Served, Forgotten, Flags, TypeOK, epoll
  <2>2. Nothing(c)'
    BY <1>6 DEF Only, Nothing
  <2> QED BY <2>1, <2>2 DEF Stage, Left
<1>9. \A d \in Conns \ {c} : SameWork(d)
  BY <1>1, <1>3, <1>4, <1>5, OthersStay DEF WorkKinds
<1> QED BY <1>1, <1>7, <1>8, <1>9, Others


\* Channel::detach finds the flag set when the connection ends and unset when
\* it is removed.
LEMMA DetachStep ==
  ASSUME IInv, NEW l \in Pool, NEW c \in Conns, Detach(l, c)
  PROVE  StagesStep(c)
<1> USE Words
<1>1. TypeOK /\ (\A d \in Conns : Stage(d)) /\ "detach" \in WorkKinds /\ At(l, "detach", c)
  BY DEF IInv, Detach, WorkKinds, OpKinds
<1>2. UNCHANGED <<epoll, server, kept, notified>>
  BY DEF Detach, client
<1>3. \A d \in Conns : Untouched(d)
  BY <1>2 DEF Untouched, epoll, server
<1>4. CASE /\ Served(c) /\ l = looperOf[c] /\ Flags(c, TRUE, TRUE, TRUE)
           /\ Only(c, l, <<"detach", "close", "notify">>)
  <2> DEFINE s == <<Op("del", c), Op("clear", c)>>
  <2>1. Runs(l, "detach", c, s)
    BY <1>4 DEF Detach, Flags, Runs
  <2>2. s \in Seq(Ops) /\ Works(s, c, <<"del", "clear">>)
    BY Calls, CallKinds
  <2>3. \A i \in DOMAIN s : s[i].c = c
    BY DEF Op
  <2> HIDE DEF s
  <2>4. Only(c, l, <<"del", "clear", "close", "notify">>)'
    <3>1. Only(c, l, <<"del", "clear">> \o Tail(<<"detach", "close", "notify">>))'
      BY <1>1, <1>4, <2>1, <2>2, OnlyStep, Zenon
    <3> QED BY <3>1, Tails, Joins
  <2>5. Stage(c)'
    <3>1. Served(c)' /\ Flags(c, TRUE, TRUE, TRUE)' /\ looperOf'[c] = l
      BY <1>2, <1>4 DEF Served, Flags, epoll, server
    <3> QED BY <2>4, <3>1 DEF Stage, Closing, Mine
  <2>6. \A d \in Conns \ {c} : SameWork(d)
    BY <1>1, <2>1, <2>2, <2>3, OthersStay DEF WorkKinds
  <2> QED BY <1>1, <1>3, <2>5, <2>6, Others
<1>5. CASE Forgotten(c) /\ l = Main /\ Only(c, l, <<"detach", "erase">>)
  <2> DEFINE s == <<>>
  <2>1. Runs(l, "detach", c, s)
    BY <1>5 DEF Detach, Flags, Runs, Forgotten
  <2>2. s \in Seq(Ops) /\ Works(s, c, <<>>)
    BY Calls
  <2>3. \A i \in DOMAIN s : s[i].c = c
    OBVIOUS
  <2> HIDE DEF s
  <2>4. Only(c, l, <<"erase">>)'
    <3>1. Only(c, l, <<>> \o Tail(<<"detach", "erase">>))'
      BY <1>1, <1>5, <2>1, <2>2, OnlyStep, Zenon
    <3> QED BY <3>1, Tails, Joins
  <2>5. Stage(c)'
    <3>1. Forgotten(c)'
      BY <1>2, <1>5 DEF Forgotten, Flags, epoll, server
    <3> QED BY <1>5, <2>4, <3>1 DEF Stage, Leaving
  <2>6. \A d \in Conns \ {c} : SameWork(d)
    BY <1>1, <2>1, <2>2, <2>3, OthersStay DEF WorkKinds
  <2> QED BY <1>1, <1>3, <2>5, <2>6, Others
<1> QED BY <1>1, <1>4, <1>5, Turn

\* handleRead asks again, returns or ends the connection.
LEMMA ReadStep ==
  ASSUME IInv, NEW l \in Pool, NEW c \in Conns, Read(l, c)
  PROVE  StagesStep(c)
<1> USE Words
<1>1. TypeOK /\ (\A d \in Conns : Stage(d)) /\ "read" \in WorkKinds /\ At(l, "read", c)
  BY DEF IInv, Read, WorkKinds, OpKinds
<1>2. /\ Served(c) /\ l = looperOf[c] /\ Flags(c, TRUE, TRUE, TRUE)
      /\ Only(c, l, <<"read">>)
  BY <1>1, Turn
<1>3. UNCHANGED <<epoll, server, kept, notified>> /\ queue' = queue
  BY DEF Read, client
<1>4. \A d \in Conns : Untouched(d)
  BY <1>3 DEF Untouched, epoll, server
<1>5. Served(c)' /\ Flags(c, TRUE, TRUE, TRUE)' /\ looperOf'[c] = l
  BY <1>2, <1>3 DEF Served, Flags, epoll, server
<1>6. ASSUME NEW s \in Seq(Ops), NEW v \in Seq(WorkKinds), Works(s, c, v), Goes(l, s),
             \A i \in DOMAIN s : s[i].c = c
      PROVE  Only(c, l, v)' /\ \A d \in Conns \ {c} : SameWork(d)
  <2>1. Runs(l, "read", c, s)
    BY <1>1, <1>3, <1>6 DEF Runs
  <2>2. Only(c, l, v \o Tail(<<"read">>))'
    BY <1>1, <1>2, <1>6, <2>1, OnlyStep, Zenon
  <2>3. v \o Tail(<<"read">>) = v
    BY Tails, Joins
  <2>4. \A d \in Conns \ {c} : SameWork(d)
    BY <1>1, <1>6, <2>1, OthersStay DEF WorkKinds
  <2> QED BY <2>2, <2>3, <2>4
<1>7. CASE Goes(l, <<Op("read", c)>>)
  <2>1. <<Op("read", c)>> \in Seq(Ops) /\ Works(<<Op("read", c)>>, c, <<"read">>)
    BY Calls, CallKinds
  <2>2. \A i \in DOMAIN <<Op("read", c)>> : <<Op("read", c)>>[i].c = c
    BY DEF Op
  <2>3. Only(c, l, <<"read">>)' /\ \A d \in Conns \ {c} : SameWork(d)
    BY <1>6, <1>7, <2>1, <2>2, Zenon
  <2>4. Stage(c)'
    BY <1>5, <2>3 DEF Stage, Reading, Mine
  <2> QED BY <1>1, <1>4, <2>3, <2>4, Others
<1>8. CASE Goes(l, <<>>)
  <2>1. <<>> \in Seq(Ops) /\ Works(<<>>, c, <<>>)
    BY Calls
  <2>2. \A i \in DOMAIN <<>> : <<>>[i].c = c
    OBVIOUS
  <2>3. Only(c, l, <<>>)' /\ \A d \in Conns \ {c} : SameWork(d)
    BY <1>6, <1>8, <2>1, <2>2, Zenon
  <2>4. Nothing(c)'
    BY <2>3 DEF Only, Nothing
  <2>5. Stage(c)'
    BY <1>5, <2>4 DEF Stage, Resting
  <2> QED BY <1>1, <1>4, <2>3, <2>5, Others
<1>9. CASE Goes(l, <<Op("detach", c), Op("close", c), Op("notify", c)>>)
  <2> DEFINE s == <<Op("detach", c), Op("close", c), Op("notify", c)>>
  <2>1. s \in Seq(Ops) /\ Works(s, c, <<"detach", "close", "notify">>)
    BY Calls, CallKinds
  <2>2. \A i \in DOMAIN s : s[i].c = c
    BY DEF Op
  <2>3. Only(c, l, <<"detach", "close", "notify">>)' /\ \A d \in Conns \ {c} : SameWork(d)
    BY <1>6, <1>9, <2>1, <2>2, Zenon
  <2>4. Stage(c)'
    BY <1>5, <2>3 DEF Stage, Closing, Mine
  <2> QED BY <1>1, <1>4, <2>3, <2>4, Others
<1> QED BY <1>7, <1>8, <1>9 DEF Read

\* A post appends to the line of the thread it is for.
LEMMA Posted ==
  ASSUME TypeOK, NEW m \in Pool, NEW c \in Conns, NEW k \in WorkKinds \cup {"send"},
         queue'[m] = Append(queue[m], Op(k, c)), todo'[m] = todo[m]
  PROVE  /\ Line(m)' = Line(m) \o <<Op(k, c)>>
         /\ \A w \in Seq(WorkKinds) : Works(Line(m), c, w) =>
              Works(Line(m)', c, IF k = "send" THEN w ELSE w \o <<k>>)
         /\ \A d \in Conns \ {c} : \A w \in Seq(WorkKinds) :
              Works(Line(m), d, w) => Works(Line(m)', d, w)
<1>1. /\ todo[m] \in Seq(Ops) /\ queue[m] \in Seq(Ops) /\ Line(m) \in Seq(Ops)
  BY LineTypes
<1>2. Op(k, c) \in Ops /\ <<Op(k, c)>> \in Seq(Ops)
  BY Calls, CallKinds DEF Op, Ops
<1>3. todo[m] \o Append(queue[m], Op(k, c)) = (todo[m] \o queue[m]) \o <<Op(k, c)>>
  <2> DEFINE a == todo[m]
             b == queue[m]
             o == Op(k, c)
  <2>1. a \in Seq(Ops) /\ b \in Seq(Ops) /\ o \in Ops
    BY <1>1, <1>2
  <2> HIDE DEF a, b, o
  <2>2. a \o Append(b, o) = (a \o b) \o <<o>>
    BY <2>1, AppendBehind
  <2> QED BY <2>2 DEF a, b, o
<1>4. Line(m)' = Line(m) \o <<Op(k, c)>>
  BY <1>3 DEF Line
<1>5. ASSUME NEW w \in Seq(WorkKinds), Works(Line(m), c, w), k # "send"
      PROVE  Works(Line(m)', c, w \o <<k>>)
  <2>1. <<k>> \in Seq(WorkKinds) /\ Works(<<Op(k, c)>>, c, <<k>>)
    BY <1>5, OneWork
  <2> QED BY <1>1, <1>2, <1>4, <1>5, <2>1, WorkConcat
<1>6. ASSUME NEW d \in Conns, NEW w \in Seq(WorkKinds), Works(Line(m), d, w),
             d # c \/ k = "send"
      PROVE  Works(Line(m)', d, w)
  <2>1. \A i \in DOMAIN <<Op(k, c)>> : ~Work(<<Op(k, c)>>[i], d)
    BY <1>6 DEF Work, Op, WorkKinds
  <2>2. Works(<<Op(k, c)>>, d, <<>>)
    BY <1>2, <2>1, NoWork, Zenon
  <2>3. Works(Line(m) \o <<Op(k, c)>>, d, w \o <<>>)
    BY <1>1, <1>2, <1>6, <2>2, Words, WorkConcat, Zenon
  <2> QED BY <1>4, <2>3, Joins
<1> QED BY <1>4, <1>5, <1>6

\* The close handler forgets the connection and has it removed.
LEMMA NotifyStep ==
  ASSUME IInv, NEW l \in Pool, NEW c \in Conns, Notify(l, c)
  PROVE  StagesStep(c) /\ c \notin fdOpen /\ c \in kept
<1> USE Words
<1>1. TypeOK /\ (\A d \in Conns : Stage(d)) /\ "notify" \in WorkKinds /\ At(l, "notify", c)
  BY DEF IInv, Notify, WorkKinds, OpKinds
<1>2. /\ Served(c) /\ l = looperOf[c] /\ Flags(c, FALSE, FALSE, FALSE)
      /\ Only(c, l, <<"notify">>)
  BY <1>1, Turn
<1>3. /\ UNCHANGED <<epoll, server>> /\ kept' = kept \ {c}
      /\ notified' = [notified EXCEPT ![c] = @ + 1]
  BY DEF Notify, Handler
<1>4. \A d \in Conns \ {c} : Untouched(d)
  BY <1>3 DEF Untouched, epoll, server
<1>5. Forgotten(c)'
  BY <1>1, <1>2, <1>3 DEF Served, Forgotten, Flags, epoll, server, TypeOK
<1>6. CASE l = Main
  <2> DEFINE s == <<Op("remove", c), Op("release", c)>>
  <2>1. Runs(l, "notify", c, s)
    BY <1>1, <1>6 DEF Notify, Handler, Runs
  <2>2. s \in Seq(Ops) /\ Works(s, c, <<"remove">>)
    BY Calls, CallKinds
  <2>3. \A i \in DOMAIN s : s[i].c = c
    BY DEF Op
  <2> HIDE DEF s
  <2>4. Only(c, l, <<"remove">>)'
    <3>1. Only(c, l, <<"remove">> \o Tail(<<"notify">>))'
      BY <1>1, <1>2, <2>1, <2>2, OnlyStep, Zenon
    <3> QED BY <3>1, Tails, Joins
  <2>5. Stage(c)'
    BY <1>5, <1>6, <2>4 DEF Stage, Leaving
  <2>6. \A d \in Conns \ {c} : SameWork(d)
    BY <1>1, <2>1, <2>2, <2>3, OthersStay DEF WorkKinds
  <2>7. StagesStep(c)
    BY <1>1, <1>4, <2>5, <2>6, Others
  <2> QED BY <1>2, <2>7 DEF Served, Flags
<1>7. CASE l # Main
  <2>1. Main \in Pool
    BY MainInPool
  <2>2. /\ Goes(l, <<Op("release", c)>>)
        /\ queue' = [queue EXCEPT ![Main] = Append(@, Op("remove", c))]
    BY <1>7 DEF Notify, Handler, PostRemove
  <2>3. /\ queue'[Main] = Append(queue[Main], Op("remove", c)) /\ todo'[Main] = todo[Main]
        /\ \A m \in Pool \ {Main} : queue'[m] = queue[m]
        /\ \A m \in Pool \ {l} : todo'[m] = todo[m]
        /\ todo'[l] = <<Op("release", c)>> \o Tail(todo[l])
    BY <1>1, <1>7, <2>1, <2>2 DEF Goes, TypeOK
  <2>4. \A m \in Pool \ {l, Main} : Line(m)' = Line(m)
    BY <2>3 DEF Line
  <2>5. /\ todo[l] \in Seq(Ops) /\ queue[l] \in Seq(Ops) /\ Line(l) \in Seq(Ops)
        /\ <<Op("release", c)>> \in Seq(Ops) /\ todo[l] # <<>>
        /\ Head(todo[l]) = Op("notify", c)
    BY <1>1, LineTypes, Calls, CallKinds DEF At
  <2>6. /\ Line(l)' = <<Op("release", c)>> \o Tail(Line(l))
        /\ Line(l) # <<>> /\ Head(Line(l)) = Op("notify", c)
    <3> DEFINE s == <<Op("release", c)>>
    <3>1. s \in Seq(Ops) /\ todo'[l] = s \o Tail(todo[l]) /\ queue'[l] = queue[l]
      BY <1>7, <2>3, <2>5
    <3> HIDE DEF s
    <3>2. /\ todo[l] \o queue[l] # <<>> /\ Head(todo[l] \o queue[l]) = Head(todo[l])
          /\ (s \o Tail(todo[l])) \o queue[l] = s \o Tail(todo[l] \o queue[l])
      <4>1. /\ todo[l] \in Seq(Ops) /\ queue[l] \in Seq(Ops) /\ s \in Seq(Ops)
            /\ todo[l] # <<>>
        BY <2>5, <3>1
      <4> QED BY ONLY <4>1, TakeFront, Zenon
    <3>3. Line(l)' = s \o Tail(Line(l))
      BY <3>1, <3>2 DEF Line
    <3> QED BY <2>5, <3>2, <3>3 DEF Line, s
  <2>7. Tail(Line(l)) \in Seq(Ops)
    BY <2>5, <2>6
  <2>8. Works(Line(l)', c, <<>>)
    <3>1. Works(Tail(Line(l)), c, Tail(<<"notify">>))
      BY <1>1, <1>2, <2>5, <2>6, WorkHead DEF Only
    <3>2. Works(<<Op("release", c)>>, c, <<>>)
      BY Calls
    <3>3. Works(<<Op("release", c)>> \o Tail(Line(l)), c, <<>> \o <<>>)
      BY <2>5, <2>7, <3>1, <3>2, Tails, WorkConcat
    <3> QED BY <2>6, <3>3, Joins
  <2>9. Works(Line(Main)', c, <<"remove">>)
    <3>1. Works(Line(Main), c, <<>>)
      BY <1>2, <1>7, <2>1 DEF Only
    <3>2. "remove" \in WorkKinds \cup {"send"}
      BY DEF WorkKinds, OpKinds
    <3>3. Works(Line(Main)', c, <<>> \o <<"remove">>)
      BY <1>1, <2>1, <2>3, <3>1, <3>2, Posted
    <3> QED BY <3>3, Joins
  <2>10. Only(c, Main, <<"remove">>)'
    BY <1>2, <2>4, <2>8, <2>9 DEF Only
  <2>11. Stage(c)'
    BY <1>5, <2>10 DEF Stage, Leaving
  <2>12. ASSUME NEW d \in Conns \ {c} PROVE SameWork(d)
    <3> SUFFICES ASSUME NEW m \in Pool, NEW w \in Seq(WorkKinds), Works(Line(m), d, w)
                 PROVE  Works(Line(m)', d, w)
      BY DEF SameWork
    <3>1. CASE m = Main
      <4>1. "remove" \in WorkKinds \cup {"send"}
        BY DEF WorkKinds, OpKinds
      <4> QED BY <1>1, <2>1, <2>3, <3>1, <4>1, Posted
    <3>2. CASE m = l
      <4>1. ~Work(Head(Line(l)), d)
        BY <2>6 DEF Work, Op
      <4>2. Works(Tail(Line(l)), d, w)
        BY <2>5, <2>6, <3>2, <4>1, WorkOther
      <4>3. \A i \in DOMAIN <<Op("release", c)>> : ~Work(<<Op("release", c)>>[i], d)
        BY DEF Work, Op
      <4>4. Works(<<Op("release", c)>>, d, <<>>)
        BY <2>5, <4>3, NoWork
      <4>5. Works(<<Op("release", c)>> \o Tail(Line(l)), d, <<>> \o w)
        BY <2>5, <2>7, <4>2, <4>4, WorkConcat, Zenon
      <4> QED BY <2>6, <3>2, <4>5, Joins
    <3>3. CASE m \in Pool \ {l, Main}
      BY <2>4, <3>3
    <3> QED BY <3>1, <3>2, <3>3
  <2>13. StagesStep(c)
    BY <1>1, <1>4, <2>11, <2>12, Others
  <2> QED BY <1>2, <2>13 DEF Served, Flags
<1> QED BY <1>6, <1>7

\* What is in sequences that are put together and taken apart.
LEMMA Elements ==
  ASSUME NEW S, NEW s \in Seq(S), NEW t \in Seq(S)
  PROVE  /\ In(s) \subseteq S
         /\ In(s \o t) = In(s) \cup In(t)
         /\ s # <<>> => Head(s) \in In(s) /\ In(Tail(s)) \subseteq In(s)
         /\ \A x \in S : In(Append(s, x)) = In(s) \cup {x}
<1>1. In(s) \subseteq S
  BY DEF In
<1>2. In(s \o t) = In(s) \cup In(t)
  <2> DEFINE u == s \o t
  <2>1. /\ Len(s) \in Nat /\ Len(t) \in Nat /\ DOMAIN s = 1 .. Len(s)
        /\ DOMAIN t = 1 .. Len(t) /\ DOMAIN u = 1 .. Len(s) + Len(t)
    OBVIOUS
  <2>2. /\ \A i \in 1 .. Len(s) : u[i] = s[i]
        /\ \A i \in 1 .. Len(t) : u[Len(s) + i] = t[i]
    OBVIOUS
  <2> HIDE DEF u
  <2>3. \A i \in DOMAIN u : i \in 1 .. Len(s) \/ (i - Len(s) \in 1 .. Len(t) /\ u[i] = t[i - Len(s)])
    <3> SUFFICES ASSUME NEW i \in DOMAIN u, i \notin 1 .. Len(s)
                 PROVE  i - Len(s) \in 1 .. Len(t) /\ u[i] = t[i - Len(s)]
      OBVIOUS
    <3>1. i - Len(s) \in 1 .. Len(t) /\ i = Len(s) + (i - Len(s))
      BY <2>1
    <3> QED BY <2>2, <3>1
  <2>4. In(u) \subseteq In(s) \cup In(t)
    BY <2>1, <2>2, <2>3 DEF In
  <2>5. \A i \in 1 .. Len(t) : Len(s) + i \in DOMAIN u
    BY <2>1
  <2>6. \A i \in 1 .. Len(s) : i \in DOMAIN u
    BY <2>1
  <2>7. In(s) \subseteq In(u) /\ In(t) \subseteq In(u)
    BY <2>1, <2>2, <2>5, <2>6 DEF In
  <2> QED BY <2>4, <2>7 DEF u
<1>3. s # <<>> => Head(s) \in In(s) /\ In(Tail(s)) \subseteq In(s)
  <2> SUFFICES ASSUME s # <<>> PROVE Head(s) \in In(s) /\ In(Tail(s)) \subseteq In(s)
    OBVIOUS
  <2> DEFINE u == Tail(s)
  <2>1. /\ 1 \in DOMAIN s /\ Head(s) = s[1]
        /\ \A i \in DOMAIN u : i + 1 \in DOMAIN s /\ u[i] = s[i + 1]
    OBVIOUS
  <2> HIDE DEF u
  <2>2. In(u) \subseteq In(s)
    BY <2>1 DEF In
  <2> QED BY <2>1, <2>2 DEF In, u
<1>4. ASSUME NEW x \in S PROVE In(Append(s, x)) = In(s) \cup {x}
  <2> DEFINE u == Append(s, x)
  <2>1. /\ Len(s) \in Nat /\ DOMAIN s = 1 .. Len(s) /\ DOMAIN u = 1 .. Len(s) + 1
        /\ u[Len(s) + 1] = x /\ \A i \in 1 .. Len(s) : u[i] = s[i]
    OBVIOUS
  <2> HIDE DEF u
  <2>2. \A i \in DOMAIN u : i \in DOMAIN s \/ i = Len(s) + 1
    BY <2>1
  <2>3. Len(s) + 1 \in DOMAIN u /\ \A i \in DOMAIN s : i \in DOMAIN u
    BY <2>1
  <2>4. In(u) = In(s) \cup {x}
    BY <2>1, <2>2, <2>3 DEF In
  <2> QED BY <2>4 DEF u
<1> QED BY <1>1, <1>2, <1>3, <1>4

\* The thread that drops the last shared_ptr drops that of a connection which
\* has left.
LEMMA ReleaseStep ==
  ASSUME IInv, NEW l \in Pool, NEW c \in Conns, Release(l, c)
  PROVE  /\ StagesStep(c) /\ (Resting(c) => Resting(c)')
         /\ state[c] = "live" /\ failure' = failure
         /\ \/ state' = state
            \/ Left(c) /\ state' = [state EXCEPT ![c] = "destroyed"] /\ ~HeldElsewhere(l, c)
<1>1. /\ TypeOK /\ (\A d \in Conns : Stage(d)) /\ At(l, "release", c)
      /\ Goes(l, <<>>) /\ queue' = queue
  BY DEF IInv, Release
<1>2. \A d \in Conns : SameWork(d)
  BY <1>1, NoWorkStays DEF Runs
<1>3. state[c] = "live"
  <2>1. todo[l] \in Seq(Ops) /\ todo[l] # <<>> /\ Head(todo[l]) = Op("release", c)
    BY <1>1, LineTypes DEF At
  <2>2. Op("release", c) \in In(todo[l])
    BY <2>1, Elements
  <2> QED BY <2>2 DEF IInv, HeldLives
<1>4. CASE HeldElsewhere(l, c)
  <2>1. UNCHANGED <<state, epoll, failure, connSet, looperOf, attached, kept, notified>>
    BY <1>4 DEF Release, client
  <2>2. \A d \in Conns : Untouched(d)
    BY <2>1 DEF Untouched, epoll
  <2>3. \A d \in Conns : Stage(d)' /\ (Resting(d) => Resting(d)')
    BY <1>1, <1>2, <2>2, StageKept
  <2> QED BY <1>3, <2>1, <2>3 DEF StagesStep
<1>5. CASE ~HeldElsewhere(l, c)
  <2>1. c \notin connSet /\ c \notin kept
    BY <1>5 DEF HeldElsewhere
  <2>2. Left(c)
    BY <1>1, <1>3, <2>1 DEF Stage, Fresh, Attaching, Resting, Reading, Closing, Leaving,
      Forgotten, Served
  <2>3. /\ UNCHANGED <<connSet, looperOf, attached, kept, notified>>
        /\ state' = [state EXCEPT ![c] = "destroyed"]
        /\ fdOpen' = fdOpen \ {c} /\ registered' = registered \ {c}
        /\ Fails(c, c \in attached)
    BY <1>5 DEF Release, client
  <2>4. failure' = failure
    BY <1>3, <2>2, <2>3 DEF Fails, Left, Flags
  <2>5. \A d \in Conns \ {c} : Untouched(d)
    BY <1>1, <2>3 DEF Untouched, TypeOK
  <2>6. Left(c)'
    <3>1. Nothing(c)'
      BY <1>2, <2>2, Words DEF Left, Nothing, SameWork
    <3> QED BY <1>1, <2>2, <2>3, <3>1 DEF Left, Flags, TypeOK
  <2>7. Stage(c)' /\ ~Resting(c)
    BY <2>2, <2>6 DEF Stage, Left, Resting, Served
  <2>8. StagesStep(c)
    BY <1>1, <1>2, <2>5, <2>7, Others
  <2> QED BY <1>3, <1>5, <2>2, <2>3, <2>4, <2>7, <2>8
<1> QED BY <1>4, <1>5

LEMMA SendStep ==
  ASSUME IInv, NEW l \in Pool, NEW c \in Conns, SendInternal(l, c)
  PROVE  /\ StagesStep(c) /\ (Resting(c) => Resting(c)')
         /\ sent # {} /\ (failure' = failure \/ failure' = "uaf")
<1>1. /\ TypeOK /\ (\A d \in Conns : Stage(d)) /\ At(l, "send", c)
      /\ Goes(l, <<>>) /\ queue' = queue
  BY DEF IInv, SendInternal
<1>2. \A d \in Conns : SameWork(d)
  BY <1>1, NoWorkStays DEF Runs
<1>3. sent # {}
  <2>1. todo[l] \in Seq(Ops) /\ todo[l] # <<>> /\ Head(todo[l]) = Op("send", c)
    BY <1>1, LineTypes DEF At
  <2>2. Op("send", c) \in In(todo[l]) /\ Op("send", c).op = "send"
    BY <2>1, Elements DEF Op
  <2> QED BY <2>2 DEF IInv, SendsAsked
<1>4. UNCHANGED <<epoll, server, kept, notified>> /\ Fails(c, FALSE)
  BY DEF SendInternal, client
<1>5. \A d \in Conns : Untouched(d)
  BY <1>4 DEF Untouched, epoll, server
<1>6. \A d \in Conns : Stage(d)' /\ (Resting(d) => Resting(d)')
  BY <1>1, <1>2, <1>5, StageKept
<1> QED BY <1>3, <1>4, <1>6 DEF StagesStep, Fails

------------------------------------------------------------------------------
(* The dispatch of events *)

\* What the end of executeRunnables drops was bound in a runnable.
LEMMA ReleasesBound ==
  ASSUME NEW q \in Seq(Ops)
  PROVE  LET S == {o \in Ops : o.op = "release" /\ \E x \in In(q) : x.c = o.c /\ x.op # "send"}
         IN  Releases(q) \in Seq(S)
<1> DEFINE S == {o \in Ops : o.op = "release" /\ \E x \in In(q) : x.c = o.c /\ x.op # "send"}
           N == Len(q)
           step == [p \in (1 .. N) \X Seq(S) |->
                      IF q[p[1]].op = "send" THEN p[2]
                      ELSE Append(p[2], Op("release", q[p[1]].c))]
<1>1. N \in Nat /\ DOMAIN q = 1 .. N /\ \A n \in 1 .. N : q[n] \in Ops
  OBVIOUS
<1>2. \A n \in 1 .. N : q[n].op # "send" => Op("release", q[n].c) \in S
  BY <1>1 DEF Op, Ops, OpKinds, In
<1> HIDE DEF S, N
<1>3. \A n \in 1 .. N : \A s \in Seq(S) :
        (IF q[n].op = "send" THEN s ELSE Append(s, Op("release", q[n].c))) \in Seq(S)
  BY <1>2
<1>4. step \in [(1 .. N) \X Seq(S) -> Seq(S)]
  BY <1>3
<1>5. \A n \in 1 .. N : \A s \in Seq(S) :
        step[<<n, s>>] = IF q[n].op = "send" THEN s ELSE Append(s, Op("release", q[n].c))
  OBVIOUS
<1>6. <<>> \in Seq(S)
  OBVIOUS
<1> HIDE DEF step
<1>7. PICK g \in [0 .. N -> Seq(S)] :
        g[0] = <<>> /\ \A n \in 1 .. N : g[n] = step[<<n, g[n - 1]>>]
  <2> DEFINE Q == Seq(S)
             e == <<>>
  <2>1. N \in Nat /\ e \in Q /\ step \in Steps(N, Q)
    BY <1>1, <1>4, <1>6 DEF Steps
  <2> HIDE DEF Q, e
  <2>2. \E g : Recurs(g, Q, e, N, step)
    BY <2>1, RecursionExists, Zenon
  <2> QED BY <2>2 DEF Recurs, Q, e
<1> DEFINE Fun(h) == h = [n \in 0 .. N |->
              IF n = 0 THEN <<>>
              ELSE IF q[n].op = "send" THEN h[n - 1] ELSE Append(h[n - 1], Op("release", q[n].c))]
           f == CHOOSE h : Fun(h)
<1>8. Fun(g)
  <2>1. \A n \in 0 .. N : n # 0 => n \in 1 .. N /\ g[n - 1] \in Seq(S)
    BY <1>1, <1>7
  <2>2. \A n \in 0 .. N : g[n] =
              IF n = 0 THEN <<>>
              ELSE IF q[n].op = "send" THEN g[n - 1] ELSE Append(g[n - 1], Op("release", q[n].c))
    BY <1>5, <1>7, <2>1
  <2> QED BY <1>7, <2>2
<1>9. Fun(f)
  BY <1>8
<1>10. Releases(q) = f[N]
  BY DEF Releases, N
<1> HIDE DEF f
<1>11. \A n \in Nat : n \in 0 .. N => f[n] \in Seq(S)
  <2> DEFINE T == {n \in Nat : n \in 0 .. N => f[n] \in Seq(S)}
  <2>1. 0 \in T
    BY <1>1, <1>6, <1>9
  <2>2. ASSUME NEW n \in T PROVE n + 1 \in T
    <3> SUFFICES ASSUME n + 1 \in 0 .. N PROVE f[n + 1] \in Seq(S)
      OBVIOUS
    <3>1. n \in 0 .. N /\ n + 1 \in 1 .. N /\ f[n] \in Seq(S) /\ (n + 1) - 1 = n /\ n + 1 # 0
      BY <1>1, <2>2
    <3>2. f[n + 1] = IF q[n + 1].op = "send" THEN f[n] ELSE Append(f[n], Op("release", q[n + 1].c))
      BY <1>9, <3>1
    <3> QED BY <1>3, <3>1, <3>2
  <2> HIDE DEF T
  <2>3. T \in SUBSET Nat
    BY DEF T
  <2>4. T = Nat
    BY <2>1, <2>2, <2>3, SetInduction
  <2> QED BY <2>4 DEF T
<1> QED BY <1>1, <1>10, <1>11 DEF S

\* A thread that is between two calls begins one.
LEMMA BeginStep ==
  ASSUME TypeOK, NEW l \in Pool, todo[l] = <<>>, NEW s \in Seq(Ops), Begin(l, s)
  PROVE  /\ queue'[l] = queue[l] =>
              /\ Line(l)' = s \o Line(l)
              /\ \A d \in Conns : \A v, w \in Seq(WorkKinds) :
                   Works(s, d, v) /\ Works(Line(l), d, w) => Works(Line(l)', d, v \o w)
         /\ queue'[l] = <<>> => Line(l)' = s
         /\ Line(l) = queue[l]
         /\ \A m \in Pool \ {l} : queue'[m] = queue[m] => Line(m)' = Line(m)
<1>1. queue[l] \in Seq(Ops)
  BY LineTypes
<1>2. todo'[l] = s /\ \A m \in Pool \ {l} : todo'[m] = todo[m]
  BY DEF Begin, TypeOK
<1>3. <<>> \o queue[l] = queue[l] /\ s \o <<>> = s
  BY <1>1
<1>4. Line(l) = queue[l]
  BY <1>3 DEF Line
<1>5. queue'[l] = queue[l] => Line(l)' = s \o Line(l)
  BY <1>2, <1>4 DEF Line
<1>6. ASSUME queue'[l] = queue[l], NEW d \in Conns, NEW v \in Seq(WorkKinds),
             NEW w \in Seq(WorkKinds), Works(s, d, v), Works(Line(l), d, w)
      PROVE  Works(Line(l)', d, v \o w)
  <2>1. Works(s \o Line(l), d, v \o w)
    BY <1>1, <1>4, <1>6, WorkConcat, Zenon
  <2> QED BY <1>5, <1>6, <2>1
<1>7. queue'[l] = <<>> => Line(l)' = s
  BY <1>2, <1>3 DEF Line
<1>8. \A m \in Pool \ {l} : queue'[m] = queue[m] => Line(m)' = Line(m)
  BY <1>2 DEF Line
<1> QED BY <1>4, <1>5, <1>6, <1>7, <1>8

\* An event of a connection starts handleRead.
LEMMA DispatchConnStep ==
  ASSUME IInv, NEW l \in Pool, NEW e \in batch[l], DispatchConn(l, e)
  PROVE  /\ e.c \in Conns /\ looperOf[e.c] = l /\ StagesStep(e.c)
         /\ Begin(l, <<Op("read", e.c)>>)
<1> USE Words
<1>1. TypeOK /\ (\A d \in Conns : Stage(d)) /\ e.kind = "conn" /\ todo[l] = <<>>
  BY DEF IInv, DispatchConn, Take, Idle
<1>2. e.c \in Conns
  BY <1>1, EventTypes
<1> DEFINE c == e.c
           s == <<Op("read", c)>>
<1>3. ~e.hup /\ e.op = "read" /\ looperOf[c] = l /\ Resting(c)
  BY <1>1 DEF IInv, EventsRest
<1>4. Begin(l, s)
  <2>1. <<>> \o <<Op("read", e.c)>> = <<Op("read", e.c)>>
    OBVIOUS
  <2> QED BY <1>3, <2>1 DEF DispatchConn
<1>5. UNCHANGED <<epoll, server, kept, notified>> /\ queue' = queue
  BY DEF DispatchConn, client, history
<1>6. \A d \in Conns : Untouched(d)
  BY <1>5 DEF Untouched, epoll, server
<1>7. s \in Seq(Ops) /\ Works(s, c, <<"read">>)
  BY <1>2, Calls, CallKinds
<1>8. \A i \in DOMAIN s : s[i].c = c
  BY DEF Op
<1> HIDE DEF c, s
<1>9. c \in Conns
  BY <1>2 DEF c
<1>10. Works(Line(l), c, <<>>) /\ \A m \in Pool : Works(Line(m), c, <<>>)
  BY <1>3 DEF Resting, Nothing
<1>11. Only(c, l, <<"read">>)'
  <2>1. Works(Line(l)', c, <<"read">> \o <<>>)
    BY <1>1, <1>4, <1>5, <1>7, <1>9, <1>10, BeginStep
  <2>2. \A m \in Pool \ {l} : Line(m)' = Line(m)
    BY <1>1, <1>4, <1>5, <1>7, BeginStep
  <2> QED BY <1>10, <2>1, <2>2, Joins DEF Only
<1>12. Stage(c)'
  <2>1. Served(c)' /\ Flags(c, TRUE, TRUE, TRUE)' /\ looperOf'[c] = l
    BY <1>3, <1>5 DEF Resting, Served, Flags, epoll, server
  <2> QED BY <1>11, <2>1 DEF Stage, Reading, Mine
<1>13. ASSUME NEW d \in Conns \ {c} PROVE SameWork(d)
  <2>1. Works(s, d, <<>>)
    <3>1. \A i \in DOMAIN s : ~Work(s[i], d)
      BY <1>8 DEF Work
    <3> QED BY <1>7, <3>1, NoWork
  <2> SUFFICES ASSUME NEW m \in Pool, NEW w \in Seq(WorkKinds), Works(Line(m), d, w)
               PROVE  Works(Line(m)', d, w)
    BY DEF SameWork
  <2>2. CASE m = l
    <3>1. Works(Line(l)', d, <<>> \o w)
      BY <1>1, <1>4, <1>5, <1>7, <2>1, <2>2, BeginStep
    <3> QED BY <2>2, <3>1, Joins
  <2>3. CASE m # l
    BY <1>1, <1>4, <1>5, <1>7, <2>3, BeginStep
  <2> QED BY <2>2, <2>3
<1>14. StagesStep(c)
  BY <1>1, <1>6, <1>9, <1>12, <1>13, Others
<1> QED BY <1>2, <1>3, <1>4, <1>14 DEF c, s

\* The runnables move from the queue to the call, nobody's work changes.
LEMMA DispatchRunStep ==
  ASSUME IInv, NEW l \in Pool, NEW e \in batch[l], DispatchRun(l, e)
  PROVE  /\ \A d \in Conns : Stage(d)' /\ (Resting(d) => Resting(d)')
         /\ queue[l] \o Releases(queue[l]) \in Seq(Ops)
         /\ \A d \in Conns : Op("release", d) \in In(todo'[l]) => state[d] = "live"
         /\ \A o \in In(todo'[l]) : o.op = "send" => o \in In(queue[l])
<1> USE Words
<1> DEFINE q == queue[l]
           r == Releases(q)
           s == q \o r
<1>1. TypeOK /\ (\A d \in Conns : Stage(d)) /\ todo[l] = <<>>
  BY DEF IInv, DispatchRun, Take, Idle
<1>2. queue[l] \in Seq(Posts) /\ queue[l] \in Seq(Ops)
  BY <1>1, LineTypes DEF TypeOK
<1>3. Begin(l, s) /\ queue' = [queue EXCEPT ![l] = <<>>]
  BY DEF DispatchRun
<1> DEFINE S == {o \in Ops : o.op = "release" /\ \E x \in In(q) : x.c = o.c /\ x.op # "send"}
<1>4. r \in Seq(S)
  BY <1>2, ReleasesBound
<1>5. q \in Seq(Posts) /\ q \in Seq(Ops)
  BY <1>2
<1> HIDE DEF q, r
<1>6. r \in Seq(Ops)
  BY <1>4
<1>7. s \in Seq(Ops) /\ In(s) = In(q) \cup In(r)
  BY <1>5, <1>6, Elements
<1>8. In(r) \subseteq S
  BY <1>4, Elements
<1>9. In(q) \subseteq Posts
  BY <1>5, Elements
<1> HIDE DEF s
<1>10. UNCHANGED <<epoll, server, kept, notified>>
  BY DEF DispatchRun, client, history
<1>11. \A d \in Conns : Untouched(d)
  BY <1>10 DEF Untouched, epoll, server
<1>12. queue'[l] = <<>> /\ \A m \in Pool \ {l} : queue'[m] = queue[m]
  BY <1>1, <1>3 DEF TypeOK
<1>13. Line(l)' = s /\ Line(l) = q /\ \A m \in Pool \ {l} : Line(m)' = Line(m)
  BY <1>1, <1>3, <1>7, <1>12, BeginStep DEF q
<1>14. ASSUME NEW d \in Conns PROVE SameWork(d)
  <2>1. Works(r, d, <<>>)
    <3>1. \A i \in DOMAIN r : r[i] \in S
      BY <1>4
    <3>2. \A i \in DOMAIN r : ~Work(r[i], d)
      BY <3>1 DEF Work, WorkKinds
    <3> QED BY <1>6, <3>2, NoWork
  <2> SUFFICES ASSUME NEW m \in Pool, NEW w \in Seq(WorkKinds), Works(Line(m), d, w)
               PROVE  Works(Line(m)', d, w)
    BY DEF SameWork
  <2>2. CASE m = l
    <3>1. Works(q \o r, d, w \o <<>>)
      BY <1>5, <1>6, <1>13, <2>1, <2>2, WorkConcat, Zenon
    <3> QED BY <1>13, <2>2, <3>1, Joins DEF s
  <2>3. CASE m # l
    BY <1>13, <2>3
  <2> QED BY <2>2, <2>3
<1>15. \A d \in Conns : Stage(d)' /\ (Resting(d) => Resting(d)')
  BY <1>1, <1>11, <1>14, StageKept
<1>16. todo'[l] = s
  BY <1>1, <1>3 DEF Begin, TypeOK
<1>17. ASSUME NEW d \in Conns, Op("release", d) \in In(todo'[l]) PROVE state[d] = "live"
  <2>1. Op("release", d) \notin In(q)
    BY <1>9 DEF Posts, Op
  <2>2. PICK x \in In(q) : x.c = d /\ x.op # "send"
    BY <1>7, <1>8, <1>16, <1>17, <2>1 DEF Op
  <2>3. Work(x, d)
    BY <1>9, <2>2 DEF Work, WorkKinds, OpKinds, Posts, Ops
  <2>4. PICK i \in DOMAIN Line(l) : Line(l)[i] = x
    BY <1>13, <2>2 DEF In
  <2>5. ~Works(Line(l), d, <<>>)
    BY <1>5, <1>13, <2>3, <2>4, NoWork
  <2>6. ~Nothing(d)
    BY <2>5 DEF Nothing
  <2> QED BY <1>1, <2>6 DEF Stage, Fresh, Attaching, Resting, Reading, Closing, Leaving,
      Forgotten, Served, Left
<1>18. ASSUME NEW o \in In(todo'[l]), o.op = "send" PROVE o \in In(queue[l])
  BY <1>7, <1>8, <1>16, <1>18 DEF q
<1>19. queue[l] \o Releases(queue[l]) \in Seq(Ops)
  BY <1>7 DEF s, q, r
<1> QED BY <1>15, <1>17, <1>18, <1>19

\* The connection handler runs in the main looper's thread; it attaches the
\* connection, or has the thread of the connection's looper do so.
LEMMA DispatchAcceptStep ==
  ASSUME Calm, IInv, NEW l \in Pool, NEW e \in batch[l], NEW c \in Conns,
         DispatchAccept(l, e, c)
  PROVE  StagesStep(c) /\ Fresh(c)
<1> USE Words
<1>1. /\ TypeOK /\ (\A d \in Conns : Stage(d)) /\ e.kind = "accept" /\ todo[l] = <<>>
      /\ c \in backlog
  BY DEF IInv, DispatchAccept, Take, Idle
<1>2. state[c] = "none" /\ l = Main
  BY <1>1 DEF IInv, EventsRest
<1>3. Fresh(c)
  BY <1>1, <1>2 DEF Stage, Attaching, Resting, Reading, Closing, Leaving, Forgotten, Served,
    Left
<1>4. PICK t \in Pool : t = Loopers[nextLooper]
  BY <1>1 DEF TypeOK, Pool
<1>5. /\ state' = [state EXCEPT ![c] = "live"] /\ looperOf' = [looperOf EXCEPT ![c] = t]
      /\ connSet' = connSet \cup {c} /\ kept' = kept \cup {c} /\ fdOpen' = fdOpen \cup {c}
      /\ UNCHANGED <<registered, attached, notified>>
  BY <1>4 DEF DispatchAccept, OnNewConnection, history
<1>6. \A d \in Conns \ {c} : Untouched(d)
  BY <1>1, <1>5 DEF Untouched, TypeOK
<1>7. /\ Served(c)' /\ Flags(c, TRUE, FALSE, FALSE)' /\ looperOf'[c] = t
      /\ \A m \in Pool : Works(Line(m), c, <<>>)
  BY <1>1, <1>3, <1>5 DEF TypeOK, Fresh, Served, Flags, Nothing
<1>8. SUFFICES Only(c, t, <<"attach">>)' /\ \A d \in Conns \ {c} : SameWork(d)
  <2>1. Stage(c)'
    BY <1>7, <1>8 DEF Stage, Attaching, Mine
  <2> QED BY <1>1, <1>3, <1>6, <1>8, <2>1, Others
<1>9. "attach" \in WorkKinds \cup {"send"} /\ "attach" \in WorkKinds /\ "release" \in OpKinds
  BY DEF WorkKinds, OpKinds
<1>10. CASE t = Main
  <2> DEFINE s == <<Op("attach", c), Op("release", c)>>
  <2>1. Begin(l, s) /\ queue' = queue
    BY <1>4, <1>10 DEF DispatchAccept
  <2>2. s \in Seq(Ops) /\ Works(s, c, <<"attach">>)
    BY <1>9, Calls, CallKinds
  <2>3. \A i \in DOMAIN s : s[i].c = c
    BY DEF Op
  <2> HIDE DEF s
  <2>4. Works(Line(l)', c, <<"attach">> \o <<>>)
    BY <1>1, <1>7, <2>1, <2>2, BeginStep
  <2>5. \A m \in Pool \ {l} : Line(m)' = Line(m)
    BY <1>1, <2>1, <2>2, BeginStep
  <2>6. Only(c, t, <<"attach">>)'
    BY <1>2, <1>7, <1>10, <2>4, <2>5, Joins DEF Only
  <2>7. ASSUME NEW d \in Conns \ {c} PROVE SameWork(d)
    <3>1. Works(s, d, <<>>)
      <4>1. \A i \in DOMAIN s : ~Work(s[i], d)
        BY <2>3 DEF Work
      <4> QED BY <2>2, <4>1, NoWork
    <3> SUFFICES ASSUME NEW m \in Pool, NEW w \in Seq(WorkKinds), Works(Line(m), d, w)
                 PROVE  Works(Line(m)', d, w)
      BY DEF SameWork
    <3>2. CASE m = l
      <4>1. Works(Line(l)', d, <<>> \o w)
        BY <1>1, <2>1, <2>2, <3>1, <3>2, BeginStep
      <4> QED BY <3>2, <4>1, Joins
    <3>3. CASE m # l
      BY <2>5, <3>3
    <3> QED BY <3>2, <3>3
  <2> QED BY <2>6, <2>7
<1>11. CASE t # Main
  <2> DEFINE s == <<Op("release", c)>>
  <2>1. /\ Begin(l, s) /\ queue' = [queue EXCEPT ![t] = Append(@, Op("attach", c))]
    BY <1>4, <1>11 DEF DispatchAccept, Calm
  <2>2. s \in Seq(Ops) /\ \A d \in Conns : Works(s, d, <<>>)
    <3>1. s \in Seq(Ops)
      BY <1>9, Calls
    <3>2. \A i \in DOMAIN s : \A d \in Conns : ~Work(s[i], d)
      BY DEF Work, Op, WorkKinds
    <3> HIDE DEF s
    <3> QED BY <3>1, <3>2, NoWork
  <2> HIDE DEF s
  <2>3. /\ queue'[t] = Append(queue[t], Op("attach", c)) /\ todo'[t] = todo[t]
        /\ queue'[l] = queue[l] /\ \A m \in Pool \ {t} : queue'[m] = queue[m]
    BY <1>1, <1>2, <1>4, <1>11, <2>1 DEF TypeOK, Begin
  <2>4. Works(Line(t)', c, <<>> \o <<"attach">>)
    BY <1>1, <1>4, <1>7, <1>9, <2>3, Posted
  <2>5. Works(Line(l)', c, <<>> \o <<>>)
    BY <1>1, <1>7, <2>1, <2>2, <2>3, BeginStep
  <2>6. \A m \in Pool \ {t, l} : Line(m)' = Line(m)
    BY <1>1, <2>1, <2>2, <2>3, BeginStep
  <2>7. Only(c, t, <<"attach">>)'
    BY <1>7, <2>4, <2>5, <2>6, Joins DEF Only
  <2>8. ASSUME NEW d \in Conns \ {c} PROVE SameWork(d)
    <3> SUFFICES ASSUME NEW m \in Pool, NEW w \in Seq(WorkKinds), Works(Line(m), d, w)
                 PROVE  Works(Line(m)', d, w)
      BY DEF SameWork
    <3>1. CASE m = t
      BY <1>1, <1>4, <1>9, <2>3, <3>1, Posted
    <3>2. CASE m = l
      <4>1. Works(Line(l)', d, <<>> \o w)
        BY <1>1, <2>1, <2>2, <2>3, <3>2, BeginStep
      <4> QED BY <3>2, <4>1, Joins
    <3>3. CASE m \in Pool \ {t, l}
      BY <2>6, <3>3
    <3> QED BY <3>1, <3>2, <3>3
  <2> QED BY <2>7, <2>8
<1> QED BY <1>10, <1>11

\* Queues hold posts only: other work that is next is in the call.
LEMMA InTheCall ==
  ASSUME TypeOK, NEW l \in Pool, NEW c \in Conns, NEW w \in Seq(WorkKinds),
         Works(Line(l), c, w), w # <<>>, w[1] \notin {"attach", "remove"}
  PROVE  \E i \in DOMAIN todo[l] : todo[l][i] = Op(w[1], c)
<1> DEFINE x == Line(l)
           q == queue[l]
           s == todo[l]
<1>1. PICK i \in DOMAIN x : x[i] = Op(w[1], c)
  <2>1. 1 \in DOMAIN w
    OBVIOUS
  <2> QED BY <2>1 DEF Works
<1>2. q \in Seq(Posts) /\ s \in Seq(Ops) /\ q \in Seq(Ops) /\ x = s \o q
  BY LineTypes DEF TypeOK, Line
<1> HIDE DEF x, q, s
<1>3. x[i] \in In(s) \cup In(q)
  <2>1. In(s \o q) = In(s) \cup In(q)
    BY <1>2, Elements
  <2> QED BY <1>1, <1>2, <2>1 DEF In
<1>4. Op(w[1], c) \notin In(q)
  <2>1. In(q) \subseteq Posts
    BY <1>2, Elements
  <2>2. w[1] \in WorkKinds
    OBVIOUS
  <2> QED BY <2>1, <2>2 DEF Posts, Op, WorkKinds
<1>5. Op(w[1], c) \in In(s)
  BY <1>1, <1>3, <1>4
<1> QED BY <1>5 DEF In, s

\* What epoll has and attach or detach are not in the middle of is attached.
LEMMA Settled ==
  ASSUME TypeOK, NEW c \in Conns, Stage(c)
  PROVE  /\ InTransit(c) \/ (c \in attached <=> c \in registered)
         /\ c \in registered /\ todo[looperOf[c]] = <<>> => Resting(c)
<1> USE Words
<1>1. looperOf[c] \in Pool
  BY DEF TypeOK
<1>2. ASSUME NEW w \in Seq(WorkKinds), Mine(c, w), w # <<>>, w[1] \notin {"attach", "remove"}
      PROVE  \E i \in DOMAIN todo[looperOf[c]] : todo[looperOf[c]][i] = Op(w[1], c)
  BY <1>1, <1>2, InTheCall DEF Mine, Only
<1>3. ASSUME Mine(c, <<"set">>) \/ Mine(c, <<"clear", "close", "notify">>)
      PROVE  InTransit(c)
  <2>1. \E i \in DOMAIN todo[looperOf[c]] : todo[looperOf[c]][i] \in {Op("set", c), Op("clear", c)}
    BY <1>2, <1>3
  <2> QED BY <1>1, <2>1 DEF InTransit, Op
<1>4. InTransit(c) \/ (c \in attached <=> c \in registered)
  BY <1>3 DEF Stage, Fresh, Attaching, Resting, Reading, Closing, Leaving, Left, Forgotten, Flags
<1>5. ASSUME c \in registered, ~Resting(c) PROVE todo[looperOf[c]] # <<>>
  <2>1. \/ Mine(c, <<"set">>) \/ Mine(c, <<"read">>)
        \/ Mine(c, <<"detach", "close", "notify">>)
        \/ Mine(c, <<"del", "clear", "close", "notify">>)
    BY <1>5 DEF Stage, Fresh, Attaching, Reading, Closing, Leaving, Left, Forgotten, Flags
  <2>2. \E i \in DOMAIN todo[looperOf[c]] : TRUE
    BY <1>2, <2>1
  <2> QED BY <2>2
<1> QED BY <1>4, <1>5

------------------------------------------------------------------------------
(* The invariant is kept *)

\* What of TypeOK the stages do not say.
Basic ==
  /\ data \in [Conns -> BOOLEAN] /\ chunks \in [Conns -> 0..MaxChunks]
  /\ {fin, rst, backlog, fdOpen, connSet, kept} \subseteq SUBSET Conns
  /\ registered \subseteq Conns /\ edge \subseteq registered
  /\ listening \in {"no", "yes", "stopped"}
  /\ nextLooper \in DOMAIN Loopers
  /\ looperOf \in [Conns -> Pool]
  /\ attached \subseteq Conns
  /\ state \in [Conns -> {"none", "live", "destroyed"}]
  /\ queue \in [Pool -> Seq(Posts)]
  /\ batch \in [Pool -> SUBSET Events]
  /\ todo \in [Pool -> Seq(Ops)]
  /\ {asked, sent, early} \subseteq SUBSET Conns /\ apart \subseteq fin
  /\ notified \in [Conns -> Nat]
  /\ failure \in {"none", "assert", "uaf"}

LEMMA Typed ==
  ASSUME Basic', ReadsOnly', \A c \in Conns : Stage(c)'
  PROVE  TypeOK'
<1>1. \A c \in Conns : c \in registered' => c \in fdOpen'
  BY DEF Stage, Fresh, Attaching, Resting, Reading, Closing, Leaving, Left, Forgotten, Flags
<1>2. \A c \in Conns : c \in connSet' \cup kept' \cup fdOpen' => state'[c] = "live"
  BY DEF Stage, Fresh, Attaching, Resting, Reading, Closing, Leaving, Left, Forgotten, Served,
    Flags
<1> QED BY <1>1, <1>2 DEF Basic, TypeOK, ReadsOnly

\* The form of a statement: what it calls and what it posts.
Form(l, c, s) ==
  /\ Goes(l, s)
  /\ \A o \in In(s) : o.op # "send" /\ (o.op = "release" => o.c = c /\ Notify(l, c))
  /\ \/ queue' = queue
     \/ Notify(l, c) /\ queue' = [queue EXCEPT ![Main] = Append(@, Op("remove", c))]

LEMMA InShort ==
  /\ In(<<>>) = {}
  /\ \A x : In(<<x>>) = {x}
  /\ \A x, y : In(<<x, y>>) = {x, y}
  /\ \A x, y, z : In(<<x, y, z>>) = {x, y, z}
<1>1. \A x : In(<<x>>) = {x}
  BY DEF In
<1>2. ASSUME NEW x, NEW y PROVE In(<<x, y>>) = {x, y}
  <2> DEFINE s == <<x, y>>
  <2>1. DOMAIN s = {1, 2} /\ s[1] = x /\ s[2] = y
    OBVIOUS
  <2> HIDE DEF s
  <2>2. In(s) = {x, y}
    BY <2>1 DEF In
  <2> QED BY <2>2 DEF s
<1>3. ASSUME NEW x, NEW y, NEW z PROVE In(<<x, y, z>>) = {x, y, z}
  <2> DEFINE s == <<x, y, z>>
  <2>1. DOMAIN s = {1, 2, 3} /\ s[1] = x /\ s[2] = y /\ s[3] = z
    OBVIOUS
  <2> HIDE DEF s
  <2>2. In(s) = {x, y, z}
    BY <2>1 DEF In
  <2> QED BY <2>2 DEF s
<1>4. In(<<>>) = {}
  BY DEF In
<1> QED BY <1>1, <1>2, <1>3, <1>4

\* A peer that does not reset makes no EPOLLHUP.
LEMMA NoHup ==
  ASSUME IInv, NEW l \in Pool, NEW c \in Conns
  PROVE  ~Hup(l, c) /\ ~Err(l, c)
<1>1. \A k \in {"hup", "err"} : ~At(l, k, c)
  <2> SUFFICES ASSUME NEW k \in {"hup", "err"}, At(l, k, c) PROVE FALSE
    OBVIOUS
  <2>1. k \in WorkKinds
    BY DEF WorkKinds, OpKinds
  <2> QED BY <2>1, Turn DEF IInv
<1> QED BY <1>1 DEF Hup, Err

\* A send that is not empty is written: nobody watches for writing or closes.
LEMMA OnlyReads ==
  ASSUME IInv, NEW l \in Pool, NEW c \in Conns
  PROVE  ~EnableWrite(l, c) /\ ~Cut(l, c) /\ ~Mod(l, c)
<1>1. ~NothingWritten(l, c)
  BY DEF IInv, ReadsOnly, NothingWritten
<1>2. ~At(l, "mod", c)
  <2> SUFFICES ASSUME At(l, "mod", c) PROVE FALSE
    OBVIOUS
  <2>1. "mod" \in WorkKinds
    BY DEF WorkKinds, OpKinds
  <2> QED BY <2>1, Turn DEF IInv
<1> QED BY <1>1, <1>2 DEF EnableWrite, Cut, Mod

LEMMA StatementForm ==
  ASSUME IInv, NEW l \in Pool, NEW c \in Conns, Statement(l, c)
  PROVE  \E s \in Seq(Ops) : Form(l, c, s)
<1> USE InShort
<1>a. /\ <<>> \in Seq(Ops) /\ <<Op("read", c)>> \in Seq(Ops) /\ <<Op("release", c)>> \in Seq(Ops)
      /\ <<Op("detach", c), Op("close", c), Op("notify", c)>> \in Seq(Ops)
      /\ <<Op("add", c), Op("set", c)>> \in Seq(Ops)
      /\ <<Op("del", c), Op("clear", c)>> \in Seq(Ops)
      /\ <<Op("detach", c), Op("erase", c)>> \in Seq(Ops)
      /\ <<Op("remove", c), Op("release", c)>> \in Seq(Ops)
  BY Calls, CallKinds
<1>1. CASE Read(l, c)
  <2>1. \/ Goes(l, <<Op("read", c)>>) \/ Goes(l, <<>>)
        \/ Goes(l, <<Op("detach", c), Op("close", c), Op("notify", c)>>)
    BY <1>1 DEF Read
  <2>2. queue' = queue
    BY <1>1 DEF Read
  <2>4. CASE Goes(l, <<Op("read", c)>>)
    <3>1. Form(l, c, <<Op("read", c)>>)
      BY <2>2, <2>4 DEF Form, Op
    <3> QED BY ONLY <1>a, <3>1
  <2>5. CASE Goes(l, <<>>)
    <3>1. Form(l, c, <<>>)
      BY <2>2, <2>5 DEF Form
    <3> QED BY ONLY <1>a, <3>1
  <2>6. CASE Goes(l, <<Op("detach", c), Op("close", c), Op("notify", c)>>)
    <3>1. Form(l, c, <<Op("detach", c), Op("close", c), Op("notify", c)>>)
      BY <2>2, <2>6 DEF Form, Op
    <3> QED BY ONLY <1>a, <3>1
  <2> QED BY <2>1, <2>4, <2>5, <2>6
<1>2. CASE Attach(l, c)
  <2>1. CASE c \in attached
    <3>1. Form(l, c, <<>>)
      BY <1>2, <2>1 DEF Attach, Form
    <3> QED BY ONLY <1>a, <3>1
  <2>2. CASE c \notin attached
    <3>1. Form(l, c, <<Op("add", c), Op("set", c)>>)
      BY <1>2, <2>2 DEF Attach, Form, Op
    <3> QED BY ONLY <1>a, <3>1
  <2> QED BY <2>1, <2>2
<1>3. CASE Detach(l, c)
  <2>1. CASE c \notin attached
    <3>1. Form(l, c, <<>>)
      BY <1>3, <2>1 DEF Detach, Form
    <3> QED BY ONLY <1>a, <3>1
  <2>2. CASE c \in attached
    <3>1. Form(l, c, <<Op("del", c), Op("clear", c)>>)
      BY <1>3, <2>2 DEF Detach, Form, Op
    <3> QED BY ONLY <1>a, <3>1
  <2> QED BY <2>1, <2>2
<1>4. CASE \/ Add(l, c) \/ Set(l, c) \/ Del(l, c) \/ Clear(l, c) \/ CloseFd(l, c)
           \/ Erase(l, c) \/ SendInternal(l, c) \/ Release(l, c)
  <2>1. Goes(l, <<>>) /\ queue' = queue
    BY <1>4 DEF Add, Set, Del, Clear, CloseFd, Erase, SendInternal, Release
  <2>2. Form(l, c, <<>>)
    BY <2>1 DEF Form
  <2> QED BY ONLY <1>a, <2>2
<1>5. CASE RemoveConn(l, c)
  <2>1. Form(l, c, <<Op("detach", c), Op("erase", c)>>)
    BY <1>5 DEF RemoveConn, Form, Op
  <2> QED BY ONLY <1>a, <2>1
<1>6. CASE Notify(l, c)
  <2>1. CASE l = Main
    <3>0. Goes(l, <<Op("remove", c), Op("release", c)>>) /\ queue' = queue
      BY <1>6, <2>1 DEF Notify, Handler
    <3>1. Form(l, c, <<Op("remove", c), Op("release", c)>>)
      BY <1>6, <3>0 DEF Form, Op
    <3> QED BY ONLY <1>a, <3>1
  <2>2. CASE l # Main
    <3>0. /\ Goes(l, <<Op("release", c)>>)
          /\ queue' = [queue EXCEPT ![Main] = Append(@, Op("remove", c))]
      BY <1>6, <2>2 DEF Notify, Handler, PostRemove
    <3>1. Form(l, c, <<Op("release", c)>>)
      BY <1>6, <3>0 DEF Form, Op
    <3> QED BY ONLY <1>a, <3>1
  <2> QED BY <2>1, <2>2
<1> QED BY <1>1, <1>2, <1>3, <1>4, <1>5, <1>6, NoHup, OnlyReads DEF Statement

\* What is left in the lines after a statement.
LEMMA FormLines ==
  ASSUME TypeOK, NEW l \in Pool, NEW c \in Conns, NEW s \in Seq(Ops), Form(l, c, s),
         todo[l] # <<>>
  PROVE  /\ todo' \in [Pool -> Seq(Ops)] /\ queue' \in [Pool -> Seq(Posts)]
         /\ \A m \in Pool : \A o \in In(todo'[m]) :
              o \in In(todo[m]) \/ (o.op # "send" /\ (o.op = "release" => o.c = c /\ Notify(l, c)))
         /\ \A m \in Pool : \A o \in In(queue'[m]) : o \in In(queue[m]) \/ o.op # "send"
<1>1. todo[l] \in Seq(Ops) /\ todo \in [Pool -> Seq(Ops)] /\ queue \in [Pool -> Seq(Posts)]
  BY DEF TypeOK
<1>2. Tail(todo[l]) \in Seq(Ops) /\ In(Tail(todo[l])) \subseteq In(todo[l])
  BY <1>1, Elements
<1> DEFINE u == s \o Tail(todo[l])
<1>3. u \in Seq(Ops) /\ todo' = [todo EXCEPT ![l] = u]
  BY <1>2 DEF Form, Goes
<1>4. In(u) = In(s) \cup In(Tail(todo[l]))
  <2> DEFINE r == Tail(todo[l])
  <2>1. r \in Seq(Ops)
    BY <1>2
  <2> HIDE DEF r
  <2>2. In(s \o r) = In(s) \cup In(r)
    BY <2>1, Elements
  <2> QED BY <2>2 DEF r
<1> HIDE DEF u
<1>5. todo' \in [Pool -> Seq(Ops)] /\ todo'[l] = u /\ \A m \in Pool \ {l} : todo'[m] = todo[m]
  BY <1>1, <1>3
<1>6. \A m \in Pool : \A o \in In(todo'[m]) :
        o \in In(todo[m]) \/ (o.op # "send" /\ (o.op = "release" => o.c = c /\ Notify(l, c)))
  BY <1>2, <1>4, <1>5 DEF Form
<1>7. CASE queue' = queue
  BY <1>1, <1>5, <1>6, <1>7
<1>8. CASE queue' = [queue EXCEPT ![Main] = Append(@, Op("remove", c))]
  <2> DEFINE o == Op("remove", c)
             q == queue[Main]
  <2>1. o \in Posts /\ o.op = "remove" /\ q \in Seq(Posts)
    BY <1>1, MainInPool DEF Posts, Ops, Op, OpKinds
  <2>2. queue' = [queue EXCEPT ![Main] = Append(q, o)]
    BY <1>8
  <2> HIDE DEF o, q
  <2>3. Append(q, o) \in Seq(Posts) /\ In(Append(q, o)) = In(q) \cup {o}
    BY <2>1, Elements
  <2>4. /\ queue' \in [Pool -> Seq(Posts)] /\ queue'[Main] = Append(q, o)
        /\ \A m \in Pool \ {Main} : queue'[m] = queue[m]
    BY <1>1, <2>2, <2>3, MainInPool
  <2>5. \A m \in Pool : \A x \in In(queue'[m]) : x \in In(queue[m]) \/ x.op # "send"
    BY <2>1, <2>3, <2>4 DEF q
  <2> QED BY <1>5, <1>6, <2>4, <2>5
<1> QED BY <1>7, <1>8 DEF Form

\* The kinds of the statements that are work.
LEMMA WorkStatement ==
  ASSUME IInv, NEW l \in Pool, NEW c \in Conns, Statement(l, c),
         ~SendInternal(l, c), ~Release(l, c)
  PROVE  /\ StagesStep(c) /\ ~Resting(c) /\ UNCHANGED <<state, looperOf, backlog>>
         /\ state[c] = "live" /\ failure' = failure
         /\ early' = early /\ (Notify(l, c) => c \in kept)
<1>1. TypeOK /\ Stage(c)
  BY DEF IInv
<1>2. ASSUME NEW k \in WorkKinds, At(l, k, c)
      PROVE  /\ ~Resting(c) /\ state[c] = "live"
             /\ k = "add" => c \notin registered /\ c \in fdOpen
             /\ k = "del" => c \in registered
             /\ k = "notify" => c \notin fdOpen /\ c \in kept
  <2>1. ~Resting(c)
    BY <1>1, <1>2, WhoseTurn DEF Resting
  <2> QED BY <1>1, <1>2, <2>1, Turn DEF Served, Forgotten, Flags
<1>3. {"read", "attach", "add", "set", "detach", "del", "clear", "close", "notify", "remove",
       "erase"} \subseteq WorkKinds
  BY DEF WorkKinds, OpKinds
<1>4. StagesStep(c)
  BY NoHup, OnlyReads, ReadStep, AttachStep, AddStep, SetStep, DetachStep, DelStep, ClearStep, CloseStep,
    NotifyStep, RemoveStep, EraseStep DEF Statement
<1>5. CASE Read(l, c) \/ Attach(l, c) \/ Set(l, c) \/ Detach(l, c) \/ Clear(l, c)
           \/ CloseFd(l, c) \/ RemoveConn(l, c) \/ Erase(l, c)
  <2>1. /\ Fails(c, FALSE) /\ early' = early /\ UNCHANGED <<state, looperOf, backlog>>
        /\ \E k \in WorkKinds \ {"notify"} : At(l, k, c)
    BY <1>3, <1>5 DEF Read, Attach, Set, Detach, Clear, CloseFd, RemoveConn, Erase, server, peer
  <2>2. ~Resting(c) /\ state[c] = "live"
    BY <1>2, <2>1
  <2>3. failure' = failure
    BY <2>1, <2>2 DEF Fails
  <2>4. ~Notify(l, c)
    BY <2>1 DEF Notify, At, Op
  <2> QED BY <1>4, <2>1, <2>2, <2>3, <2>4
<1>6. CASE Add(l, c)
  <2>1. /\ Fails(c, c \in registered \/ c \notin fdOpen) /\ early' = early
        /\ UNCHANGED <<state, looperOf, backlog>> /\ At(l, "add", c)
    BY <1>6 DEF Add, server, peer
  <2>2. ~Resting(c) /\ state[c] = "live" /\ c \notin registered /\ c \in fdOpen
    BY <1>2, <1>3, <2>1
  <2>3. failure' = failure
    BY <2>1, <2>2 DEF Fails
  <2>4. ~Notify(l, c)
    BY <2>1 DEF Notify, At, Op
  <2> QED BY <1>4, <2>1, <2>2, <2>3, <2>4
<1>7. CASE Del(l, c)
  <2>1. /\ Fails(c, c \notin registered) /\ early' = early
        /\ UNCHANGED <<state, looperOf, backlog>> /\ At(l, "del", c)
    BY <1>7 DEF Del, server, peer
  <2>2. ~Resting(c) /\ state[c] = "live" /\ c \in registered
    BY <1>2, <1>3, <2>1
  <2>3. failure' = failure
    BY <2>1, <2>2 DEF Fails
  <2>4. ~Notify(l, c)
    BY <2>1 DEF Notify, At, Op
  <2> QED BY <1>4, <2>1, <2>2, <2>3, <2>4
<1>8. CASE Notify(l, c)
  <2>1. /\ Fails(c, FALSE) /\ early' = (IF c \in fdOpen THEN early \cup {c} ELSE early)
        /\ UNCHANGED <<state, looperOf, backlog>> /\ At(l, "notify", c)
    BY <1>8 DEF Notify, Handler, server, peer
  <2>2. ~Resting(c) /\ state[c] = "live" /\ c \notin fdOpen /\ c \in kept
    BY <1>2, <1>3, <2>1
  <2>3. failure' = failure
    BY <2>1, <2>2 DEF Fails
  <2> QED BY <1>4, <2>1, <2>2, <2>3
<1> QED BY <1>5, <1>6, <1>7, <1>8, NoHup, OnlyReads DEF Statement

LEMMA StatementBasic ==
  ASSUME IInv, NEW l \in Pool, NEW c \in Conns, Statement(l, c)
  PROVE  Basic' /\ todo[l] # <<>> /\ UNCHANGED <<batch, sends, rst>>
<1>1. /\ TypeOK /\ ~Hup(l, c) /\ ~Err(l, c)
      /\ ~EnableWrite(l, c) /\ ~Cut(l, c) /\ ~Mod(l, c)
  BY NoHup, OnlyReads DEF IInv
<1>2. todo[l] # <<>>
  BY <1>1 DEF Statement, Read, Attach, Add, Set, Detach, Del, Clear, CloseFd, Notify,
    RemoveConn, Erase, SendInternal, Release, At
<1>3. todo' \in [Pool -> Seq(Ops)] /\ queue' \in [Pool -> Seq(Posts)]
  BY <1>1, <1>2, StatementForm, FormLines
<1>4. failure' \in {"none", "assert", "uaf"}
  <2>1. failure' = failure \/ failure' = "uaf"
    BY WorkStatement, SendStep, ReleaseStep
  <2> QED BY <1>1, <2>1 DEF TypeOK
<1> DEFINE Rest ==
      /\ data' \in [Conns -> BOOLEAN] /\ chunks' \in [Conns -> 0..MaxChunks]
      /\ {fin', rst', backlog', fdOpen', connSet', kept'} \subseteq SUBSET Conns
      /\ registered' \subseteq Conns /\ edge' \subseteq registered'
      /\ listening' \in {"no", "yes", "stopped"}
      /\ nextLooper' \in DOMAIN Loopers
      /\ looperOf' \in [Conns -> Pool]
      /\ attached' \subseteq Conns
      /\ state' \in [Conns -> {"none", "live", "destroyed"}]
      /\ {asked', sent', early'} \subseteq SUBSET Conns /\ apart' \subseteq fin'
      /\ notified' \in [Conns -> Nat]
      /\ UNCHANGED <<batch, sends, rst>>
<1>5. Rest
  <2>1. CASE Read(l, c)
    BY <1>1, <2>1 DEF TypeOK, Read, epoll, server, client, sends
  <2>2. CASE Attach(l, c) \/ Detach(l, c) \/ RemoveConn(l, c) \/ SendInternal(l, c)
    <3>1. UNCHANGED <<peer, epoll, server, batch, client, notified, early>>
      BY <2>2 DEF Attach, Detach, RemoveConn, SendInternal
    <3> QED BY <1>1, <3>1 DEF TypeOK, peer, epoll, server, client, sends
  <2>3. CASE Add(l, c)
    BY <1>1, <2>3 DEF TypeOK, Add, peer, server, client, sends
  <2>4. CASE Del(l, c)
    BY <1>1, <2>4 DEF TypeOK, Del, peer, server, client, sends
  <2>5. CASE Set(l, c) \/ Clear(l, c)
    BY <1>1, <2>5 DEF TypeOK, Set, Clear, peer, epoll, client, sends
  <2>6. CASE Erase(l, c)
    BY <1>1, <2>6 DEF TypeOK, Erase, peer, epoll, client, sends
  <2>7. CASE CloseFd(l, c)
    BY <1>1, <2>7 DEF TypeOK, CloseFd, peer, server, client, sends
  <2>8. CASE Notify(l, c)
    BY <1>1, <2>8 DEF TypeOK, Notify, Handler, peer, epoll, server, sends
  <2>9. CASE Release(l, c)
    <3>1. UNCHANGED <<peer, listening, nextLooper, connSet, looperOf, attached, batch, client,
                      notified, early>>
      BY <2>9 DEF Release
    <3>2. CASE HeldElsewhere(l, c)
      <4>1. UNCHANGED <<state, epoll>>
        BY <2>9, <3>2 DEF Release
      <4> QED BY <1>1, <3>1, <4>1 DEF TypeOK, peer, epoll, client, sends
    <3>3. CASE ~HeldElsewhere(l, c)
      <4>1. /\ state' = [state EXCEPT ![c] = "destroyed"] /\ fdOpen' = fdOpen \ {c}
            /\ registered' = registered \ {c} /\ edge' = edge \ {c}
        BY <2>9, <3>3 DEF Release
      <4> QED BY <1>1, <3>1, <4>1 DEF TypeOK, peer, client, sends
    <3> QED BY <3>2, <3>3
  <2> HIDE DEF Rest
  <2> QED BY <1>1, <2>1, <2>2, <2>3, <2>4, <2>5, <2>6, <2>7, <2>8, <2>9 DEF Statement
<1>6. batch' \in [Pool -> SUBSET Events]
  BY <1>1, <1>5 DEF TypeOK
<1> QED BY <1>2, <1>3, <1>4, <1>5, <1>6 DEF Basic

LEMMA StatementKeeps ==
  ASSUME IInv, NEW l \in Pool, NEW c \in Conns, Statement(l, c)
  PROVE  IInv'
<1>1. /\ TypeOK /\ (\A d \in Conns : Stage(d)) /\ EventsRest /\ HeldLives /\ SendsAsked
      /\ (\A d \in backlog : state[d] = "none") /\ backlog \subseteq Conns
      /\ rst = {} /\ early = {} /\ NoAssertFailure /\ (failure = "uaf" => sent # {})
  BY DEF IInv, TypeOK
<1>2. Basic' /\ todo[l] # <<>> /\ UNCHANGED <<batch, sent, rst>> /\ ReadsOnly'
  BY StatementBasic DEF sends, ReadsOnly, IInv
<1>3. /\ StagesStep(c) /\ (Resting(c) => Resting(c)')
      /\ UNCHANGED <<looperOf, backlog, early>>
      /\ \/ state' = state
         \/ /\ Release(l, c) /\ state[c] = "live" /\ ~HeldElsewhere(l, c)
            /\ state' = [state EXCEPT ![c] = "destroyed"]
      /\ failure' = failure \/ (failure' = "uaf" /\ sent # {})
      /\ Notify(l, c) => state[c] = "live" /\ state' = state
  <2>1. CASE ~SendInternal(l, c) /\ ~Release(l, c)
    BY <1>1, <2>1, WorkStatement
  <2>2. CASE SendInternal(l, c)
    <3>1. UNCHANGED <<looperOf, backlog, early, state>> /\ ~Notify(l, c)
      BY <2>2 DEF SendInternal, server, peer, Notify, At, Op
    <3> QED BY <2>2, <3>1, SendStep
  <2>3. CASE Release(l, c)
    <3>1. UNCHANGED <<looperOf, backlog, early>> /\ ~Notify(l, c)
      BY <2>3 DEF Release, peer, Notify, At, Op
    <3> QED BY <2>3, <3>1, ReleaseStep
  <2> QED BY <2>1, <2>2, <2>3
<1>4. \A d \in Conns : Stage(d)' /\ (Resting(d) => Resting(d)')
  BY <1>3 DEF StagesStep
<1>5. TypeOK'
  BY <1>2, <1>4, Typed
<1>6. EventsRest'
  <2> SUFFICES ASSUME NEW m \in Pool, NEW e \in batch[m]
               PROVE  /\ e.kind = "conn" =>
                           ~e.hup /\ e.op = "read" /\ looperOf'[e.c] = m /\ Resting(e.c)'
                      /\ e.kind = "accept" => m = Main
    BY <1>2 DEF EventsRest
  <2>1. e.kind = "conn" => e.c \in Conns
    BY <1>1, EventTypes
  <2> QED BY <1>1, <1>3, <1>4, <2>1 DEF EventsRest
<1>7. PICK s \in Seq(Ops) : Form(l, c, s)
  BY StatementForm
<1>8. /\ \A m \in Pool : \A o \in In(todo'[m]) :
           o \in In(todo[m]) \/ (o.op # "send" /\ (o.op = "release" => o.c = c /\ Notify(l, c)))
      /\ \A m \in Pool : \A o \in In(queue'[m]) : o \in In(queue[m]) \/ o.op # "send"
  BY <1>1, <1>2, <1>7, FormLines
<1>9. SendsAsked'
  BY <1>1, <1>2, <1>8 DEF SendsAsked
<1>10. HeldLives'
  <2> SUFFICES ASSUME NEW m \in Pool, NEW d \in Conns, Op("release", d) \in In(todo'[m])
               PROVE  state'[d] = "live"
    BY DEF HeldLives
  <2>1. state[d] = "live" /\ ((Notify(l, c) /\ d = c) \/ Op("release", d) \in In(todo[m]))
    BY <1>1, <1>3, <1>8 DEF HeldLives, Op
  <2>2. CASE state' = state
    BY <2>1, <2>2
  <2>3. CASE /\ Release(l, c) /\ ~HeldElsewhere(l, c)
             /\ state' = [state EXCEPT ![c] = "destroyed"]
    <3>1. d # c
      <4> SUFFICES ASSUME d = c PROVE FALSE
        OBVIOUS
      <4>1. \A x \in Pool : x # l /\ Op("release", c) \in In(todo[x]) => HeldElsewhere(l, c)
        BY DEF HeldElsewhere, Holds, In
      <4>2. todo[l] \in Seq(Ops) /\ todo'[l] = <<>> \o Tail(todo[l])
        BY <1>1, <2>3 DEF TypeOK, Release, Goes
      <4>3. todo'[l] = Tail(todo[l])
        BY <1>2, <4>2
      <4>4. Op("release", c) \in In(Tail(todo[l])) => HeldElsewhere(l, c)
        BY DEF HeldElsewhere, Holds, In
      <4>5. ~Notify(l, c)
        BY <2>3 DEF Release, Notify, At, Op
      <4> QED BY <2>1, <2>3, <4>1, <4>3, <4>4, <4>5
    <3> QED BY <1>1, <2>1, <2>3, <3>1 DEF TypeOK
  <2> QED BY <1>3, <2>2, <2>3
<1>11. \A d \in backlog' : state'[d] = "none"
  BY <1>1, <1>3 DEF TypeOK
<1>12. NoAssertFailure' /\ (failure' = "uaf" => sent' # {})
  BY <1>1, <1>2, <1>3 DEF NoAssertFailure
<1> QED BY <1>1, <1>2, <1>3, <1>4, <1>5, <1>6, <1>9, <1>10, <1>11, <1>12 DEF IInv

\* Steps of peers and clients that leave the threads and the connections alone.
LEMMA OutsideKeeps ==
  ASSUME IInv, Basic', UNCHANGED <<connSet, looperOf, attached, state, registered, fdOpen,
           threads, kept, sends, rst, early, notified, failure>>,
         \A d \in backlog' : state[d] = "none"
  PROVE  IInv'
<1>1. TypeOK /\ ReadsOnly' /\ sent' = sent
  BY DEF IInv, ReadsOnly, sends
<1>2. \A d \in Conns : Untouched(d) /\ SameWork(d)
  BY DEF Untouched, SameWork, Line, threads
<1>3. \A d \in Conns : Stage(d)' /\ (Resting(d) => Resting(d)')
  BY <1>1, <1>2, StageKept DEF IInv
<1>4. TypeOK'
  BY <1>1, <1>3, Typed
<1>5. EventsRest'
  <2>1. \A m \in Pool : \A e \in batch[m] : e.kind = "conn" => e.c \in Conns
    BY <1>1, EventTypes
  <2> QED BY <1>3, <2>1 DEF IInv, EventsRest, threads
<1>6. HeldLives' /\ SendsAsked' /\ NoAssertFailure'
  BY <1>1 DEF IInv, HeldLives, SendsAsked, threads, NoAssertFailure
<1> QED BY <1>1, <1>3, <1>4, <1>5, <1>6 DEF IInv

LEMMA PeerKeeps ==
  ASSUME Calm, IInv, NEW c \in Conns, Connect(c) \/ PeerSend(c) \/ PeerEnd(c) \/ PeerReset(c)
  PROVE  IInv'
<1>1. TypeOK /\ \A d \in backlog : state[d] = "none"
  BY DEF IInv
<1>2. CASE Connect(c)
  <2>1. Basic'
    BY <1>1, <1>2 DEF TypeOK, Basic, Connect, epoll, server, threads, client, history
  <2> QED BY <1>1, <1>2, <2>1, OutsideKeeps DEF Connect, epoll, server, client, sends, history
<1>3. CASE PeerSend(c)
  <2>1. Basic'
    <3>1. chunks[c] + 1 \in 0 .. MaxChunks
      BY <1>1, <1>3, ServerAssumption DEF TypeOK, PeerSend
    <3> QED BY <1>1, <1>3, <3>1 DEF TypeOK, Basic, PeerSend, Arrives, server, threads, client,
          history
  <2> QED BY <1>1, <1>3, <2>1, OutsideKeeps DEF PeerSend, server, client, sends, history
<1>4. CASE PeerEnd(c)
  <2>1. Basic'
    BY <1>1, <1>4 DEF TypeOK, Basic, PeerEnd, Arrives, server, threads, client, history
  <2> QED BY <1>1, <1>4, <2>1, OutsideKeeps DEF PeerEnd, server, client, sends, history
<1>5. ~PeerReset(c)
  BY DEF PeerReset, Calm
<1> QED BY <1>2, <1>3, <1>4, <1>5

LEMMA WorkKeeps ==
  ASSUME IInv, StartWork \/ StopWork
  PROVE  IInv'
<1>1. TypeOK /\ \A d \in backlog : state[d] = "none"
  BY DEF IInv
<1>2. Basic'
  BY <1>1 DEF TypeOK, Basic, StartWork, StopWork, AcceptorAttach, AcceptorDetach, peer, epoll, threads, client, history
<1> QED BY <1>1, <1>2, OutsideKeeps DEF StartWork, StopWork, peer, epoll, client, sends, history

LEMMA SendKeeps ==
  ASSUME Calm, IInv, NEW c \in Conns, Send(c)
  PROVE  IInv'
<1>1. /\ ReadsOnly /\ TypeOK /\ (\A d \in Conns : Stage(d)) /\ EventsRest /\ HeldLives /\ SendsAsked
      /\ (\A d \in backlog : state[d] = "none")
  BY DEF IInv
<1> DEFINE o == Op("send", c)
           q == queue[looperOf[c]]
<1>2. PICK l \in Pool : l = looperOf[c]
  BY <1>1 DEF TypeOK
<1>3. /\ queue' = [queue EXCEPT ![l] = Append(q, o)] /\ todo' = todo /\ batch' = batch
      /\ sent' = sent \cup {c} /\ kept' = kept /\ asked' = asked
      /\ UNCHANGED <<peer, epoll, server, history>>
  BY <1>2 DEF Send
<1>a. ReadsOnly'
  BY <1>1 DEF Send, Calm, ReadsOnly
<1>4. o \in Posts /\ q \in Seq(Posts) /\ q = queue[l]
  BY <1>1, <1>2 DEF TypeOK, Posts, Ops, Op, OpKinds
<1> HIDE DEF q
<1>5. Append(q, o) \in Seq(Posts) /\ In(Append(q, o)) = In(q) \cup {o}
  <2> HIDE DEF o
  <2> QED BY <1>4, Elements
<1>6. /\ queue' \in [Pool -> Seq(Posts)] /\ queue'[l] = Append(q, o)
      /\ \A m \in Pool \ {l} : queue'[m] = queue[m]
  <2> HIDE DEF o
  <2> QED BY <1>1, <1>3, <1>5 DEF TypeOK
<1>7. ASSUME NEW d \in Conns PROVE SameWork(d)
  <2> SUFFICES ASSUME NEW m \in Pool, NEW w \in Seq(WorkKinds), Works(Line(m), d, w)
               PROVE  Works(Line(m)', d, w)
    BY DEF SameWork
  <2>1. CASE m = l
    <3>1. "send" \in WorkKinds \cup {"send"} /\ todo'[m] = todo[m]
      BY <1>3
    <3>2. queue'[m] = Append(queue[m], Op("send", c))
      BY <1>4, <1>6, <2>1
    <3> QED BY <1>1, <3>1, <3>2, Posted
  <2>2. CASE m # l
    BY <1>3, <1>6, <2>2 DEF Line
  <2> QED BY <2>1, <2>2
<1>8. \A d \in Conns : Untouched(d)
  BY <1>3 DEF Untouched, epoll, server, history
<1>9. \A d \in Conns : Stage(d)' /\ (Resting(d) => Resting(d)')
  BY <1>1, <1>7, <1>8, StageKept
<1>10. Basic'
  BY <1>1, <1>3, <1>6 DEF Basic, TypeOK, peer, epoll, server, history
<1>11. TypeOK'
  BY <1>a, <1>9, <1>10, Typed
<1>12. EventsRest'
  <2>1. \A m \in Pool : \A e \in batch[m] : e.kind = "conn" => e.c \in Conns
    BY <1>1, EventTypes
  <2> QED BY <1>1, <1>3, <1>9, <2>1 DEF EventsRest, server
<1>13. HeldLives' /\ SendsAsked'
  BY <1>1, <1>3 DEF HeldLives, SendsAsked, server
<1>14. /\ \A d \in backlog' : state'[d] = "none"
       /\ rst' = {} /\ early' = {} /\ NoAssertFailure' /\ (failure' = "uaf" => sent' # {})
  BY <1>1, <1>3 DEF IInv, peer, server, history, NoAssertFailure
<1> QED BY <1>a, <1>9, <1>11, <1>12, <1>13, <1>14 DEF IInv

\* epoll reports connections of a looper that is between two calls.
LEMMA EpollWaitKeeps ==
  ASSUME IInv, NEW l \in Pool, EpollWait(l)
  PROVE  IInv'
<1>1. /\ TypeOK /\ (\A d \in Conns : Stage(d)) /\ EventsRest /\ HeldLives /\ SendsAsked
      /\ (\A d \in backlog : state[d] = "none") /\ rst = {}
  BY DEF IInv
<1>a. ReadsOnly /\ \A c \in Conns : watch[c] = "read"
  BY DEF IInv, ReadsOnly
<1>2. /\ batch' = [batch EXCEPT ![l] = Reported(l)] /\ todo[l] = <<>>
      /\ edge' = {c \in edge : looperOf[c] # l}
      /\ UNCHANGED <<peer, registered, fdOpen, server, queue, todo, kept, asked, sent, history>>
  BY DEF EpollWait, Idle
<1>b. ReadsOnly'
  BY <1>a DEF EpollWait, ReadsOnly
<1>3. /\ Reported(l) \subseteq Events
      /\ \A e \in Reported(l) :
           /\ e.kind = "conn" => ~e.hup /\ e.op = "read" /\ e.c \in edge /\ looperOf[e.c] = l
           /\ e.kind = "accept" => l = Main
  <2>1. ASSUME NEW c \in edge, looperOf[c] = l
        PROVE  /\ Event(c) \in Events /\ Event(c).kind = "conn" /\ ~Event(c).hup
               /\ Event(c).op = "read" /\ Event(c).c = c
    <3>1. c \in Conns /\ watch[c] = "read" /\ (c \in rst) = FALSE
      BY <1>1, <1>a DEF TypeOK
    <3>2. Event(c) = [kind |-> "conn", c |-> c, hup |-> FALSE, op |-> "read"]
      BY ONLY <3>1, Zenon DEF Event
    <3>3. [kind |-> "conn", c |-> c, hup |-> FALSE, op |-> "read"]
            \in [kind : {"conn"}, c : Conns, hup : BOOLEAN, op : {"read", "send"}]
      BY <3>1
    <3> QED BY <3>2, <3>3 DEF Events
  <2>2. {[kind |-> "run"], [kind |-> "accept"]} \subseteq Events
    BY DEF Events, EventKinds
  <2>3. \A e \in Reported(l) :
          \/ \E c \in edge : looperOf[c] = l /\ e = Event(c)
          \/ e = [kind |-> "run"] \/ (e = [kind |-> "accept"] /\ l = Main)
    BY DEF Reported
  <2> QED BY <2>1, <2>2, <2>3
<1>4. \A m \in Pool : \A e \in batch'[m] : e \in batch[m] \/ (m = l /\ e \in Reported(l))
  <2> DEFINE r == Reported(l)
  <2>1. batch' = [batch EXCEPT ![l] = r]
    BY <1>2
  <2> HIDE DEF r
  <2>2. \A m \in Pool : \A e \in batch'[m] : e \in batch[m] \/ (m = l /\ e \in r)
    BY <2>1
  <2> QED BY <2>2 DEF r
<1>5. \A d \in Conns : Untouched(d) /\ SameWork(d)
  BY <1>2 DEF Untouched, SameWork, Line, server, history
<1>6. \A d \in Conns : Stage(d)' /\ (Resting(d) => Resting(d)')
  BY <1>1, <1>5, StageKept
<1>7. Basic'
  <2>1. batch' \in [Pool -> SUBSET Events]
    <3> DEFINE r == Reported(l)
    <3>1. r \in SUBSET Events /\ batch' = [batch EXCEPT ![l] = r]
      BY <1>2, <1>3
    <3> HIDE DEF r
    <3> QED BY <1>1, <3>1 DEF TypeOK
  <2> QED BY <1>1, <1>2, <2>1 DEF Basic, TypeOK, peer, server, history
<1>8. TypeOK'
  BY <1>b, <1>6, <1>7, Typed
<1>9. EventsRest'
  <2>1. \A m \in Pool : \A e \in batch[m] : e.kind = "conn" => e.c \in Conns
    BY <1>1, EventTypes
  <2>2. \A c \in edge : c \in Conns /\ c \in registered
    BY <1>1 DEF TypeOK
  <2>3. \A c \in edge : looperOf[c] = l => Resting(c)
    BY <1>1, <1>2, <2>2, Settled
  <2>4. looperOf' = looperOf
    BY <1>2 DEF server
  <2> SUFFICES ASSUME NEW m \in Pool, NEW e \in batch'[m]
               PROVE  /\ e.kind = "conn" =>
                           ~e.hup /\ e.op = "read" /\ looperOf'[e.c] = m /\ Resting(e.c)'
                      /\ e.kind = "accept" => m = Main
    BY DEF EventsRest
  <2>5. CASE e \in batch[m]
    BY <1>1, <1>6, <2>1, <2>4, <2>5 DEF EventsRest
  <2>6. CASE m = l /\ e \in Reported(l)
    BY <1>3, <1>6, <2>2, <2>3, <2>4, <2>6
  <2> QED BY <1>4, <2>5, <2>6
<1>10. HeldLives' /\ SendsAsked'
  BY <1>1, <1>2 DEF HeldLives, SendsAsked, server
<1>11. /\ \A d \in backlog' : state'[d] = "none"
       /\ rst' = {} /\ early' = {} /\ NoAssertFailure' /\ (failure' = "uaf" => sent' # {})
  BY <1>1, <1>2 DEF IInv, peer, server, history, NoAssertFailure
<1> QED BY <1>b, <1>6, <1>8, <1>9, <1>10, <1>11 DEF IInv

\* An event leaves the batch.
LEMMA Taken ==
  ASSUME TypeOK, NEW l \in Pool, NEW e, Take(l, e)
  PROVE  /\ batch' \in [Pool -> SUBSET Events] /\ \A m \in Pool : batch'[m] \subseteq batch[m]
         /\ e \notin batch'[l] /\ e \in batch[l] /\ todo[l] = <<>> /\ failure = "none"
<1>1. /\ batch' = [batch EXCEPT ![l] = @ \ {e}] /\ e \in batch[l] /\ todo[l] = <<>>
      /\ failure = "none"
  BY DEF Take, Idle, Running
<1>2. batch \in [Pool -> SUBSET Events] /\ batch' \in [Pool -> SUBSET Events]
  BY <1>1 DEF TypeOK
<1>3. \A m \in Pool : batch'[m] \subseteq batch[m]
  BY <1>1, <1>2
<1>4. e \notin batch'[l]
  BY <1>1, <1>2
<1> QED BY <1>1, <1>2, <1>3, <1>4

LEMMA DispatchConnKeeps ==
  ASSUME IInv, NEW l \in Pool, NEW e \in batch[l], DispatchConn(l, e)
  PROVE  IInv'
<1>1. /\ TypeOK /\ ReadsOnly /\ EventsRest /\ HeldLives /\ SendsAsked
      /\ (\A d \in backlog : state[d] = "none")
  BY DEF IInv
<1>2. /\ Take(l, e) /\ e.kind = "conn" /\ ~e.hup /\ e.op = "read"
      /\ UNCHANGED <<peer, epoll, server, queue, client, history>>
  BY <1>1 DEF DispatchConn, EventsRest
<1>a. ReadsOnly'
  BY <1>1, <1>2 DEF ReadsOnly, client
<1>3. PICK c \in Conns : c = e.c
  BY <1>1, <1>2, EventTypes
<1>4. looperOf[c] = l /\ StagesStep(c) /\ Begin(l, <<Op("read", c)>>)
  BY <1>3, DispatchConnStep
<1> DEFINE s == <<Op("read", c)>>
<1>5. s \in Seq(Ops) /\ In(s) = {Op("read", c)}
  BY Calls, CallKinds, InShort
<1>6. todo' = [todo EXCEPT ![l] = s]
  BY <1>4 DEF Begin
<1> HIDE DEF s
<1>7. /\ todo' \in [Pool -> Seq(Ops)]
      /\ \A m \in Pool : \A o \in In(todo'[m]) : o \in In(todo[m]) \/ o.op = "read"
  <2>1. todo' \in [Pool -> Seq(Ops)] /\ todo'[l] = s /\ \A m \in Pool \ {l} : todo'[m] = todo[m]
    BY <1>1, <1>5, <1>6 DEF TypeOK
  <2> QED BY <1>5, <2>1 DEF Op
<1>8. Basic'
  <2>1. batch' \in [Pool -> SUBSET Events]
    BY <1>1, <1>2, Taken
  <2>2. queue' = queue /\ UNCHANGED <<peer, epoll, server, kept, asked, sent, history>>
    BY <1>2 DEF client
  <2> QED BY <1>1, <1>7, <2>1, <2>2 DEF TypeOK, Basic, peer, epoll, server, history
<1>9. TypeOK'
  BY <1>a, <1>4, <1>8, Typed DEF StagesStep
<1>10. EventsRest'
  <2> SUFFICES ASSUME NEW m \in Pool, NEW f \in batch'[m]
               PROVE  /\ f.kind = "conn" =>
                           ~f.hup /\ f.op = "read" /\ looperOf'[f.c] = m /\ Resting(f.c)'
                      /\ f.kind = "accept" => m = Main
    BY DEF EventsRest
  <2>1. f \in batch[m] /\ (m = l => f # e) /\ e \in batch[l] /\ looperOf' = looperOf
    BY <1>1, <1>2, Taken DEF server
  <2>2. f \in Events /\ e \in Events /\ (f.kind = "conn" => f.c \in Conns)
    BY <1>1, <2>1, EventTypes
  <2>3. f.kind = "conn" => ~f.hup /\ f.op = "read" /\ looperOf[f.c] = m /\ Resting(f.c)
    BY <1>1, <2>1 DEF EventsRest
  <2>4. f.kind = "conn" /\ m = l => f.c # c
    BY <1>2, <1>3, <2>1, <2>2, <2>3 DEF Events, EventKinds
  <2>5. f.kind = "conn" => f.c # c
    BY <1>4, <2>3, <2>4
  <2>6. f.kind = "conn" => Resting(f.c)'
    BY <1>4, <2>2, <2>3, <2>5 DEF StagesStep
  <2> QED BY <1>1, <2>1, <2>3, <2>6 DEF EventsRest
<1>11. HeldLives' /\ SendsAsked'
  <2>1. queue' = queue /\ state' = state /\ sent' = sent
    BY <1>2 DEF server, client
  <2>2. \A d \in Conns : Op("release", d).op = "release"
    BY DEF Op
  <2> QED BY <1>1, <1>7, <2>1, <2>2 DEF HeldLives, SendsAsked
<1>12. /\ \A d \in backlog' : state'[d] = "none"
       /\ rst' = {} /\ early' = {} /\ NoAssertFailure' /\ (failure' = "uaf" => sent' # {})
  BY <1>1, <1>2 DEF IInv, peer, server, client, history, NoAssertFailure
<1> QED BY <1>a, <1>4, <1>9, <1>10, <1>11, <1>12 DEF IInv, StagesStep

LEMMA DispatchRunKeeps ==
  ASSUME IInv, NEW l \in Pool, NEW e \in batch[l], DispatchRun(l, e)
  PROVE  IInv'
<1>1. /\ TypeOK /\ ReadsOnly /\ EventsRest /\ HeldLives /\ SendsAsked
      /\ (\A d \in backlog : state[d] = "none")
  BY DEF IInv
<1> DEFINE s == queue[l] \o Releases(queue[l])
<1>2. /\ Take(l, e) /\ todo' = [todo EXCEPT ![l] = s] /\ queue' = [queue EXCEPT ![l] = <<>>]
      /\ UNCHANGED <<peer, epoll, server, client, history>>
  BY DEF DispatchRun, Begin
<1>a. ReadsOnly'
  BY <1>1, <1>2 DEF ReadsOnly, client
<1>3. /\ \A d \in Conns : Stage(d)' /\ (Resting(d) => Resting(d)')
      /\ s \in Seq(Ops)
      /\ \A d \in Conns : Op("release", d) \in In(todo'[l]) => state[d] = "live"
      /\ \A o \in In(todo'[l]) : o.op = "send" => o \in In(queue[l])
  BY DispatchRunStep
<1> HIDE DEF s
<1>4. /\ todo' \in [Pool -> Seq(Ops)] /\ queue' \in [Pool -> Seq(Posts)] /\ queue'[l] = <<>>
      /\ \A m \in Pool \ {l} : todo'[m] = todo[m] /\ queue'[m] = queue[m]
  BY <1>1, <1>2, <1>3 DEF TypeOK
<1>5. Basic'
  BY <1>1, <1>2, <1>4, Taken DEF TypeOK, Basic, peer, epoll, server, client, history
<1>6. TypeOK'
  BY <1>a, <1>3, <1>5, Typed
<1>7. EventsRest'
  <2>1. looperOf' = looperOf /\ \A m \in Pool : batch'[m] \subseteq batch[m]
    BY <1>1, <1>2, Taken DEF server
  <2> QED BY <1>1, <1>3, <2>1, EventTypes DEF EventsRest
<1>8. HeldLives' /\ SendsAsked'
  <2>1. state' = state /\ sent' = sent /\ In(queue'[l]) = {}
    BY <1>2, <1>4, InShort DEF server, client
  <2>2. HeldLives'
    BY <1>1, <1>3, <1>4, <2>1 DEF HeldLives
  <2>3. SendsAsked'
    BY <1>1, <1>3, <1>4, <2>1 DEF SendsAsked
  <2> QED BY <2>2, <2>3
<1>9. /\ \A d \in backlog' : state'[d] = "none"
      /\ rst' = {} /\ early' = {} /\ NoAssertFailure' /\ (failure' = "uaf" => sent' # {})
  BY <1>1, <1>2 DEF IInv, peer, server, client, history, NoAssertFailure
<1> QED BY <1>a, <1>3, <1>6, <1>7, <1>8, <1>9 DEF IInv

LEMMA DispatchAcceptKeeps ==
  ASSUME Calm, IInv, NEW l \in Pool, NEW e \in batch[l], NEW c \in Conns,
         DispatchAccept(l, e, c)
  PROVE  IInv'
<1>1. /\ TypeOK /\ ReadsOnly /\ EventsRest /\ HeldLives /\ SendsAsked
      /\ (\A d \in backlog : state[d] = "none")
  BY DEF IInv
<1>2. /\ Take(l, e) /\ c \in backlog /\ backlog' = backlog \ {c} /\ fdOpen' = fdOpen \cup {c}
      /\ OnNewConnection(c)
      /\ UNCHANGED <<data, chunks, fin, rst, apart, registered, edge, listening, attached, asked,
                     sends, history>>
  BY DEF DispatchAccept
<1>a. ReadsOnly'
  BY <1>1, <1>2 DEF ReadsOnly, sends
<1>3. StagesStep(c) /\ Fresh(c)
  BY DispatchAcceptStep
<1>4. PICK t \in Pool : t = Loopers[nextLooper]
  BY <1>1 DEF TypeOK, Pool
<1>5. /\ state' = [state EXCEPT ![c] = "live"] /\ looperOf' = [looperOf EXCEPT ![c] = t]
      /\ connSet' = connSet \cup {c} /\ kept' = kept \cup {c}
      /\ nextLooper' = (nextLooper % Len(Loopers)) + 1
  BY <1>2, <1>4 DEF OnNewConnection, GetLooper
<1>6. nextLooper' \in DOMAIN Loopers
  <2>1. Len(Loopers) \in Nat /\ Len(Loopers) > 0 /\ DOMAIN Loopers = 1 .. Len(Loopers)
    BY ServerAssumption
  <2>2. nextLooper \in Nat
    BY <1>1, <2>1 DEF TypeOK
  <2> QED BY <1>5, <2>1, <2>2
<1>7. /\ todo' \in [Pool -> Seq(Ops)] /\ queue' \in [Pool -> Seq(Posts)]
      /\ \A m \in Pool : \A o \in In(todo'[m]) :
           o \in In(todo[m]) \/ (o.c = c /\ o.op # "send")
      /\ \A m \in Pool : \A o \in In(queue'[m]) : o \in In(queue[m]) \/ o.op # "send"
  <2>1. todo \in [Pool -> Seq(Ops)] /\ queue \in [Pool -> Seq(Posts)]
    BY <1>1 DEF TypeOK
  <2>2. PICK s \in Seq(Ops) : Begin(l, s) /\ \A o \in In(s) : o.c = c /\ o.op # "send"
    <3>1. CASE AttachInline \/ t = Main
      <4>1. /\ <<Op("attach", c), Op("release", c)>> \in Seq(Ops)
            /\ In(<<Op("attach", c), Op("release", c)>>) = {Op("attach", c), Op("release", c)}
        BY Calls, CallKinds, InShort
      <4>2. Begin(l, <<Op("attach", c), Op("release", c)>>)
        BY <1>4, <3>1 DEF DispatchAccept
      <4>3. \A o \in {Op("attach", c), Op("release", c)} : o.c = c /\ o.op # "send"
        BY DEF Op
      <4> QED BY <4>1, <4>2, <4>3
    <3>2. CASE ~(AttachInline \/ t = Main)
      <4>1. /\ <<Op("release", c)>> \in Seq(Ops)
            /\ In(<<Op("release", c)>>) = {Op("release", c)}
        BY Calls, CallKinds, InShort
      <4>2. Begin(l, <<Op("release", c)>>)
        BY <1>4, <3>2 DEF DispatchAccept
      <4>3. Op("release", c).c = c /\ Op("release", c).op # "send"
        BY DEF Op
      <4> QED BY <4>1, <4>2, <4>3
    <3> QED BY <3>1, <3>2
  <2>3. todo' \in [Pool -> Seq(Ops)] /\ todo'[l] = s /\ \A m \in Pool \ {l} : todo'[m] = todo[m]
    BY <2>1, <2>2 DEF Begin
  <2>4. \A m \in Pool : \A o \in In(todo'[m]) :
           o \in In(todo[m]) \/ (o.c = c /\ o.op # "send")
    BY <2>2, <2>3
  <2>5. CASE queue' = queue
    BY <2>1, <2>3, <2>4, <2>5
  <2>6. CASE queue' = [queue EXCEPT ![t] = Append(@, Op("attach", c))]
    <3> DEFINE o == Op("attach", c)
               q == queue[t]
    <3>1. o \in Posts /\ q \in Seq(Posts) /\ o.op # "send" /\ queue' = [queue EXCEPT ![t] = Append(q, o)]
      BY <2>1, <2>6 DEF Posts, Ops, Op, OpKinds
    <3> HIDE DEF o
    <3>2. /\ queue' \in [Pool -> Seq(Posts)] /\ queue'[t] = Append(q, o)
          /\ \A m \in Pool \ {t} : queue'[m] = queue[m]
      BY <2>1, <3>1
    <3> HIDE DEF q
    <3>3. In(Append(q, o)) = In(q) \cup {o}
      BY <3>1, Elements
    <3>4. \A m \in Pool : \A x \in In(queue'[m]) : x \in In(queue[m]) \/ x.op # "send"
      <4>1. \A x \in In(queue'[t]) : x \in In(queue[t]) \/ x.op # "send"
        <5>1. In(queue'[t]) = In(queue[t]) \cup {o}
          BY ONLY <3>2, <3>3, Zenon DEF q
        <5> QED BY ONLY <3>1, <5>1
      <4> SUFFICES ASSUME NEW m \in Pool, NEW x \in In(queue'[m])
                   PROVE  x \in In(queue[m]) \/ x.op # "send"
        OBVIOUS
      <4>0. m \in Pool /\ x \in In(queue'[m])
        OBVIOUS
      <4>2. CASE m = t
        BY ONLY <4>0, <4>1, <4>2
      <4>3. CASE m # t
        <5>1. queue'[m] = queue[m]
          BY ONLY <3>2, <4>0, <4>3
        <5> QED BY ONLY <4>0, <5>1
      <4> QED BY ONLY <4>2, <4>3
    <3> QED BY <2>3, <2>4, <3>2, <3>4
  <2> QED BY <1>4, <2>5, <2>6 DEF DispatchAccept
<1>8. Basic'
  <2>1. batch' \in [Pool -> SUBSET Events]
    BY <1>1, <1>2, Taken
  <2>2. /\ state' \in [Conns -> {"none", "live", "destroyed"}]
        /\ looperOf' \in [Conns -> Pool]
        /\ {backlog', fdOpen', connSet', kept'} \subseteq SUBSET Conns
        /\ registered' \subseteq Conns
    BY <1>1, <1>2, <1>4, <1>5 DEF TypeOK
  <2>3. /\ data' \in [Conns -> BOOLEAN] /\ chunks' \in [Conns -> 0..MaxChunks]
        /\ {fin', rst'} \subseteq SUBSET Conns /\ edge' \subseteq registered'
        /\ listening' \in {"no", "yes", "stopped"} /\ attached' \subseteq Conns
        /\ {asked', sent', early'} \subseteq SUBSET Conns /\ apart' \subseteq fin'
        /\ notified' \in [Conns -> Nat] /\ failure' \in {"none", "assert", "uaf"}
    BY ONLY <1>1, <1>2 DEF TypeOK, history, sends
  <2> QED BY <1>6, <1>7, <2>1, <2>2, <2>3 DEF Basic
<1>9. TypeOK'
  BY <1>a, <1>3, <1>8, Typed DEF StagesStep
<1>10. EventsRest'
  <2>1. \A m \in Pool : batch'[m] \subseteq batch[m]
    BY <1>1, <1>2, Taken
  <2>2. ~Resting(c)
    BY <1>3 DEF Fresh, Resting, Served
  <2>3. \A d \in Conns \ {c} : looperOf'[d] = looperOf[d] /\ (Resting(d) => Resting(d)')
    BY <1>1, <1>3, <1>5 DEF TypeOK, StagesStep
  <2>4. \A m \in Pool : \A f \in batch[m] : f.kind = "conn" => f.c \in Conns \ {c}
    BY <1>1, <2>2, EventTypes DEF EventsRest
  <2> QED BY <1>1, <2>1, <2>3, <2>4 DEF EventsRest
<1>11. state'[c] = "live" /\ \A d \in Conns : state[d] = "live" => state'[d] = "live"
  BY <1>1, <1>5 DEF TypeOK
<1>12. HeldLives' /\ SendsAsked'
  <2>1. \A d \in Conns : Op("release", d).c = d
    BY DEF Op
  <2>2. HeldLives'
    <3> SUFFICES ASSUME NEW m \in Pool, NEW d \in Conns, Op("release", d) \in In(todo'[m])
                 PROVE  state'[d] = "live"
      BY DEF HeldLives
    <3>1. Op("release", d) \in In(todo[m]) \/ d = c
      BY <1>7, <2>1
    <3> QED BY <1>1, <1>11, <3>1 DEF HeldLives
  <2> QED BY <1>1, <1>2, <1>7, <2>2 DEF SendsAsked, sends
<1>13. /\ \A d \in backlog' : state'[d] = "none"
       /\ rst' = {} /\ early' = {} /\ NoAssertFailure' /\ (failure' = "uaf" => sent' # {})
  BY <1>1, <1>2, <1>5 DEF IInv, TypeOK, history, sends, NoAssertFailure
<1> QED BY <1>a, <1>3, <1>9, <1>10, <1>12, <1>13 DEF IInv, StagesStep

LEMMA Initially == Init => IInv
<1> SUFFICES ASSUME Init PROVE IInv
  OBVIOUS
<1>1. Main \in Pool /\ Len(Loopers) \in Nat /\ Len(Loopers) > 0 /\ DOMAIN Loopers = 1 .. Len(Loopers)
  BY MainInPool, ServerAssumption
<1>2. (1 % Len(Loopers)) + 1 \in DOMAIN Loopers
  BY <1>1
<1>3. \A l \in Pool : Line(l) = <<>> /\ todo[l] = <<>> /\ queue[l] = <<>> /\ batch[l] = {}
  BY DEF Init, AcceptorInit, Line
<1>4. \A c \in Conns : Nothing(c)
  BY <1>3, Calls DEF Nothing
<1>5. \A c \in Conns : Stage(c)
  BY <1>4 DEF Init, AcceptorInit, Stage, Fresh, Flags
<1>6. TypeOK
  <2>1. /\ queue \in [Pool -> Seq(Posts)] /\ todo \in [Pool -> Seq(Ops)]
        /\ batch \in [Pool -> SUBSET Events]
    BY DEF Init, AcceptorInit
  <2>2. 0 \in 0 .. MaxChunks
    BY ServerAssumption
  <2> QED BY <1>1, <1>2, <2>1, <2>2 DEF Init, AcceptorInit, TypeOK
<1>7. EventsRest /\ HeldLives /\ SendsAsked
  BY <1>3, InShort DEF EventsRest, HeldLives, SendsAsked
<1> QED BY <1>5, <1>6, <1>7 DEF Init, AcceptorInit, IInv, ReadsOnly, NoAssertFailure

LEMMA Stutters == IInv /\ UNCHANGED vars => IInv'
<1> SUFFICES ASSUME IInv, UNCHANGED vars PROVE IInv'
  OBVIOUS
<1>1. TypeOK /\ \A d \in backlog : state[d] = "none"
  BY DEF IInv
<1>2. Basic'
  BY <1>1 DEF TypeOK, Basic, vars
<1> QED BY <1>1, <1>2, OutsideKeeps DEF vars, threads, sends

LEMMA Inductive == Calm /\ IInv /\ [Next]_vars => IInv'
<1> SUFFICES ASSUME Calm, IInv, Next PROVE IInv'
  BY Stutters
<1>1. ASSUME NEW l \in Pool, LooperStep(l) PROVE IInv'
  BY <1>1, EpollWaitKeeps, DispatchConnKeeps, DispatchRunKeeps, DispatchAcceptKeeps,
    StatementKeeps DEF LooperStep
<1>2. ASSUME NEW c \in Conns, ConnEnv(c) PROVE IInv'
  <2>1. ~Kick(c)
    BY DEF Kick, Calm
  <2> QED BY <1>2, <2>1, PeerKeeps, SendKeeps DEF ConnEnv
<1>3. ASSUME StartWork \/ StopWork PROVE IInv'
  BY <1>3, WorkKeeps
<1> QED BY <1>1, <1>2, <1>3 DEF Next

LEMMA Implied == IInv => ServerInv /\ OrderlyEnd /\ NotifiedAfterClose
<1> SUFFICES ASSUME IInv PROVE ServerInv /\ OrderlyEnd /\ NotifiedAfterClose
  OBVIOUS
<1>1. FlagMatchesEpoll
  BY Settled DEF IInv, FlagMatchesEpoll, FlagMatches
<1>2. \A c \in Conns : notified[c] <= 1
  <2>1. \A c \in Conns : notified[c] \in {0, 1}
    BY DEF IInv, Stage, Fresh, Attaching, Resting, Reading, Closing, Leaving, Left, Forgotten,
      Served
  <2> QED BY <2>1
<1> QED BY <1>1, <1>2 DEF IInv, ServerInv, OrderlyEnd, NotifiedAfterClose, NoUseAfterFree

\* However many loopers and connections there are, as long as peers end their
\* streams in order, removals come from the close handler alone and nobody
\* sends an empty buffer (TcpConnection.cpp:129-136): no ASSERT fails, nothing
\* that is gone is used except by a posted send, and the flag of each channel is
\* what epoll knows.
THEOREM ServerInvariant ==
  ASSUME Calm
  PROVE  SafetySpec => []ServerInv
<1>1. Init => IInv
  BY Initially
<1>2. IInv /\ [Next]_vars => IInv'
  BY Inductive
<1>3. IInv => ServerInv
  BY Implied
<1> QED BY <1>1, <1>2, <1>3, PTL DEF SafetySpec

\* Under the same conditions the close handler is called at most once, and after
\* the descriptor is closed.
THEOREM OneOrderlyEnd ==
  ASSUME Calm
  PROVE  SafetySpec => [](OrderlyEnd /\ NotifiedAfterClose)
<1>1. Init => IInv
  BY Initially
<1>2. IInv /\ [Next]_vars => IInv'
  BY Inductive
<1>3. IInv => OrderlyEnd /\ NotifiedAfterClose
  BY Implied
<1> QED BY <1>1, <1>2, <1>3, PTL DEF SafetySpec

------------------------------------------------------------------------------
(* The server implements the life cycle *)

Lives == [c \in Conns |-> LifeOf(c)]

\* What the life of a connection depends on.
SameLife(d) ==
  /\ state'[d] = state[d] /\ notified'[d] = notified[d]
  /\ d \in fdOpen' <=> d \in fdOpen

LEMMA LivesStep ==
  ASSUME NEW c \in Conns, NEW x, LifeOf(c)' = x, \A d \in Conns \ {c} : SameLife(d)
  PROVE  Lives' = [Lives EXCEPT ![c] = x]
<1>1. \A d \in Conns \ {c} : LifeOf(d)' = LifeOf(d)
  BY DEF SameLife, LifeOf
<1> QED BY <1>1 DEF Lives

LEMMA LivesStay ==
  ASSUME \A d \in Conns : SameLife(d)
  PROVE  Lives' = Lives
<1>1. \A d \in Conns : LifeOf(d)' = LifeOf(d)
  BY DEF SameLife, LifeOf
<1> QED BY <1>1 DEF Lives

LEMMA AcceptLife ==
  ASSUME Calm, IInv, NEW l \in Pool, NEW e \in batch[l], NEW c \in Conns,
         DispatchAccept(l, e, c)
  PROVE  Life!Accept(c)
<1>1. TypeOK /\ Fresh(c)
  BY DispatchAcceptStep DEF IInv
<1>2. /\ state' = [state EXCEPT ![c] = "live"] /\ fdOpen' = fdOpen \cup {c}
      /\ notified' = notified /\ asked' = asked
  BY DEF DispatchAccept, OnNewConnection, history
<1>3. LifeOf(c) = "none" /\ LifeOf(c)' = "open"
  BY <1>1, <1>2 DEF LifeOf, Fresh, TypeOK
<1>4. \A d \in Conns \ {c} : SameLife(d)
  BY <1>1, <1>2 DEF SameLife, TypeOK
<1>5. Lives' = [Lives EXCEPT ![c] = "open"]
  BY <1>3, <1>4, LivesStep
<1> QED BY <1>2, <1>3, <1>5 DEF Life!Accept, Life!Becomes, Lives

LEMMA CloseLife ==
  ASSUME IInv, NEW l \in Pool, NEW c \in Conns, CloseFd(l, c)
  PROVE  Life!CloseFd(c)
<1>1. TypeOK /\ Stage(c) /\ At(l, "close", c) /\ "close" \in WorkKinds
  BY DEF IInv, CloseFd, WorkKinds, OpKinds
<1>2. Served(c) /\ Flags(c, TRUE, FALSE, FALSE)
  BY <1>1, Turn
<1>3. fdOpen' = fdOpen \ {c} /\ UNCHANGED <<state, notified, asked>>
  BY DEF CloseFd, server, client
<1>4. LifeOf(c) = "open" /\ LifeOf(c)' = "closed"
  BY <1>1, <1>2, <1>3 DEF LifeOf, Served, Flags, TypeOK
<1>5. \A d \in Conns \ {c} : SameLife(d)
  BY <1>3 DEF SameLife
<1>6. Lives' = [Lives EXCEPT ![c] = "closed"]
  BY <1>4, <1>5, LivesStep
<1> QED BY <1>3, <1>4, <1>6 DEF Life!CloseFd, Life!Becomes, Lives

LEMMA NotifyLife ==
  ASSUME IInv, NEW l \in Pool, NEW c \in Conns, Notify(l, c)
  PROVE  Life!NotifyRemove(c)
<1>1. TypeOK /\ Stage(c) /\ At(l, "notify", c) /\ "notify" \in WorkKinds
  BY DEF IInv, Notify, WorkKinds, OpKinds
<1>2. Served(c) /\ Flags(c, FALSE, FALSE, FALSE)
  BY <1>1, Turn
<1>3. /\ notified' = [notified EXCEPT ![c] = @ + 1] /\ asked' = asked \cup {c}
      /\ UNCHANGED <<state, fdOpen>>
  BY DEF Notify, Handler, epoll, server
<1>4. LifeOf(c) = "closed" /\ LifeOf(c)' = "notified"
  BY <1>1, <1>2, <1>3 DEF LifeOf, Served, Flags, TypeOK
<1>5. \A d \in Conns \ {c} : SameLife(d)
  BY <1>1, <1>3 DEF SameLife, TypeOK
<1>6. Lives' = [Lives EXCEPT ![c] = "notified"]
  BY <1>4, <1>5, LivesStep
<1> QED BY <1>3, <1>4, <1>6 DEF Life!NotifyRemove, Lives

LEMMA ReleaseLife ==
  ASSUME IInv, NEW l \in Pool, NEW c \in Conns, Release(l, c)
  PROVE  Life!Reclaim(c) \/ UNCHANGED <<Lives, asked>>
<1>1. TypeOK /\ asked' = asked /\ notified' = notified
  BY DEF IInv, Release, client
<1>2. CASE HeldElsewhere(l, c)
  <2>1. UNCHANGED <<state, fdOpen>>
    BY <1>2 DEF Release, epoll
  <2>2. \A d \in Conns : SameLife(d)
    BY <1>1, <2>1 DEF SameLife
  <2> QED BY <1>1, <2>2, LivesStay
<1>3. CASE ~HeldElsewhere(l, c)
  <2>1. state' = [state EXCEPT ![c] = "destroyed"] /\ fdOpen' = fdOpen \ {c}
    BY <1>3 DEF Release
  <2>2. state'[c] = "destroyed" /\ state[c] = "live"
    BY <1>1, <2>1, ReleaseStep DEF TypeOK
  <2>3. Left(c)
    BY <2>2, ReleaseStep
  <2>4. LifeOf(c) = "notified" /\ LifeOf(c)' = "gone"
    BY <2>2, <2>3 DEF LifeOf, Left
  <2>5. \A d \in Conns \ {c} : SameLife(d)
    BY <1>1, <2>1 DEF SameLife, TypeOK
  <2>6. Lives' = [Lives EXCEPT ![c] = "gone"]
    BY <2>4, <2>5, LivesStep
  <2> QED BY <1>1, <2>4, <2>6 DEF Life!Reclaim, Life!Becomes, Lives
<1> QED BY <1>2, <1>3

LEMMA StatementLife ==
  ASSUME IInv, NEW l \in Pool, NEW c \in Conns, Statement(l, c)
  PROVE  Life!Next \/ UNCHANGED <<Lives, asked>>
<1>1. CASE CloseFd(l, c)
  BY <1>1, CloseLife DEF Life!Next
<1>2. CASE Notify(l, c)
  BY <1>2, NotifyLife DEF Life!Next
<1>3. CASE Release(l, c)
  BY <1>3, ReleaseLife DEF Life!Next
<1>4. CASE \/ Read(l, c) \/ Attach(l, c) \/ Add(l, c) \/ Set(l, c) \/ Detach(l, c)
           \/ Del(l, c) \/ Clear(l, c) \/ RemoveConn(l, c) \/ Erase(l, c)
           \/ SendInternal(l, c)
  <2>1. UNCHANGED <<state, notified, fdOpen, asked>>
    BY <1>4 DEF Read, Attach, Add, Set, Detach, Del, Clear, RemoveConn, Erase, SendInternal,
      epoll, server, client
  <2> QED BY <2>1, LivesStay DEF SameLife
<1> QED BY <1>1, <1>2, <1>3, <1>4, NoHup, OnlyReads DEF Statement

LEMMA StepLife == Calm /\ IInv /\ [Next]_vars => [Life!Next]_Life!vars
<1> SUFFICES ASSUME Calm, IInv, [Next]_vars
             PROVE  Life!Next \/ UNCHANGED <<Lives, asked>>
  BY DEF Life!vars, Lives
<1>1. CASE UNCHANGED <<state, notified, fdOpen, asked>>
  BY <1>1, LivesStay DEF SameLife
<1>2. ASSUME NEW l \in Pool, LooperStep(l) PROVE Life!Next \/ UNCHANGED <<Lives, asked>>
  <2>1. CASE EpollWait(l) \/ \E e \in batch[l] : DispatchConn(l, e) \/ DispatchRun(l, e)
    BY <1>1, <2>1 DEF EpollWait, DispatchConn, DispatchRun, epoll, server, client, history
  <2>2. CASE \E e \in batch[l] : \E c \in Conns : DispatchAccept(l, e, c)
    BY <2>2, AcceptLife DEF Life!Next
  <2>3. CASE \E c \in Conns : Statement(l, c)
    BY <2>3, StatementLife
  <2> QED BY <1>2, <2>1, <2>2, <2>3 DEF LooperStep
<1>3. ASSUME NEW c \in Conns, ConnEnv(c) PROVE Life!Next \/ UNCHANGED <<Lives, asked>>
  BY <1>1, <1>3 DEF ConnEnv, Connect, PeerSend, PeerEnd, PeerReset, Kick, Send, Calm, epoll,
    server, client, history
<1>4. ASSUME StartWork \/ StopWork PROVE Life!Next \/ UNCHANGED <<Lives, asked>>
  BY <1>1, <1>4 DEF StartWork, StopWork, epoll, client, history
<1>5. CASE UNCHANGED vars
  BY <1>1, <1>5 DEF vars
<1> QED BY <1>2, <1>3, <1>4, <1>5 DEF Next

\* Under the same conditions every connection is served, closed, told and then
\* reclaimed, in this order and each once: the server implements ConnLife.
THEOREM LifeCycleImplemented ==
  ASSUME Calm
  PROVE  SafetySpec => LifeCycle
<1>1. Init => IInv
  BY Initially
<1>2. IInv /\ [Next]_vars => IInv'
  BY Inductive
<1>3. Init => Life!Init
  BY DEF Init, AcceptorInit, Life!Init, LifeOf
<1>4. IInv /\ [Next]_vars => [Life!Next]_Life!vars
  BY StepLife
<1> QED BY <1>1, <1>2, <1>3, <1>4, PTL DEF SafetySpec, LifeCycle, Life!Spec
============================================================================
