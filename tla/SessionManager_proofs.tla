------------------------ MODULE SessionManager_proofs ------------------------
(* The wheel of timeouts, for any number of timeouts, delays and buckets; and *)
(* over it the sessions and their idle timeouts, for any number of sessions,  *)
(* connections and users.                                                     *)
EXTENDS SessionManager, SequenceLemmas

------------------------------------------------------------------------------
(* Removal from a list, and remainders *)

LEMMA RemoveAtElements ==
  ASSUME NEW S, NEW s \in Seq(S), NEW p \in 1 .. Len(s)
  PROVE  /\ RemoveAt(s, p) \in Seq(S)
         /\ Len(RemoveAt(s, p)) = Len(s) - 1
         /\ \A i \in 1 .. Len(s) - 1 :
              RemoveAt(s, p)[i] = IF i < p THEN s[i] ELSE s[i + 1]
<1> DEFINE a == SubSeq(s, 1, p - 1)
           b == SubSeq(s, p + 1, Len(s))
<1>1. /\ a \in Seq(S) /\ Len(a) = p - 1
      /\ \A i \in 1 .. p - 1 : a[i] = s[i]
  OBVIOUS
<1>2. /\ b \in Seq(S) /\ Len(b) = Len(s) - p
      /\ \A i \in 1 .. Len(s) - p : b[i] = s[i + p]
  OBVIOUS
<1>3. RemoveAt(s, p) = a \o b
  BY DEF RemoveAt
<1> HIDE DEF a, b
<1>4. /\ a \o b \in Seq(S) /\ Len(a \o b) = Len(a) + Len(b)
      /\ \A i \in 1 .. Len(a) + Len(b) :
           (a \o b)[i] = IF i <= Len(a) THEN a[i] ELSE b[i - Len(a)]
  <2>1. a \in Seq(S) /\ b \in Seq(S)
    BY <1>1, <1>2
  <2> QED BY ONLY <2>1
<1>5. ASSUME NEW i \in 1 .. Len(s) - 1
      PROVE  (a \o b)[i] = IF i < p THEN s[i] ELSE s[i + 1]
  <2>1. CASE i < p
    <3>1. i \in 1 .. Len(a) + Len(b) /\ i <= Len(a) /\ i \in 1 .. p - 1
      BY <1>1, <1>2, <2>1
    <3>2. (a \o b)[i] = a[i] /\ a[i] = s[i]
      BY <1>1, <1>4, <3>1
    <3> QED BY <2>1, <3>2
  <2>2. CASE ~(i < p)
    <3>1. i - Len(a) \in 1 .. Len(s) - p /\ (i - Len(a)) + p = i + 1
      BY <1>1, <2>2
    <3>2. (a \o b)[i] = b[i - Len(a)]
      BY <1>1, <1>2, <1>4, <2>2
    <3> QED BY <1>2, <2>2, <3>1, <3>2
  <2> QED BY <2>1, <2>2
<1> QED BY <1>1, <1>2, <1>3, <1>4, <1>5

LEMMA DivMod ==
  ASSUME NEW W \in Nat \ {0}, NEW n \in Nat
  PROVE  /\ n % W \in 0 .. W - 1 /\ n \div W \in Nat
         /\ n = W * (n \div W) + (n % W)
  OBVIOUS

LEMMA DivModUnique ==
  ASSUME NEW W \in Nat \ {0}, NEW q \in Nat, NEW r \in 0 .. W - 1,
         NEW n \in Nat, n = W * q + r
  PROVE  n % W = r
<1> DEFINE d == n \div W
           m == n % W
<1>1. m \in 0 .. W - 1 /\ d \in Nat /\ n = W * d + m
  BY DivMod
<1> HIDE DEF d, m
<1>2. CASE d = q
  BY <1>1, <1>2 DEF m
<1>3. CASE d < q
  <2> DEFINE k == q - d - 1
  <2>1. k \in Nat /\ q = d + 1 + k
    BY <1>1, <1>3
  <2> HIDE DEF k
  <2>2. W * q = W * d + W + W * k /\ W * k \in Nat
    BY <1>1, <2>1
  <2> QED BY <1>1, <2>2
<1>4. CASE q < d
  <2> DEFINE k == d - q - 1
  <2>1. k \in Nat /\ d = q + 1 + k
    BY <1>1, <1>4
  <2> HIDE DEF k
  <2>2. W * d = W * q + W + W * k /\ W * k \in Nat
    BY <1>1, <2>1
  <2> QED BY <1>1, <2>2
<1> QED BY <1>1, <1>2, <1>3, <1>4
LEMMA SumMod ==
  ASSUME NEW W \in Nat \ {0}, NEW n \in Nat, NEW s \in 0 .. W - 1
  PROVE  (n + s) % W = IF (n % W) + s < W THEN (n % W) + s ELSE (n % W) + s - W
<1> DEFINE d == n \div W
           m == n % W
<1>1. m \in 0 .. W - 1 /\ d \in Nat /\ n = W * d + m
  BY DivMod
<1> HIDE DEF d, m
<1>2. CASE m + s < W
  <2>1. m + s \in 0 .. W - 1 /\ n + s = W * d + (m + s) /\ n + s \in Nat
    BY <1>1, <1>2
  <2>2. (n + s) % W = m + s
    BY <1>1, <2>1, DivModUnique
  <2> QED BY <1>2, <2>2 DEF m
<1>3. CASE ~(m + s < W)
  <2> DEFINE r == m + s - W
             q == d + 1
             sum == n + s
  <2>1. r \in 0 .. W - 1 /\ q \in Nat /\ sum \in Nat
    BY <1>1, <1>3
  <2>2. W * q = W * d + W
    BY <1>1
  <2>3. sum = W * q + r
    BY <1>1, <2>1, <2>2
  <2> HIDE DEF r, q, sum
  <2>4. sum % W = r
    BY <2>1, <2>3, DivModUnique
  <2> QED BY <1>3, <2>4 DEF m, r, sum
<1> QED BY <1>2, <1>3


\* The wheel is as large as asked for, and not empty.
LEMMA WheelPositive == Wheel \in Nat \ {0} /\ Wheel >= TicksPerWheel
<1> DEFINE N == TicksPerWheel
           step == [p \in (1 .. N) \X Nat |-> 2 * p[2]]
           Fun(h) == h = [s \in 0 .. N |-> IF s = 0 THEN 1 ELSE 2 * h[s - 1]]
           f == CHOOSE h : Fun(h)
<1>1. N \in Nat
  BY TimerAssumption
<1> HIDE DEF N
<1>2. step \in Steps(N, Nat) /\ \A n \in 1 .. N, m \in Nat : step[<<n, m>>] = 2 * m
  BY DEF Steps
<1> HIDE DEF step
<1>3. PICK g : Recurs(g, Nat, 1, N, step)
  <2> DEFINE e == 1
  <2>1. e \in Nat
    OBVIOUS
  <2> HIDE DEF e
  <2>2. \E g : Recurs(g, Nat, e, N, step)
    BY <1>1, <1>2, <2>1, RecursionExists, Zenon
  <2> QED BY <2>2 DEF e
<1>4. Fun(g)
  <2>1. \A n \in 0 .. N : n # 0 => n \in 1 .. N /\ g[n - 1] \in Nat
    BY <1>1, <1>3 DEF Recurs
  <2>2. \A n \in 0 .. N : g[n] = IF n = 0 THEN 1 ELSE 2 * g[n - 1]
    BY <1>2, <1>3, <2>1 DEF Recurs
  <2> QED BY <1>3, <2>2 DEF Recurs
<1>5. Fun(f)
  BY <1>4
<1>6. Shifted = f
  BY DEF Shifted, N
<1> HIDE DEF f
<1>7. Shifted[0] = 1 /\ \A n \in Nat : n + 1 \in 0 .. N => Shifted[n + 1] = 2 * Shifted[n]
  <2>1. \A n \in Nat : n + 1 \in 0 .. N => (n + 1) - 1 = n /\ n + 1 # 0
    OBVIOUS
  <2> QED BY <1>1, <1>5, <1>6, <2>1
<1>8. \A n \in Nat : n \in 0 .. N => Shifted[n] \in Nat /\ Shifted[n] > n
  <2> DEFINE T == {n \in Nat : n \in 0 .. N => Shifted[n] \in Nat /\ Shifted[n] > n}
  <2>1. 0 \in T
    BY <1>7
  <2>2. ASSUME NEW n \in T PROVE n + 1 \in T
    BY <1>1, <1>7
  <2> HIDE DEF T
  <2>3. T \in SUBSET Nat
    BY DEF T
  <2>4. T = Nat
    BY <2>1, <2>2, <2>3, SetInduction
  <2> QED BY <2>4 DEF T
<1> DEFINE Large == {s \in 0 .. N : Shifted[s] >= N}
           Is(s) == /\ Shifted[s] >= N
                    /\ \A r \in 0 .. s - 1 : Shifted[r] < N
<1>9. PICK x \in Large : \A y \in Large : x <= y
  <2>1. Large \in SUBSET Nat /\ N \in Large
    BY <1>1, <1>8
  <2> QED BY <2>1, LeastNat
<1>10. x \in 0 .. N /\ Is(x)
  <2>1. ASSUME NEW r \in 0 .. x - 1 PROVE Shifted[r] < N
    <3>1. r \in 0 .. N /\ r < x /\ Shifted[r] \in Nat
      BY <1>1, <1>8, <1>9
    <3> QED BY <1>1, <1>9, <3>1
  <2> QED BY <1>9, <2>1
<1> DEFINE z == CHOOSE s \in 0 .. N : Is(s)
<1>11. z \in 0 .. N /\ Is(z)
  BY <1>10
<1>12. Wheel = Shifted[z]
  BY DEF Wheel, N
<1> HIDE DEF z
<1>13. Shifted[z] \in Nat /\ Shifted[z] > z /\ z \in Nat
  BY <1>1, <1>8, <1>11
<1> QED BY <1>11, <1>12, <1>13 DEF N

------------------------------------------------------------------------------
(* The invariant of the wheel *)

Places == {p \in (0 .. Wheel - 1) \X (Nat \ {0}) : p[2] <= Len(bucket[p[1]])}
At(p) == bucket[p[1]][p[2]]

Away(p) ==
  IF p[1] > Slot THEN p[1] - Slot
  ELSE IF p[1] < Slot THEN p[1] + Wheel - Slot
  ELSE IF p[2] < pos THEN Wheel ELSE 0

Due(p) == ticked + Away(p) + Wheel * rounds[At(p)]

Asked(t) == added[t].clock + added[t].ticks
Extra(t) == IF added[t].behind THEN 1 ELSE 0

\* The expirations that have not ticked, and the one that does now.
Behind == lost + unread + (IF pos > 0 THEN 1 ELSE 0)

NotLate(p) == added[At(p)].lost + Due(p) <= Asked(At(p))

NotSoon(p) ==
  LET t == At(p) IN
    \/ lost + 1 + Extra(t) + Due(p) >= Asked(t)
    \/ pos > 0 /\ added[t].behind /\ Behind + Due(p) >= Asked(t)
    \/ pos = 0 /\ Behind + Extra(t) + Due(p) >= Asked(t)

OnePlace == \A p, q \in Places : At(p) = At(q) => p = q
Listed == \A t \in Timeouts : st[t] = "init" => \E p \in Places : At(p) = t
OnlyAdded == \A p \in Places : st[At(p)] # "new"
Fresh == \A t \in Timeouts : st[t] \in {"new", "init"} => ran[t] = 0
Runs == running # None => /\ pos > 0 /\ pos <= Len(bucket[Slot])
                          /\ Current = running /\ st[running] = "expired"
Counted == clock = ticked + Behind
InTime == \A p \in Places : NotLate(p) /\ NotSoon(p)

WheelInv == TypeOK /\ OnePlace /\ Listed /\ OnlyAdded /\ Fresh /\ Runs /\ Counted /\ InTime

LEMMA SlotRange ==
  ASSUME ticked \in Nat
  PROVE  Slot \in 0 .. Wheel - 1
  BY WheelPositive, DivMod DEF Slot

LEMMA PlaceTypes ==
  ASSUME TypeOK, NEW p \in Places
  PROVE  /\ p = <<p[1], p[2]>>
         /\ p[1] \in 0 .. Wheel - 1 /\ p[2] \in 1 .. Len(bucket[p[1]])
         /\ At(p) \in Timeouts
         /\ Away(p) \in 0 .. Wheel
         /\ Wheel * rounds[At(p)] \in Nat
         /\ Due(p) \in Nat /\ Due(p) >= ticked
<1>1. p = <<p[1], p[2]>> /\ p[1] \in 0 .. Wheel - 1 /\ p[2] \in 1 .. Len(bucket[p[1]])
  BY DEF Places, TypeOK
<1>2. bucket[p[1]] \in Seq(Timeouts)
  BY <1>1 DEF TypeOK
<1>3. At(p) \in Timeouts
  BY <1>1, <1>2 DEF At
<1>4. Away(p) \in 0 .. Wheel
  <2>1. ticked \in Nat /\ pos \in Nat
    BY DEF TypeOK
  <2>2. Slot \in 0 .. Wheel - 1 /\ Wheel \in Nat
    BY <2>1, WheelPositive, SlotRange
  <2>3. p[1] \in Nat /\ p[2] \in Nat
    BY <1>1 DEF Places
  <2> QED BY <1>1, <2>1, <2>2, <2>3 DEF Away
<1>5. Wheel * rounds[At(p)] \in Nat
  BY <1>3, WheelPositive DEF TypeOK
<1>6. ticked \in Nat /\ Wheel \in Nat
  BY WheelPositive DEF TypeOK
<1> QED BY <1>1, <1>3, <1>4, <1>5, <1>6 DEF Due

LEMMA AddedTypes ==
  ASSUME TypeOK, NEW t \in Timeouts
  PROVE  /\ added[t].lost \in Nat /\ Asked(t) \in Nat /\ Extra(t) \in {0, 1}
         /\ added[t].behind \in BOOLEAN /\ (added[t].behind <=> Extra(t) = 1)
<1>1. added[t] \in [clock : Nat, lost : Nat, ticks : Nat, behind : BOOLEAN]
  BY DEF TypeOK
<1> QED BY <1>1 DEF Asked, Extra

LEMMA Counters ==
  ASSUME TypeOK
  PROVE  /\ clock \in Nat /\ unread \in Nat /\ lost \in Nat /\ ticked \in Nat
         /\ pos \in Nat
  BY TimerAssumption DEF TypeOK

\* A timeout that keeps its turn stays in time: while the wheel is in the same
\* phase, when a tick begins, and when a tick ends.
LEMMA StaysInTime ==
  ASSUME TypeOK, TypeOK', Counted,
         NEW p \in Places, NotLate(p), NotSoon(p),
         NEW q \in Places', At(q)' = At(p), Due(q)' = Due(p),
         added'[At(p)] = added[At(p)],
         \/ lost' = lost /\ unread' >= unread /\ (pos' > 0 <=> pos > 0)
         \/ pos = 0 /\ pos' > 0 /\ unread > 0 /\ unread' = 0 /\ lost' + 1 = lost + unread
         \/ pos > 0 /\ pos' = 0 /\ lost' = lost /\ unread' = unread
  PROVE  NotLate(q)' /\ NotSoon(q)'
<1> DEFINE t == At(p)
           e == Asked(t)
           d == Due(p)
           x == Extra(t)
<1>1. t \in Timeouts /\ d \in Nat
  BY PlaceTypes
<1>2. e \in Nat /\ x \in {0, 1} /\ added[t].lost \in Nat /\ (added[t].behind <=> x = 1)
  BY <1>1, AddedTypes
<1>3. /\ clock \in Nat /\ unread \in Nat /\ lost \in Nat /\ ticked \in Nat /\ pos \in Nat
      /\ unread' \in Nat /\ lost' \in Nat /\ pos' \in Nat
  BY Counters, TimerAssumption DEF TypeOK
<1>4. /\ Asked(At(q))' = e /\ Extra(At(q))' = x
      /\ added'[At(q)'].lost = added[t].lost
      /\ added'[At(q)'].behind = added[t].behind
  BY DEF Asked, Extra
<1>5. NotLate(q)'
  BY <1>4 DEF NotLate
<1>6. \/ lost + 1 + x + d >= e
      \/ pos > 0 /\ x = 1 /\ Behind + d >= e
      \/ pos = 0 /\ Behind + x + d >= e
  BY <1>2 DEF NotSoon
<1>7. ASSUME \/ lost' + 1 + x + d >= e
             \/ pos' > 0 /\ x = 1 /\ Behind' + d >= e
             \/ pos' = 0 /\ Behind' + x + d >= e
      PROVE NotSoon(q)'
  BY <1>2, <1>4, <1>7 DEF NotSoon
<1> HIDE DEF t, e, d, x
<1>8. /\ Behind = lost + unread + (IF pos > 0 THEN 1 ELSE 0)
      /\ Behind' = lost' + unread' + (IF pos' > 0 THEN 1 ELSE 0)
  BY DEF Behind
<1>9. \/ lost' + 1 + x + d >= e
      \/ pos' > 0 /\ x = 1 /\ Behind' + d >= e
      \/ pos' = 0 /\ Behind' + x + d >= e
  <2> PICK l : l = lost'
    OBVIOUS
  <2> PICK u : u = unread'
    OBVIOUS
  <2> PICK o : o = pos'
    OBVIOUS
  <2> PICK h : h = Behind'
    OBVIOUS
  <2>1. /\ l \in Nat /\ u \in Nat /\ o \in Nat /\ h = l + u + (IF o > 0 THEN 1 ELSE 0)
        /\ lost \in Nat /\ unread \in Nat /\ pos \in Nat
    BY <1>3, <1>8
  <2>2. \/ l = lost /\ u >= unread /\ (o > 0 <=> pos > 0)
        \/ pos = 0 /\ o > 0 /\ unread > 0 /\ u = 0 /\ l + 1 = lost + unread
        \/ pos > 0 /\ o = 0 /\ l = lost /\ u = unread
    OBVIOUS
  <2>3. Behind = lost + unread + (IF pos > 0 THEN 1 ELSE 0)
    BY DEF Behind
  <2>4. \/ l + 1 + x + d >= e
        \/ o > 0 /\ x = 1 /\ h + d >= e
        \/ o = 0 /\ h + x + d >= e
    BY ONLY <1>1, <1>2, <1>6, <2>1, <2>2, <2>3
  <2> QED BY <2>4
<1> QED BY <1>5, <1>7, <1>9

LEMMA SamePlaces ==
  ASSUME UNCHANGED bucket
  PROVE  Places' = Places /\ \A p \in Places : At(p)' = At(p)
  BY DEF Places, At

\* The invariant after a step that moves no timeout.
LEMMA StillStep ==
  ASSUME WheelInv, TypeOK', Counted', Fresh', Runs',
         UNCHANGED <<bucket, pos, ticked, rounds, added, lost>>, unread' >= unread,
         \A t \in Timeouts : /\ st'[t] = "init" => st[t] = "init"
                             /\ st'[t] = "new" => st[t] = "new"
  PROVE  WheelInv'
<1> USE DEF WheelInv
<1>1. Places' = Places /\ \A p \in Places : At(p)' = At(p)
  BY SamePlaces
<1>2. OnePlace'
  BY <1>1 DEF OnePlace
<1>3. Listed'
  BY <1>1 DEF Listed
<1>4. OnlyAdded'
  BY <1>1, PlaceTypes DEF OnlyAdded
<1>5. ASSUME NEW p \in Places' PROVE NotLate(p)' /\ NotSoon(p)'
  <2>1. p \in Places /\ At(p)' = At(p)
    BY <1>1
  <2>2. Due(p)' = Due(p)
    BY <2>1 DEF Due, Away, Slot
  <2>4. NotLate(p) /\ NotSoon(p)
    BY <2>1 DEF InTime
  <2>5. added'[At(p)] = added[At(p)]
    OBVIOUS
  <2>6. lost' = lost /\ unread' >= unread /\ (pos' > 0 <=> pos > 0)
    OBVIOUS
  <2> QED BY <2>1, <2>2, <2>4, <2>5, <2>6, StaysInTime
<1> QED BY <1>2, <1>3, <1>4, <1>5 DEF InTime

LEMMA ClockStep ==
  ASSUME WheelInv, Clock
  PROVE  WheelInv'
<1> USE DEF WheelInv
<1>1. TypeOK'
  BY TimerAssumption DEF Clock, TypeOK
<1>2. Counted' /\ unread' >= unread
  BY Counters DEF Clock, Counted, Behind
<1>3. Fresh' /\ Runs'
  BY DEF Clock, Fresh, Runs, Current, Slot
<1> QED BY <1>1, <1>2, <1>3, StillStep DEF Clock

LEMMA AttachStep ==
  ASSUME WheelInv, Attach \/ Detach
  PROVE  WheelInv'
<1> USE DEF WheelInv
<1>1. TypeOK'
  BY DEF Attach, Detach, TypeOK
<1>2. Counted' /\ unread' >= unread
  BY Counters DEF Attach, Detach, Counted, Behind
<1>3. Fresh' /\ Runs'
  BY DEF Attach, Detach, Fresh, Runs, Current, Slot
<1> QED BY <1>1, <1>2, <1>3, StillStep DEF Attach, Detach

LEMMA HandleReadStep ==
  ASSUME WheelInv, HandleRead
  PROVE  WheelInv'
<1> USE DEF WheelInv
<1>1. TypeOK'
  BY DEF HandleRead, TypeOK
<1>2. Counted'
  BY Counters DEF HandleRead, Counted, Behind
<1>3. Fresh' /\ Runs'
  BY DEF HandleRead, Fresh, Runs
<1>4. Places' = Places /\ \A p \in Places : At(p)' = At(p)
  BY SamePlaces DEF HandleRead
<1>5. OnePlace' /\ Listed' /\ OnlyAdded'
  BY <1>4, PlaceTypes DEF OnePlace, Listed, OnlyAdded, HandleRead
<1>6. ASSUME NEW p \in Places' PROVE NotLate(p)' /\ NotSoon(p)'
  <2>1. p \in Places /\ At(p)' = At(p) /\ p[2] \in Nat \ {0}
    BY <1>4 DEF Places
  <2>2. Away(p)' = Away(p)
    BY <2>1 DEF Away, Slot, HandleRead
  <2>3. Due(p)' = Due(p)
    BY <2>1, <2>2 DEF Due, HandleRead
  <2>4. NotLate(p) /\ NotSoon(p) /\ added'[At(p)] = added[At(p)]
    BY <2>1 DEF InTime, HandleRead
  <2>5. /\ pos = 0 /\ pos' > 0 /\ unread > 0 /\ unread' = 0
        /\ lost' + 1 = lost + unread
    <3> PICK l : l = lost'
      OBVIOUS
    <3>1. l = lost + unread - 1 /\ lost \in Nat /\ unread \in Nat /\ unread > 0
      BY Counters DEF HandleRead
    <3>2. l + 1 = lost + unread
      BY ONLY <3>1
    <3> QED BY <3>2 DEF HandleRead
  <2> QED BY <1>1, <2>1, <2>3, <2>4, <2>5, StaysInTime
<1> QED BY <1>1, <1>2, <1>3, <1>5, <1>6 DEF InTime

LEMMA TickEndStep ==
  ASSUME WheelInv, TickEnd
  PROVE  WheelInv'
<1> USE DEF WheelInv
<1>1. TypeOK'
  BY DEF TickEnd, TypeOK
<1>2. Slot \in 0 .. Wheel - 1 /\ bucket[Slot] \in Seq(Timeouts)
  BY SlotRange DEF TypeOK
<1>3. pos > 0
  BY <1>2, Counters DEF TickEnd
<1>4. Counted'
  BY <1>3, Counters DEF TickEnd, Counted, Behind
<1>5. Fresh' /\ Runs'
  BY DEF TickEnd, Fresh, Runs
<1>6. Places' = Places /\ \A p \in Places : At(p)' = At(p)
  BY SamePlaces DEF TickEnd
<1>7. OnePlace' /\ Listed' /\ OnlyAdded'
  BY <1>6, PlaceTypes DEF OnePlace, Listed, OnlyAdded, TickEnd
<1>8. Slot' = IF Slot + 1 < Wheel THEN Slot + 1 ELSE Slot + 1 - Wheel
  <2>1. CASE Wheel = 1
    <3>1. ticked + 1 \in Nat /\ Slot = 0
      BY <1>2, <2>1, Counters
    <3>2. (ticked + 1) % Wheel \in 0 .. Wheel - 1
      BY <3>1, WheelPositive, DivMod
    <3> QED BY <2>1, <3>1, <3>2 DEF Slot, TickEnd
  <2>2. CASE Wheel # 1
    <3> DEFINE one == 1
    <3>1. one \in 0 .. Wheel - 1
      BY <2>2, WheelPositive
    <3> HIDE DEF one
    <3>2. (ticked + one) % Wheel = IF (ticked % Wheel) + one < Wheel
            THEN (ticked % Wheel) + one ELSE (ticked % Wheel) + one - Wheel
      BY <3>1, WheelPositive, Counters, SumMod
    <3> QED BY <3>2 DEF one, Slot, TickEnd
  <2> QED BY <2>1, <2>2
<1>9. ASSUME NEW p \in Places' PROVE NotLate(p)' /\ NotSoon(p)'
  <2>1. p \in Places /\ At(p)' = At(p) /\ p[2] \in Nat \ {0} /\ p[1] \in 0 .. Wheel - 1
    BY <1>6 DEF Places
  <2>2. p[1] = Slot => p[2] < pos
    BY <1>2, <2>1, Counters DEF Places, TickEnd
  <2>3. Away(p)' = Away(p) - 1
    <3> DEFINE s == Slot
               r == IF s + 1 < Wheel THEN s + 1 ELSE s + 1 - Wheel
    <3>1. s \in 0 .. Wheel - 1 /\ Wheel \in Nat /\ Slot' = r
      BY <1>2, <1>8, WheelPositive
    <3>2. /\ Away(p) = IF p[1] > s THEN p[1] - s
                       ELSE IF p[1] < s THEN p[1] + Wheel - s
                       ELSE IF p[2] < pos THEN Wheel ELSE 0
          /\ Away(p)' = IF p[1] > Slot' THEN p[1] - Slot'
                        ELSE IF p[1] < Slot' THEN p[1] + Wheel - Slot'
                        ELSE IF p[2] < pos' THEN Wheel ELSE 0
      BY DEF Away
    <3>3. (p[1] = s => p[2] < pos) /\ ~(p[2] < pos')
      BY <2>1, <2>2 DEF TickEnd
    <3> HIDE DEF s
    <3> QED BY ONLY <2>1, <3>1, <3>2, <3>3
  <2>4. Due(p)' = Due(p)
    <3>1. Away(p) \in Nat /\ Wheel * rounds[At(p)] \in Nat
      BY <2>1, PlaceTypes
    <3> DEFINE w == Wheel * rounds[At(p)]
    <3>2. /\ Due(p) = ticked + Away(p) + w
          /\ Due(p)' = (ticked + 1) + Away(p)' + w'
      BY DEF Due, TickEnd
    <3>3. w' = w
      BY <2>1 DEF TickEnd
    <3> HIDE DEF w
    <3> QED BY <2>3, <3>1, <3>2, <3>3, Counters
  <2>5. NotLate(p) /\ NotSoon(p) /\ added'[At(p)] = added[At(p)]
    BY <2>1 DEF InTime, TickEnd
  <2>6. pos > 0 /\ pos' = 0 /\ lost' = lost /\ unread' = unread
    BY <1>3 DEF TickEnd
  <2> QED BY <1>1, <2>1, <2>4, <2>5, <2>6, StaysInTime
<1> QED BY <1>1, <1>4, <1>5, <1>7, <1>9 DEF InTime

\* The walk is at the timeout whose turn it is.
LEMMA CurrentPlace ==
  ASSUME WheelInv, pos > 0, pos <= Len(bucket[Slot])
  PROVE  /\ <<Slot, pos>> \in Places /\ At(<<Slot, pos>>) = Current
         /\ Current \in Timeouts /\ st[Current] # "new"
         /\ Away(<<Slot, pos>>) = 0
         /\ Slot \in 0 .. Wheel - 1 /\ pos \in 1 .. Len(bucket[Slot])
         /\ bucket[Slot] \in Seq(Timeouts)
<1> USE DEF WheelInv
<1>1. Slot \in 0 .. Wheel - 1 /\ pos \in Nat \ {0}
  BY SlotRange, Counters
<1> DEFINE p == <<Slot, pos>>
<1>2. p \in Places /\ At(p) = Current
  BY <1>1 DEF Places, At, Current
<1>3. Away(p) = 0
  BY <1>1 DEF Away
<1>4. bucket[Slot] \in Seq(Timeouts)
  BY <1>1 DEF TypeOK
<1> HIDE DEF p
<1>5. At(p) \in Timeouts /\ st[At(p)] # "new"
  BY <1>2, PlaceTypes DEF OnlyAdded
<1> QED BY <1>1, <1>2, <1>3, <1>4, <1>5 DEF p

LEMMA ExpireStep ==
  ASSUME WheelInv, Expire
  PROVE  WheelInv'
<1> USE DEF WheelInv
<1>1. /\ Current \in Timeouts /\ st[Current] = "init" /\ ran[Current] = 0
      /\ pos > 0 /\ pos <= Len(bucket[Slot])
  BY CurrentPlace DEF Expire, Walking, Fresh
<1>2. TypeOK'
  BY <1>1 DEF Expire, TypeOK
<1>3. Counted' /\ unread' >= unread
  BY Counters DEF Expire, Counted, Behind
<1>4. \A t \in Timeouts :
        /\ st'[t] = IF t = Current THEN "expired" ELSE st[t]
        /\ t # Current => ran'[t] = ran[t]
  BY DEF Expire, TypeOK
<1>5. Fresh'
  BY <1>4 DEF Fresh
<1>6. Runs'
  BY <1>1, <1>4 DEF Runs, Current, Slot, Expire
<1> QED BY <1>2, <1>3, <1>4, <1>5, <1>6, StillStep DEF Expire

\* The invariant after some timeouts were cancelled.
LEMMA CancelStep ==
  ASSUME WheelInv,
         UNCHANGED <<clock, unread, lost, attached, ticked, bucket, pos, running,
                     rounds, added, ran>>,
         st' \in [Timeouts -> {"new", "init", "cancelled", "expired"}],
         \A t \in Timeouts :
           \/ st'[t] = st[t]
           \/ st[t] # "new" /\ st'[t] = "cancelled" /\ t # running
  PROVE  WheelInv'
<1> USE DEF WheelInv
<1>1. TypeOK'
  BY DEF TypeOK
<1>2. Counted' /\ unread' >= unread
  BY Counters DEF Counted, Behind
<1>3. Fresh'
  BY DEF Fresh
<1>4. Runs'
  <2> SUFFICES ASSUME running' # None PROVE Runs'
    BY DEF Runs
  <2>1. /\ running # None /\ pos > 0 /\ pos <= Len(bucket[Slot])
        /\ Current = running /\ st[running] = "expired"
    BY DEF Runs
  <2>2. running \in Timeouts
    BY <2>1, CurrentPlace
  <2>3. st'[running] = st[running]
    BY <2>2
  <2> QED BY <2>1, <2>3 DEF Runs, Current, Slot
<1> QED BY <1>1, <1>2, <1>3, <1>4, StillStep

LEMMA PassStep ==
  ASSUME WheelInv, Pass
  PROVE  WheelInv'
<1> USE DEF WheelInv
<1> DEFINE c == <<Slot, pos>>
<1>1. /\ c \in Places /\ At(c) = Current /\ Current \in Timeouts
      /\ Away(c) = 0
      /\ Slot \in 0 .. Wheel - 1 /\ pos \in 1 .. Len(bucket[Slot])
  BY CurrentPlace DEF Pass, Walking
<1>2. /\ pos' = pos + 1 /\ pos \in Nat \ {0} /\ rounds[Current] \in Nat \ {0}
      /\ rounds' = [rounds EXCEPT ![Current] = @ - 1]
  BY <1>1 DEF Pass, TypeOK
<1>3. TypeOK'
  <2>1. pos' \in Nat
    BY <1>2
  <2>2. rounds' \in [Timeouts -> Nat]
    <3>1. rounds[Current] - 1 \in Nat /\ rounds \in [Timeouts -> Nat]
      BY <1>2 DEF TypeOK
    <3> QED BY <1>2, <3>1
  <2> QED BY <2>1, <2>2 DEF Pass, TypeOK
<1>4. Counted'
  BY <1>2 DEF Counted, Behind, Pass
<1>5. Fresh' /\ Runs'
  BY DEF Pass, Walking, Fresh, Runs
<1>6. Places' = Places /\ \A p \in Places : At(p)' = At(p)
  BY SamePlaces DEF Pass
<1>7. OnePlace' /\ Listed' /\ OnlyAdded'
  BY <1>6, PlaceTypes DEF OnePlace, Listed, OnlyAdded, Pass
<1>8. ASSUME NEW p \in Places' PROVE NotLate(p)' /\ NotSoon(p)'
  <2>1. p \in Places /\ At(p)' = At(p) /\ At(p) \in Timeouts
    BY <1>6, PlaceTypes
  <2>2. /\ p = <<p[1], p[2]>> /\ p[2] \in Nat \ {0} /\ p[1] \in 0 .. Wheel - 1
    BY <2>1 DEF Places
  <2>3. Slot' = Slot /\ ticked' = ticked /\ ticked \in Nat
    BY Counters DEF Slot, Pass
  <2>4. Due(p)' = Due(p)
    <3>1. CASE p = c
      <4>1. Away(p)' = Wheel
        BY <1>1, <1>2, <2>3, <3>1 DEF Away
      <4>2. rounds'[At(p)] = rounds[Current] - 1 /\ At(p) = Current
        BY <1>1, <1>2, <3>1 DEF TypeOK
      <4>3. Wheel + Wheel * (rounds[Current] - 1) = Wheel * rounds[Current]
        BY <1>2, WheelPositive
      <4>4. Due(p)' = ticked + Wheel + Wheel * (rounds[Current] - 1)
        BY <2>1, <2>3, <4>1, <4>2 DEF Due
      <4>5. Due(p) = ticked + 0 + Wheel * rounds[Current]
        BY <1>1, <3>1 DEF Due
      <4>6. /\ Wheel \in Nat /\ Wheel * rounds[Current] \in Nat
            /\ Wheel * (rounds[Current] - 1) \in Nat
        BY <1>2, WheelPositive
      <4> QED BY ONLY <2>3, <4>3, <4>4, <4>5, <4>6
    <3>2. CASE p # c
      <4>1. At(p) # Current
        BY <1>1, <2>1, <3>2 DEF OnePlace
      <4>2. rounds'[At(p)] = rounds[At(p)]
        BY <1>2, <2>1, <4>1 DEF TypeOK
      <4>3. p[1] = Slot => p[2] # pos
        BY <2>2, <3>2
      <4>4. Away(p)' = Away(p)
        <5>1. p[1] = Slot => (p[2] < pos' <=> p[2] < pos)
          BY <1>2, <2>2, <4>3
        <5>2. p[1] \in Nat /\ Slot \in Nat
          BY <1>1, <2>2
        <5>3. ~(p[1] > Slot) /\ ~(p[1] < Slot) => p[1] = Slot
          BY <5>2
        <5> QED BY <2>3, <5>1, <5>3 DEF Away
      <4> QED BY <2>1, <2>3, <4>2, <4>4 DEF Due
    <3> QED BY <3>1, <3>2
  <2>5. NotLate(p) /\ NotSoon(p) /\ added'[At(p)] = added[At(p)]
    BY <2>1 DEF InTime, Pass
  <2>6. lost' = lost /\ unread' >= unread /\ (pos' > 0 <=> pos > 0)
    BY <1>2, Counters DEF Pass, Behind
  <2> QED BY <1>3, <2>1, <2>4, <2>5, <2>6, StaysInTime
<1> QED BY <1>3, <1>4, <1>5, <1>7, <1>8 DEF InTime

\* The invariant after the walk took a timeout out of the list.
LEMMA RemoveStep ==
  ASSUME WheelInv, pos > 0, pos <= Len(bucket[Slot]), st[Current] # "init",
         bucket' = [bucket EXCEPT ![Slot] = RemoveAt(@, pos)], running' = None,
         UNCHANGED <<clock, unread, lost, attached, ticked, pos, rounds, st, added, ran>>
  PROVE  WheelInv'
<1> USE DEF WheelInv
<1> DEFINE c == <<Slot, pos>>
           Old(q) == IF q[1] = Slot /\ q[2] >= pos THEN <<q[1], q[2] + 1>> ELSE q
           New(p) == IF p[1] = Slot /\ p[2] > pos THEN <<p[1], p[2] - 1>> ELSE p
           l == bucket[Slot]
           m == RemoveAt(l, pos)
<1>1. /\ c \in Places /\ At(c) = Current /\ Current \in Timeouts
      /\ Slot \in 0 .. Wheel - 1 /\ pos \in 1 .. Len(l) /\ l \in Seq(Timeouts)
  BY CurrentPlace
<1>2. /\ m \in Seq(Timeouts) /\ Len(m) = Len(l) - 1
      /\ \A i \in 1 .. Len(l) - 1 : m[i] = IF i < pos THEN l[i] ELSE l[i + 1]
  <2> HIDE DEF m, l
  <2> QED BY <1>1, RemoveAtElements DEF m
<1>3. /\ bucket \in [0 .. Wheel - 1 -> Seq(Timeouts)]
      /\ bucket' = [bucket EXCEPT ![Slot] = m]
  BY DEF TypeOK
<1>4. \A b \in 0 .. Wheel - 1 : bucket'[b] = IF b = Slot THEN m ELSE bucket[b]
  BY <1>3
<1>5. TypeOK'
  <2>1. bucket' \in [0 .. Wheel - 1 -> Seq(Timeouts)]
    BY <1>1, <1>2, <1>3
  <2> QED BY <2>1 DEF TypeOK
<1>6. Counted'
  BY DEF Counted, Behind
<1>7. Fresh' /\ Runs'
  BY DEF Fresh, Runs
<1> HIDE DEF m
<1>8. ASSUME NEW q \in Places'
      PROVE  /\ Old(q) \in Places /\ At(q)' = At(Old(q)) /\ Away(q)' = Away(Old(q))
             /\ New(Old(q)) = q
  <2>1. /\ q = <<q[1], q[2]>> /\ q[2] \in Nat \ {0} /\ q[1] \in 0 .. Wheel - 1
        /\ q[2] <= Len(bucket'[q[1]])
    BY DEF Places
  <2>2. Slot' = Slot /\ pos' = pos /\ pos \in Nat \ {0}
    BY <1>1 DEF Slot
  <2>3. CASE q[1] # Slot
    <3>1. Old(q) = q /\ New(q) = q /\ bucket'[q[1]] = bucket[q[1]]
      BY <1>4, <2>1, <2>3
    <3>2. q \in Places /\ At(q)' = At(q)
      BY <2>1, <3>1 DEF Places, At
    <3>3. Away(q)' = Away(q)
      BY <2>1, <2>2 DEF Away
    <3> QED BY <3>1, <3>2, <3>3
  <2>4. CASE q[1] = Slot /\ q[2] < pos
    <3>1. Old(q) = q /\ New(q) = q /\ bucket'[q[1]] = m
      BY <1>1, <1>4, <2>1, <2>4
    <3>2. q[2] \in 1 .. Len(l) - 1
      BY <1>1, <1>2, <2>1, <3>1
    <3>3. q \in Places /\ At(q)' = At(q)
      BY <1>2, <2>1, <2>4, <3>1, <3>2 DEF Places, At
    <3>4. Away(q)' = Away(q)
      BY <2>1, <2>2 DEF Away
    <3> QED BY <3>1, <3>3, <3>4
  <2>5. CASE q[1] = Slot /\ ~(q[2] < pos)
    <3> DEFINE o == <<Slot, q[2] + 1>>
    <3>1. Old(q) = o /\ bucket'[q[1]] = m /\ o[1] = Slot /\ o[2] = q[2] + 1
      BY <1>1, <1>4, <2>1, <2>5
    <3>2. q[2] \in 1 .. Len(l) - 1
      BY <1>1, <1>2, <2>1, <3>1
    <3>3. New(o) = q
      BY <1>1, <2>1, <2>5
    <3>4. At(q)' = m[q[2]]
      BY <3>1 DEF At
    <3>5. m[q[2]] = l[q[2] + 1]
      BY <1>2, <2>5, <3>2
    <3>6. o \in Places
      BY <1>1, <3>2 DEF Places
    <3>7. Away(q)' = 0 /\ Away(o) = 0
      BY <1>1, <2>1, <2>2, <2>5, <3>1 DEF Away
    <3> HIDE DEF o
    <3>8. At(o) = l[q[2] + 1]
      BY <3>1 DEF At
    <3> QED BY <3>1, <3>3, <3>4, <3>5, <3>6, <3>7, <3>8
  <2> QED BY <2>3, <2>4, <2>5
<1> HIDE DEF l
<1>9. ASSUME NEW p \in Places, p # c
      PROVE  \E q \in Places' : At(q)' = At(p)
  <2>1. /\ p = <<p[1], p[2]>> /\ p[2] \in Nat \ {0} /\ p[1] \in 0 .. Wheel - 1
        /\ p[2] <= Len(bucket[p[1]])
    BY DEF Places
  <2>2. CASE p[1] # Slot
    <3>1. bucket'[p[1]] = bucket[p[1]]
      BY <1>4, <2>1, <2>2
    <3>2. p \in Places' /\ At(p)' = At(p)
      BY <2>1, <3>1 DEF Places, At
    <3> QED BY <3>2
  <2>3. CASE p[1] = Slot /\ p[2] < pos
    <3>1. bucket'[p[1]] = m /\ p[2] \in 1 .. Len(l) - 1 /\ Len(m) = Len(l) - 1
      BY <1>1, <1>2, <1>4, <2>1, <2>3 DEF l
    <3>2. m[p[2]] = l[p[2]]
      BY <1>2, <2>3, <3>1
    <3>3. p \in Places'
      BY <2>1, <3>1 DEF Places
    <3>4. At(p)' = m[p[2]] /\ At(p) = l[p[2]]
      BY <2>3, <3>1 DEF At, l
    <3> QED BY <3>2, <3>3, <3>4
  <2>4. CASE p[1] = Slot /\ p[2] > pos
    <3> PICK o : o = <<Slot, p[2] - 1>>
      OBVIOUS
    <3>1. /\ bucket'[Slot] = m /\ p[2] - 1 \in 1 .. Len(l) - 1
          /\ o[1] = Slot /\ o[2] = p[2] - 1 /\ Len(m) = Len(l) - 1
      BY <1>1, <1>2, <1>4, <2>1, <2>4 DEF l
    <3>2. m[p[2] - 1] = l[p[2]]
      <4> PICK i : i = p[2] - 1
        OBVIOUS
      <4>1. i \in 1 .. Len(l) - 1 /\ ~(i < pos) /\ i + 1 = p[2]
        BY <1>1, <2>1, <2>4, <3>1
      <4>2. m[i] = l[i + 1]
        BY ONLY <1>2, <4>1
      <4> QED BY <4>1, <4>2
    <3>3. o \in Places'
      BY <1>1, <3>1 DEF Places
    <3>4. At(o)' = m[p[2] - 1]
      BY <3>1 DEF At
    <3>5. At(p) = l[p[2]]
      BY <2>4 DEF At, l
    <3> QED BY <3>2, <3>3, <3>4, <3>5
  <2>5. p[1] # Slot \/ (p[1] = Slot /\ p[2] < pos) \/ (p[1] = Slot /\ p[2] > pos)
    <3>1. p[1] # Slot \/ p[2] # pos
      BY <1>9, <2>1
    <3> QED BY <1>1, <2>1, <3>1
  <2> QED BY <2>2, <2>3, <2>4, <2>5
<1> HIDE DEF Old, New, c
<1>10. OnePlace'
  <2> SUFFICES ASSUME NEW p \in Places', NEW q \in Places', At(p)' = At(q)' PROVE p = q
    BY DEF OnePlace
  <2>1. Old(p) = Old(q)
    BY <1>8 DEF OnePlace
  <2> QED BY <1>8, <2>1
<1>11. Listed'
  <2> SUFFICES ASSUME NEW t \in Timeouts, st[t] = "init" PROVE \E p \in Places' : At(p)' = t
    BY DEF Listed
  <2>1. PICK p \in Places : At(p) = t
    BY DEF Listed
  <2>2. p # c
    BY <1>1, <2>1
  <2> QED BY <1>9, <2>1, <2>2
<1>12. OnlyAdded'
  BY <1>8 DEF OnlyAdded
<1>13. ASSUME NEW q \in Places' PROVE NotLate(q)' /\ NotSoon(q)'
  <2> DEFINE p == Old(q)
  <2>1. p \in Places /\ At(q)' = At(p) /\ Away(q)' = Away(p)
    BY <1>8
  <2> HIDE DEF p
  <2>2. Due(q)' = Due(p)
    BY <2>1 DEF Due
  <2>3. NotLate(p) /\ NotSoon(p) /\ added'[At(p)] = added[At(p)]
    BY <2>1 DEF InTime
  <2>4. lost' = lost /\ unread' >= unread /\ (pos' > 0 <=> pos > 0)
    BY Counters DEF Behind
  <2> QED BY <1>5, <2>1, <2>2, <2>3, <2>4, StaysInTime
<1> QED BY <1>5, <1>6, <1>7, <1>10, <1>11, <1>12, <1>13 DEF InTime

LEMMA TicksType ==
  ASSUME NEW ms \in Nat
  PROVE  Ticks(ms) \in Nat
<1> DEFINE n == ms + MsPerTick - 1
<1>1. n \in Nat /\ MsPerTick \in Nat \ {0}
  BY TimerAssumption
<1> HIDE DEF n
<1>2. n \div MsPerTick \in Nat
  BY <1>1, DivMod
<1> QED BY <1>2 DEF Ticks, n

\* The invariant after addTimeout, which may cancel others.
LEMMA InsertStep ==
  ASSUME WheelInv, Calling, NEW t \in Timeouts, NEW ms \in Nat, Inserted(t, ms),
         UNCHANGED <<clock, unread, lost, attached, ticked, pos, running, ran>>,
         st' \in [Timeouts -> {"new", "init", "cancelled", "expired"}],
         st'[t] = "init",
         \A u \in Timeouts \ {t} :
           \/ st'[u] = st[u]
           \/ st[u] = "init" /\ st'[u] = "cancelled"
  PROVE  WheelInv'
<1> USE DEF WheelInv
<1> DEFINE k == Ticks(ms)
           r == k % Wheel
           d == k \div Wheel
<1> PICK b : b = Index(k)
  OBVIOUS
<1> PICK n : n = Len(bucket[b]) + 1
  OBVIOUS
<1> PICK w : w = <<b, n>>
  OBVIOUS
<1> PICK entry : entry = [clock |-> clock, lost |-> lost, ticks |-> k,
                          behind |-> pos > 0 /\ unread > 0]
  OBVIOUS
<1>1. k \in Nat
  BY TicksType
<1>2. /\ st[t] = "new"
      /\ bucket' = [bucket EXCEPT ![b] = Append(@, t)]
      /\ rounds' = [rounds EXCEPT ![t] = d]
      /\ added' = [added EXCEPT ![t] = entry]
  BY DEF Inserted, NewTimeout
<1> HIDE DEF k
<1>3. Slot \in 0 .. Wheel - 1 /\ Wheel \in Nat \ {0}
  BY SlotRange, WheelPositive DEF TypeOK
<1>4. r \in 0 .. Wheel - 1 /\ d \in Nat /\ k = Wheel * d + r
  BY <1>1, <1>3, DivMod
<1>5. b = IF r + Slot < Wheel THEN r + Slot ELSE r + Slot - Wheel
  BY <1>1, <1>3, SumMod DEF Index
<1> HIDE DEF r, d
<1>6. b \in 0 .. Wheel - 1
  BY <1>3, <1>4, <1>5
<1>7. /\ bucket[b] \in Seq(Timeouts) /\ n \in Nat \ {0}
      /\ bucket \in [0 .. Wheel - 1 -> Seq(Timeouts)]
  BY <1>6 DEF TypeOK
<1>8. /\ Append(bucket[b], t) \in Seq(Timeouts)
      /\ Len(Append(bucket[b], t)) = n
      /\ Append(bucket[b], t)[n] = t
      /\ \A i \in 1 .. n - 1 : Append(bucket[b], t)[i] = bucket[b][i]
  BY <1>7
<1>9. \A a \in 0 .. Wheel - 1 :
        bucket'[a] = IF a = b THEN Append(bucket[b], t) ELSE bucket[a]
  BY <1>2, <1>7
<1>10. TypeOK'
  <2>1. bucket' \in [0 .. Wheel - 1 -> Seq(Timeouts)]
    BY <1>2, <1>6, <1>7, <1>8
  <2>2. rounds' \in [Timeouts -> Nat]
    BY <1>2, <1>4 DEF TypeOK
  <2>3. entry \in [clock : Nat, lost : Nat, ticks : Nat, behind : BOOLEAN]
    BY <1>1, Counters
  <2>4. added' \in [Timeouts -> [clock : Nat, lost : Nat, ticks : Nat, behind : BOOLEAN]]
    BY <1>2, <2>3 DEF TypeOK
  <2> QED BY <2>1, <2>2, <2>4 DEF TypeOK
<1>11. /\ rounds'[t] = d /\ added'[t] = entry
       /\ \A u \in Timeouts \ {t} : rounds'[u] = rounds[u] /\ added'[u] = added[u]
  BY <1>2 DEF TypeOK
<1>12. Counted'
  BY DEF Counted, Behind
<1>13. Fresh'
  BY <1>2 DEF Fresh
<1>14. ASSUME NEW p \in Places
       PROVE  p \in Places' /\ At(p)' = At(p) /\ At(p) \in Timeouts \ {t} /\ p # w
  <2>1. /\ p = <<p[1], p[2]>> /\ p[2] \in Nat \ {0} /\ p[1] \in 0 .. Wheel - 1
        /\ p[2] <= Len(bucket[p[1]])
    BY DEF Places
  <2>2. At(p) \in Timeouts \ {t}
    BY <1>2, PlaceTypes DEF OnlyAdded
  <2>3. CASE p[1] = b
    <3>1. p[2] \in 1 .. n - 1
      BY <1>7, <2>1, <2>3
    <3>2. /\ bucket'[p[1]] = Append(bucket[b], t) /\ p[2] <= Len(Append(bucket[b], t))
          /\ Append(bucket[b], t)[p[2]] = bucket[b][p[2]] /\ p[2] # n
      <4>1. bucket'[p[1]] = Append(bucket[b], t)
        BY <1>9, <2>1, <2>3
      <4>2. p[2] <= n /\ p[2] # n
        BY <1>7, <3>1
      <4>3. Append(bucket[b], t)[p[2]] = bucket[b][p[2]]
        BY <1>8, <3>1
      <4> QED BY <1>8, <4>1, <4>2, <4>3
    <3>3. p \in Places'
      BY <2>1, <3>2 DEF Places
    <3>4. At(p)' = At(p)
      BY <2>3, <3>2 DEF At
    <3> QED BY <2>2, <3>2, <3>3, <3>4
  <2>4. CASE p[1] # b
    BY <1>9, <2>1, <2>2, <2>4 DEF Places, At
  <2> QED BY <2>3, <2>4
<1>15. w \in Places' /\ At(w)' = t
  <2>1. bucket'[b] = Append(bucket[b], t) /\ w[1] = b /\ w[2] = n
    BY <1>6, <1>9
  <2>2. w \in Places'
    BY <1>6, <1>7, <1>8, <2>1 DEF Places
  <2> QED BY <1>8, <2>1, <2>2 DEF At
<1>16. ASSUME NEW p \in Places', p # w
       PROVE  p \in Places
  <2>1. /\ p = <<p[1], p[2]>> /\ p[2] \in Nat \ {0} /\ p[1] \in 0 .. Wheel - 1
        /\ p[2] <= Len(bucket'[p[1]])
    BY DEF Places
  <2>2. CASE p[1] = b
    <3>1. p[2] # n
      BY <1>16, <2>1, <2>2
    <3>2. p[2] <= n
      <4>1. bucket'[p[1]] = Append(bucket[b], t)
        BY <1>9, <2>1, <2>2, Zenon
      <4> HIDE DEF WheelInv
      <4> QED BY ONLY <1>8, <2>1, <4>1
    <3>3. Len(bucket[b]) \in Nat
      BY <1>7
    <3>4. p[2] <= Len(bucket[b])
      BY <2>1, <3>1, <3>2, <3>3
    <3>5. p[2] \in 1 .. Len(bucket[p[1]])
      BY ONLY <2>1, <2>2, <3>3, <3>4
    <3> QED BY ONLY <2>1, <3>5 DEF Places
  <2>3. CASE p[1] # b
    BY <1>9, <2>1, <2>3 DEF Places
  <2> QED BY <2>2, <2>3
<1>17. OnePlace'
  <2> SUFFICES ASSUME NEW p \in Places', NEW q \in Places', At(p)' = At(q)' PROVE p = q
    BY DEF OnePlace
  <2> QED BY <1>14, <1>15, <1>16 DEF OnePlace
<1>18. Listed'
  <2> SUFFICES ASSUME NEW u \in Timeouts, st'[u] = "init" PROVE \E p \in Places' : At(p)' = u
    BY DEF Listed
  <2>1. CASE u = t
    BY <1>15, <2>1
  <2>2. CASE u # t
    <3>1. PICK p \in Places : At(p) = u
      BY <2>2 DEF Listed
    <3> QED BY <1>14, <3>1
  <2> QED BY <2>1, <2>2
<1>19. OnlyAdded'
  <2> SUFFICES ASSUME NEW p \in Places' PROVE st'[At(p)'] # "new"
    BY DEF OnlyAdded
  <2>1. CASE p = w
    BY <1>15, <2>1
  <2>2. CASE p # w
    <3>1. p \in Places
      BY <1>16, <2>2
    <3> QED BY <1>14, <3>1 DEF OnlyAdded
  <2> QED BY <2>1, <2>2
<1>20. Slot' = Slot /\ pos' = pos /\ pos \in Nat /\ ticked' = ticked /\ ticked \in Nat
  BY Counters DEF Slot
<1>21. running # None => /\ <<Slot, pos>> \in Places /\ At(<<Slot, pos>>) = running
                         /\ running \in Timeouts /\ pos > 0 /\ st[running] = "expired"
  BY CurrentPlace DEF Runs
<1>22. Runs'
  <2> SUFFICES ASSUME running # None
               PROVE  /\ pos > 0 /\ pos <= Len(bucket'[Slot])
                      /\ bucket'[Slot][pos] = running /\ st'[running] = "expired"
    BY <1>20 DEF Runs, Current
  <2> PICK c : c = <<Slot, pos>>
    OBVIOUS
  <2>1. c \in Places /\ At(c) = running /\ c[1] = Slot /\ c[2] = pos
    BY <1>21
  <2>2. c \in Places' /\ At(c)' = running
    BY <1>14, <2>1
  <2>3. pos <= Len(bucket'[Slot]) /\ bucket'[Slot][pos] = running
    BY <2>1, <2>2 DEF Places, At
  <2>4. running # t
    BY <1>2, <1>21
  <2> QED BY <1>21, <2>3, <2>4
<1>23. (pos > 0 /\ b = Slot) => n > pos
  <2> SUFFICES ASSUME pos > 0, b = Slot PROVE n > pos
    OBVIOUS
  <2>1. pos <= Len(bucket[Slot])
    BY DEF Calling, Runs
  <2> QED BY <1>7, <1>20, <2>1
<1>24. Away(w)' = r
  <2>1. b = Slot => r = 0
    BY <1>3, <1>4, <1>5
  <2>2. ~(n < pos) \/ b # Slot
    BY <1>7, <1>20, <1>23
  <2>0. r \in 0 .. Wheel - 1
    BY <1>4
  <2>3. b > Slot => r = b - Slot
    BY ONLY <1>3, <1>5, <2>0
  <2>4. b < Slot => r = b + Wheel - Slot
    BY ONLY <1>3, <1>5, <2>0
  <2>5. w[1] = b /\ w[2] = n
    OBVIOUS
  <2> QED BY <1>3, <1>6, <1>20, <2>1, <2>2, <2>3, <2>4, <2>5 DEF Away
<1>25. Due(w)' = ticked + k
  BY <1>3, <1>4, <1>11, <1>15, <1>20, <1>24 DEF Due
<1>26. NotLate(w)' /\ NotSoon(w)'
  <2>1. /\ clock \in Nat /\ unread \in Nat /\ lost \in Nat /\ ticked \in Nat /\ pos \in Nat
        /\ clock' = clock /\ lost' = lost /\ unread' = unread /\ ticked' = ticked /\ pos' = pos
    BY Counters
  <2>2. clock = ticked + Behind /\ Behind = lost + unread + (IF pos > 0 THEN 1 ELSE 0)
    BY DEF Counted, Behind
  <2>3. /\ entry.clock = clock /\ entry.lost = lost /\ entry.ticks = k
        /\ (entry.behind <=> pos > 0 /\ unread > 0)
    OBVIOUS
  <2>4. added'[At(w)'] = entry
    BY <1>11, <1>15
  <2>5. Asked(At(w))' = clock + k /\ added'[At(w)'].lost = lost
    BY <2>3, <2>4 DEF Asked
  <2>6. /\ added'[At(w)'].behind <=> pos > 0 /\ unread > 0
        /\ Extra(At(w))' = IF pos > 0 /\ unread > 0 THEN 1 ELSE 0
    BY <2>3, <2>4 DEF Extra
  <2>7. Behind' = Behind
    BY <2>1 DEF Behind
  <2> PICK a : a = Asked(At(w))'
    OBVIOUS
  <2> PICK y : y = Due(w)'
    OBVIOUS
  <2> PICK x : x = Extra(At(w))'
    OBVIOUS
  <2>8. lost + y <= a
    BY ONLY <1>1, <1>25, <2>1, <2>2, <2>5, a = Asked(At(w))', y = Due(w)'
  <2>9. NotLate(w)'
    BY <2>1, <2>5, <2>8 DEF NotLate
  <2>10. a = clock + k /\ y = ticked + k /\ x = IF pos > 0 /\ unread > 0 THEN 1 ELSE 0
    BY <1>25, <2>5, <2>6
  <2>11. CASE pos = 0
    <3>1. Behind + x + y >= a
      BY ONLY <1>1, <2>1, <2>2, <2>10, <2>11
    <3> QED BY <2>1, <2>7, <2>9, <2>11, <3>1 DEF NotSoon
  <2>12. CASE pos > 0 /\ unread > 0
    <3>1. Behind + y >= a
      BY ONLY <1>1, <2>1, <2>2, <2>10, <2>12
    <3> QED BY <2>1, <2>6, <2>7, <2>9, <2>12, <3>1 DEF NotSoon
  <2>13. CASE pos > 0 /\ unread = 0
    <3>1. lost + 1 + x + y >= a
      BY ONLY <1>1, <2>1, <2>2, <2>10, <2>13
    <3> QED BY <2>1, <2>9, <3>1 DEF NotSoon
  <2> QED BY <2>1, <2>11, <2>12, <2>13
<1>27. ASSUME NEW p \in Places', p # w PROVE NotLate(p)' /\ NotSoon(p)'
  <2>1. p \in Places /\ At(p)' = At(p) /\ At(p) \in Timeouts \ {t}
    BY <1>14, <1>16, <1>27
  <2>2. Away(p)' = Away(p)
    BY <1>20 DEF Away
  <2>3. Due(p)' = Due(p)
    BY <1>11, <1>20, <2>1, <2>2 DEF Due
  <2>4. NotLate(p) /\ NotSoon(p) /\ added'[At(p)] = added[At(p)]
    BY <1>11, <2>1 DEF InTime
  <2>5. lost' = lost /\ unread' >= unread /\ (pos' > 0 <=> pos > 0)
    BY Counters DEF Behind
  <2> QED BY <1>10, <2>1, <2>3, <2>4, <2>5, StaysInTime
<1> QED BY <1>10, <1>12, <1>13, <1>17, <1>18, <1>19, <1>22, <1>26, <1>27 DEF InTime

LEMMA WheelStart ==
  ASSUME TimerInit
  PROVE  WheelInv
<1>1. \A b \in 0 .. Wheel - 1 : bucket[b] = <<>>
  BY DEF TimerInit
<1>2. TypeOK
  <2>1. clock \in 0 .. LastClock /\ 0 \in Nat
    BY TimerAssumption DEF TimerInit
  <2>2. bucket \in [0 .. Wheel - 1 -> Seq(Timeouts)]
    <3>1. <<>> \in Seq(Timeouts)
      OBVIOUS
    <3> HIDE DEF Wheel
    <3> QED BY <3>1 DEF TimerInit
  <2>3. /\ rounds \in [Timeouts -> Nat] /\ ran \in [Timeouts -> 0 .. 1]
        /\ st \in [Timeouts -> {"new", "init", "cancelled", "expired"}]
    BY DEF TimerInit
  <2>4. added \in [Timeouts -> [clock : Nat, lost : Nat, ticks : Nat, behind : BOOLEAN]]
    BY DEF TimerInit
  <2>5. /\ unread \in Nat /\ lost \in Nat /\ attached \in BOOLEAN /\ ticked \in Nat
        /\ pos \in Nat /\ running \in Timeouts \cup {None}
    BY DEF TimerInit
  <2> QED BY <2>1, <2>2, <2>3, <2>4, <2>5 DEF TypeOK
<1>3. Places = {}
  BY <1>1 DEF Places
<1>4. Listed /\ Fresh /\ Runs /\ Counted
  BY DEF TimerInit, Listed, Fresh, Runs, Counted, Behind
<1> QED BY <1>2, <1>3, <1>4 DEF WheelInv, OnePlace, OnlyAdded, InTime

LEMMA WheelStep ==
  ASSUME WheelInv, [Next]_timerVars
  PROVE  WheelInv'
<1>1. CASE Clock
  BY <1>1, ClockStep
<1>2. CASE Attach \/ Detach
  BY <1>2, AttachStep
<1>3. CASE HandleRead
  BY <1>3, HandleReadStep
<1>4. CASE Expire
  BY <1>4, ExpireStep
<1>5. CASE Return
  <2>1. pos > 0 /\ pos <= Len(bucket[Slot]) /\ st[Current] # "init"
    BY <1>5 DEF WheelInv, Runs, Return
  <2> QED BY <1>5, <2>1, RemoveStep DEF Return
<1>6. CASE Drop
  BY <1>6, RemoveStep DEF Drop, Walking
<1>7. CASE Pass
  BY <1>7, PassStep
<1>8. CASE TickEnd
  BY <1>8, TickEndStep
<1>9. CASE AddTimeout
  <2>1. PICK t \in Timeouts, ms \in Delays :
          Inserted(t, ms) /\ st' = [st EXCEPT ![t] = "init"]
    BY <1>9 DEF AddTimeout
  <2>2. ms \in Nat
    BY TimerAssumption
  <2>3. /\ st' \in [Timeouts -> {"new", "init", "cancelled", "expired"}]
        /\ st'[t] = "init" /\ \A u \in Timeouts \ {t} : st'[u] = st[u]
    BY <2>1 DEF WheelInv, TypeOK
  <2> QED BY <1>9, <2>1, <2>2, <2>3, InsertStep DEF AddTimeout
<1>10. CASE Cancel
  <2>1. PICK t \in Timeouts \ {running} :
          st[t] \notin {"new", "cancelled"} /\ st' = [st EXCEPT ![t] = "cancelled"]
    BY <1>10 DEF Cancel
  <2>2. /\ st' \in [Timeouts -> {"new", "init", "cancelled", "expired"}]
        /\ \A u \in Timeouts :
             \/ st'[u] = st[u]
             \/ st[u] # "new" /\ st'[u] = "cancelled" /\ u # running
    BY <2>1 DEF WheelInv, TypeOK
  <2> QED BY <1>10, <2>2, CancelStep DEF Cancel
<1>11. CASE UNCHANGED timerVars
  <2>1. TypeOK' /\ Counted' /\ Fresh' /\ Runs' /\ unread' >= unread
    BY <1>11, Counters DEF timerVars, WheelInv, TypeOK, Counted, Fresh, Runs, Current, Slot, Behind
  <2> QED BY <1>11, <2>1, StillStep DEF timerVars
<1> QED
  BY <1>1, <1>2, <1>3, <1>4, <1>5, <1>6, <1>7, <1>8, <1>9, <1>10, <1>11 DEF Next, Tick

------------------------------------------------------------------------------
(* The theorems about the wheel *)

\* The invariant of the wheel: each timeout is in one place, and where that is
\* says when its task runs.
THEOREM WheelInvariant == SafetySpec => []WheelInv
<1>1. TimerInit => WheelInv
  BY WheelStart
<1>2. WheelInv /\ [Next]_timerVars => WheelInv'
  BY WheelStep
<1> QED BY <1>1, <1>2, PTL DEF SafetySpec

LEMMA InvLate ==
  ASSUME WheelInv
  PROVE  LateByLost
<1> SUFFICES ASSUME NEW t \in Timeouts, st[t] = "init"
             PROVE  clock <= added[t].clock + added[t].ticks + 1 + unread
                               + (lost - added[t].lost)
  BY DEF LateByLost
<1>1. PICK p \in Places : At(p) = t
  BY DEF WheelInv, Listed
<1>2. added[t].lost + Due(p) <= Asked(t)
  BY <1>1 DEF WheelInv, InTime, NotLate
<1>3. Due(p) \in Nat /\ Due(p) >= ticked
  BY PlaceTypes DEF WheelInv
<1>4. added[t].lost \in Nat /\ Asked(t) \in Nat
  BY AddedTypes DEF WheelInv
<1>5. clock = ticked + lost + unread + (IF pos > 0 THEN 1 ELSE 0)
  BY Counters DEF WheelInv, Counted, Behind
<1>6. /\ clock \in Nat /\ unread \in Nat /\ lost \in Nat /\ ticked \in Nat
      /\ pos \in Nat
  BY Counters DEF WheelInv
<1> QED BY <1>2, <1>3, <1>4, <1>5, <1>6 DEF Asked

\* No timeout is passed by in the walk that is due for it.
THEOREM NoTimeoutOverlooked == SafetySpec => []LateByLost
<1>1. WheelInv => LateByLost
  BY InvLate
<1> QED BY <1>1, WheelInvariant, PTL

\* The only step that calls a task is Expire, for a timeout whose turn it is.
LEMMA RanBy ==
  ASSUME WheelInv, [Next]_timerVars, NEW t \in Timeouts, ran'[t] # ran[t]
  PROVE  Expire /\ t = Current
<1>1. Expire
  BY DEF Next, Tick, Clock, Attach, Detach, HandleRead, Return, Drop, Pass, TickEnd,
         AddTimeout, Cancel, timerVars
<1> QED BY <1>1 DEF Expire, WheelInv, TypeOK

\* A task is called once, of a timeout that nobody cancelled.
THEOREM TaskRunsOnce == SafetySpec => RunsOnceUncancelled
<1>1. WheelInv /\ [Next]_timerVars =>
        [\A t \in Timeouts : ran'[t] # ran[t] => st[t] = "init" /\ ran[t] = 0]_timerVars
  BY RanBy DEF Expire, WheelInv, Fresh
<1> QED BY <1>1, WheelInvariant, PTL DEF SafetySpec, RunsOnceUncancelled

LEMMA ExpireInTime ==
  ASSUME WheelInv, Expire
  PROVE  clock + Extra(Current) >= Asked(Current)
<1> DEFINE c == <<Slot, pos>>
<1>1. c \in Places /\ At(c) = Current /\ Current \in Timeouts /\ Away(c) = 0 /\ pos > 0
  BY CurrentPlace DEF Expire, Walking
<1> HIDE DEF c
<1>2. rounds[Current] = 0
  BY DEF Expire
<1>3. Due(c) = ticked
  BY <1>1, <1>2, WheelPositive, Counters DEF Due, WheelInv
<1>4. NotSoon(c)
  BY <1>1 DEF WheelInv, InTime
<1>5. /\ Asked(Current) \in Nat /\ Extra(Current) \in {0, 1}
  BY <1>1, AddedTypes DEF WheelInv
<1>6. clock = ticked + lost + unread + (IF pos > 0 THEN 1 ELSE 0)
  BY Counters DEF WheelInv, Counted, Behind
<1>7. /\ clock \in Nat /\ unread \in Nat /\ lost \in Nat /\ ticked \in Nat
      /\ pos \in Nat
  BY Counters DEF WheelInv
<1>8. \/ lost + 1 + Extra(Current) + ticked >= Asked(Current)
      \/ Behind + ticked >= Asked(Current)
  BY <1>1, <1>3, <1>4, <1>7 DEF NotSoon
<1> QED BY <1>1, <1>5, <1>6, <1>7, <1>8 DEF Behind

\* No task runs before its delay is over.
THEOREM TaskNotEarly == SafetySpec => NeverEarly
<1>1. WheelInv /\ [Next]_timerVars =>
        [\A t \in Timeouts : ran'[t] # ran[t] =>
           clock + (IF added[t].behind THEN 1 ELSE 0)
             >= added[t].clock + added[t].ticks]_timerVars
  BY RanBy, ExpireInTime DEF Extra, Asked
<1> QED BY <1>1, WheelInvariant, PTL DEF SafetySpec, NeverEarly

------------------------------------------------------------------------------
(* The invariant of the sessions *)

\* A session is in _cidMap under its own connection only.
OwnPeer ==
  \A p \in Peers : cidMap[p] # None =>
    login[cidMap[p]] # None /\ Peer(cidMap[p]) = p

\* The timeout of a live session was made for it, at its last heartbeat.
OwnTimeout ==
  \A s \in Live :
    LET t == timeout[s] IN
      /\ t \in Timeouts /\ owner[t] = s
      /\ added[t].clock = touched[s] /\ added[t].ticks = Ticks(IdleMs)
      /\ added[t].behind = FALSE

\* A session without a login never had a timeout.
Unused == \A s \in Sessions : login[s] = None => timeout[s] = None

SessionIInv ==
  /\ WheelInv /\ SessionTypeOK /\ touched \in [Sessions -> Nat]
  /\ ArmedWhileLive /\ OwnPeer /\ OwnTimeout /\ Unused

LEMMA LivePeer ==
  ASSUME SessionIInv, NEW s \in Live
  PROVE  s \in Sessions /\ Peer(s) \in Peers /\ cidMap[Peer(s)] = s /\ login[s] # None
  BY DEF SessionIInv, SessionTypeOK, OwnPeer, Live

LEMMA LiveTimeout ==
  ASSUME SessionIInv, NEW s \in Live
  PROVE  timeout[s] \in Timeouts /\ owner[timeout[s]] = s /\ st[timeout[s]] = "init"
  BY DEF SessionIInv, OwnTimeout, ArmedWhileLive

LEMMA SessionStart ==
  ASSUME Init
  PROVE  SessionIInv /\ FoundByUinOrCid
<1>1. WheelInv
  BY WheelStart DEF Init
<1>2. SessionTypeOK /\ touched \in [Sessions -> Nat]
  BY <1>1 DEF WheelInv, Init, SessionTypeOK
<1>3. Live = {}
  BY DEF Init, Live
<1>4. \A t \in Timeouts : st[t] = "new"
  BY DEF Init, TimerInit
<1> QED
  BY <1>1, <1>2, <1>3, <1>4
  DEF SessionIInv, ArmedWhileLive, OwnPeer, OwnTimeout, Unused, FoundByUinOrCid, Init

\* The timer alone changes nothing about the sessions.
LEMMA TimerKeeps ==
  ASSUME SessionIInv, TimerStep \/ UNCHANGED vars
  PROVE  SessionIInv' /\ (FoundByUinOrCid => FoundByUinOrCid')
<1>1. WheelInv'
  BY WheelStep DEF SessionIInv, TimerStep, Next, Tick, vars
<1>2. /\ UNCHANGED sessionVars
      /\ st' = st /\ added' = added
  BY DEF TimerStep, vars, timerVars, Clock, Attach, Detach, HandleRead, Return, Drop, Pass,
         TickEnd
<1>3. Live' = Live
  BY <1>2 DEF sessionVars, Live
<1>4. SessionTypeOK' /\ touched' \in [Sessions -> Nat]
  BY <1>1, <1>2 DEF WheelInv, SessionIInv, SessionTypeOK, sessionVars
<1>5. ArmedWhileLive'
  BY <1>2, <1>3 DEF SessionIInv, ArmedWhileLive, sessionVars
<1>6. OwnPeer' /\ Unused'
  BY <1>2 DEF SessionIInv, OwnPeer, Unused, Peer, sessionVars
<1>7. OwnTimeout'
  BY <1>2, <1>3 DEF SessionIInv, OwnTimeout, sessionVars
<1>8. FoundByUinOrCid => FoundByUinOrCid'
  BY <1>2, <1>3 DEF FoundByUinOrCid, sessionVars
<1> QED BY <1>1, <1>4, <1>5, <1>6, <1>7, <1>8 DEF SessionIInv

\* A session leaves the maps, and its timeout is no longer armed.
LEMMA RemoveKeeps ==
  ASSUME SessionIInv, NEW s \in Live, RemoveSession(s), WheelInv',
         st'[timeout[s]] # "init",
         \A t \in Timeouts \ {timeout[s]} : st'[t] = st[t],
         UNCHANGED <<added, login, timeout, owner, touched>>
  PROVE  SessionIInv' /\ Live' = Live \ {s}
<1> USE DEF SessionIInv
<1>1. /\ s \in Sessions /\ Peer(s) \in Peers /\ cidMap[Peer(s)] = s /\ login[s] # None
      /\ timeout[s] \in Timeouts /\ owner[timeout[s]] = s
  BY LivePeer, LiveTimeout
<1>2. /\ cidMap \in [Peers -> Sessions \cup {None}]
      /\ cidMap' = [cidMap EXCEPT ![Peer(s)] = None]
  BY DEF RemoveSession, SessionTypeOK
<1>3. \A p \in Peers : cidMap'[p] = IF p = Peer(s) THEN None ELSE cidMap[p]
  BY <1>2
<1>4. Live' = Live \ {s}
  <2>1. ASSUME NEW r \in Live' PROVE r \in Live \ {s}
    <3>1. PICK p \in Peers : r = cidMap'[p] /\ r # None
      BY DEF Live
    <3>2. r = cidMap[p] /\ p # Peer(s)
      BY <1>3, <3>1
    <3> QED BY <3>1, <3>2 DEF Live, OwnPeer
  <2>2. ASSUME NEW r \in Live, r # s PROVE r \in Live'
    <3>1. Peer(r) \in Peers /\ cidMap[Peer(r)] = r /\ r # None
      BY LivePeer DEF Live
    <3>2. cidMap'[Peer(r)] = r
      BY <1>1, <1>3, <2>2, <3>1
    <3> QED BY <3>1, <3>2 DEF Live
  <2> QED BY <2>1, <2>2
<1>5. SessionTypeOK'
  <2>1. cidMap' \in [Peers -> Sessions \cup {None}]
    BY <1>2
  <2>2. removals' \in [Sessions -> Nat]
    BY <1>1 DEF RemoveSession, SessionTypeOK
  <2>3. uinMap' \subseteq {r \in Sessions : login'[r] # None}
    BY DEF RemoveSession, SessionTypeOK
  <2> QED BY <2>1, <2>2, <2>3 DEF SessionTypeOK, WheelInv
<1>6. ArmedWhileLive'
  <2> SUFFICES ASSUME NEW t \in Timeouts
               PROVE  st'[t] = "init" <=> \E r \in Live' : timeout[r] = t /\ owner[t] = r
    BY DEF ArmedWhileLive
  <2>1. CASE t = timeout[s]
    BY <1>1, <1>4, <2>1
  <2>2. CASE t # timeout[s]
    <3>1. st'[t] = st[t]
      BY <2>2
    <3>2. st[t] = "init" <=> \E r \in Live : timeout[r] = t /\ owner[t] = r
      BY DEF ArmedWhileLive
    <3> QED BY <1>4, <2>2, <3>1, <3>2
  <2> QED BY <2>1, <2>2
<1>7. OwnPeer'
  BY <1>3 DEF OwnPeer, Peer
<1>8. OwnTimeout'
  BY <1>4 DEF OwnTimeout
<1>9. Unused' /\ touched' \in [Sessions -> Nat]
  BY DEF Unused
<1> QED BY <1>4, <1>5, <1>6, <1>7, <1>8, <1>9

LEMMA LogoutKeeps ==
  ASSUME SessionIInv, Logout
  PROVE  SessionIInv' /\ \E s \in Live : RemoveSession(s) /\ Live' = Live \ {s}
<1>1. PICK p \in Peers :
        /\ cidMap[p] # None
        /\ RemoveSession(cidMap[p])
        /\ st' = [st EXCEPT ![timeout[cidMap[p]]] = "cancelled"]
  BY DEF Logout, CancelTimeout
<1> PICK s : s = cidMap[p]
  OBVIOUS
<1> PICK t : t = timeout[s]
  OBVIOUS
<1>2. s \in Live /\ RemoveSession(s) /\ st' = [st EXCEPT ![t] = "cancelled"]
  BY <1>1 DEF Live
<1>3. t \in Timeouts /\ st[t] = "init"
  BY <1>2, LiveTimeout
<1>4. /\ st \in [Timeouts -> {"new", "init", "cancelled", "expired"}]
      /\ running = None
  BY DEF SessionIInv, WheelInv, TypeOK, Runs, Logout
<1>5. /\ st' \in [Timeouts -> {"new", "init", "cancelled", "expired"}]
      /\ st'[t] = "cancelled" /\ \A u \in Timeouts \ {t} : st'[u] = st[u]
  BY <1>2, <1>3, <1>4
<1>6. /\ UNCHANGED <<clock, unread, lost, attached, ticked, bucket, pos, running,
                     rounds, added, ran>>
      /\ UNCHANGED <<login, timeout, owner, touched>>
  BY DEF Logout
<1>7. t # running
  BY <1>3, <1>4, TimerAssumption
<1>8. \A u \in Timeouts :
        \/ st'[u] = st[u]
        \/ st[u] # "new" /\ st'[u] = "cancelled" /\ u # running
  BY <1>3, <1>5, <1>7
<1>9. WheelInv'
  BY <1>5, <1>6, <1>8, CancelStep DEF SessionIInv
<1> QED BY <1>2, <1>5, <1>6, <1>9, RemoveKeeps

\* The session of the timeout that runs out is the one that is removed.
LEMMA ExpireKeeps ==
  ASSUME SessionIInv, ExpireSession
  PROVE  /\ SessionIInv'
         /\ owner[Current] \in Live /\ timeout[owner[Current]] = Current
         /\ RemoveSession(owner[Current]) /\ Live' = Live \ {owner[Current]}
<1> PICK t : t = Current
  OBVIOUS
<1>1. t \in Timeouts /\ st[t] = "init" /\ st' = [st EXCEPT ![t] = "expired"]
  BY CurrentPlace DEF ExpireSession, Expire, Walking, SessionIInv
<1>2. PICK s \in Live : timeout[s] = t /\ owner[t] = s
  BY <1>1 DEF SessionIInv, ArmedWhileLive
<1>3. WheelInv'
  BY ExpireStep DEF SessionIInv, ExpireSession
<1>4. st'[t] = "expired" /\ \A u \in Timeouts \ {t} : st'[u] = st[u]
  BY <1>1 DEF SessionIInv, WheelInv, TypeOK
<1>5. RemoveSession(s) /\ UNCHANGED <<added, login, timeout, owner, touched>>
  BY <1>2 DEF ExpireSession, Expire
<1> QED BY <1>2, <1>3, <1>4, <1>5, RemoveKeeps

\* A live session gets a new timeout in the place of the one it had.
LEMMA TouchKeeps ==
  ASSUME SessionIInv, NEW s \in Sessions, TouchSession(s),
         pos = 0, login'[s] # None,
         UNCHANGED <<clock, unread, lost, attached, ticked, pos, running, ran, removals>>,
         Live' = Live \cup {s}, s \in Live \/ timeout[s] = None,
         login' \in [Sessions -> Logins \cup {None}],
         \A r \in Sessions \ {s} : login'[r] = login[r],
         cidMap' \in [Peers -> Sessions \cup {None}],
         uinMap' \subseteq {r \in Sessions : login'[r] # None},
         OwnPeer'
  PROVE  SessionIInv'
<1> USE DEF SessionIInv
<1>1. PICK t \in Timeouts :
        /\ Inserted(t, IdleMs)
        /\ ResetTimeout(s, t)
        /\ timeout' = [timeout EXCEPT ![s] = t]
        /\ owner' = [owner EXCEPT ![t] = s]
        /\ touched' = [touched EXCEPT ![s] = clock]
  BY DEF TouchSession, Touch
<1>2. /\ st \in [Timeouts -> {"new", "init", "cancelled", "expired"}]
      /\ added \in [Timeouts -> [clock : Nat, lost : Nat, ticks : Nat, behind : BOOLEAN]]
      /\ clock \in Nat
  BY Counters DEF WheelInv, TypeOK
<1>3. /\ st[t] = "new"
      /\ added' = [added EXCEPT ![t] = [clock |-> clock, lost |-> lost,
                     ticks |-> Ticks(IdleMs), behind |-> pos > 0 /\ unread > 0]]
  BY <1>1 DEF Inserted, NewTimeout
<1>4. \A u \in Timeouts :
        st'[u] = IF u = t THEN "init"
                 ELSE IF u = timeout[s] /\ st[u] = "init" THEN "cancelled" ELSE st[u]
  <2>1. st' = [u \in Timeouts |->
                 CASE u = t -> "init"
                   [] u = timeout[s] /\ st[u] = "init" -> "cancelled"
                   [] OTHER -> st[u]]
    BY <1>1 DEF ResetTimeout
  <2>2. \A u \in Timeouts :
          st'[u] = CASE u = t -> "init"
                     [] u = timeout[s] /\ st[u] = "init" -> "cancelled"
                     [] OTHER -> st[u]
    BY <2>1, Zenon
  <2> QED BY <1>3, <2>2
<1>5. /\ st' \in [Timeouts -> {"new", "init", "cancelled", "expired"}]
      /\ st'[t] = "init"
      /\ \A u \in Timeouts \ {t} :
           \/ st'[u] = st[u]
           \/ st[u] = "init" /\ st'[u] = "cancelled"
  <2>1. \A u \in Timeouts : st'[u] \in {"new", "init", "cancelled", "expired"}
    BY <1>2, <1>4
  <2>2. st' = [u \in Timeouts |-> st'[u]]
    BY <1>1 DEF ResetTimeout
  <2> QED BY <1>4, <2>1, <2>2
<1>6. WheelInv'
  <2>1. Calling /\ IdleMs \in Nat
    BY SessionAssumption DEF Calling
  <2> QED BY <1>1, <1>5, <2>1, InsertStep
<1>7. /\ timeout'[s] = t /\ \A r \in Sessions \ {s} : timeout'[r] = timeout[r]
      /\ owner'[t] = s /\ \A u \in Timeouts \ {t} : owner'[u] = owner[u]
      /\ touched'[s] = clock /\ \A r \in Sessions \ {s} : touched'[r] = touched[r]
  BY <1>1 DEF SessionTypeOK
<1>8. SessionTypeOK' /\ touched' \in [Sessions -> Nat]
  <2>1. timeout' \in [Sessions -> Timeouts \cup {None}]
    BY <1>1 DEF SessionTypeOK
  <2>2. owner' \in [Timeouts -> Sessions \cup {None}]
    BY <1>1 DEF SessionTypeOK
  <2>3. removals' \in [Sessions -> Nat]
    BY DEF SessionTypeOK
  <2>4. touched' \in [Sessions -> Nat]
    BY <1>1, <1>2
  <2>5. TypeOK'
    BY <1>6 DEF WheelInv
  <2> QED BY <2>1, <2>2, <2>3, <2>4, <2>5 DEF SessionTypeOK
<1>9. ArmedWhileLive'
  <2> SUFFICES ASSUME NEW u \in Timeouts
               PROVE  st'[u] = "init" <=> \E r \in Live' : timeout'[r] = u /\ owner'[u] = r
    BY DEF ArmedWhileLive
  <2>1. CASE u = t
    BY <1>5, <1>7, <2>1
  <2>2. CASE u # t /\ u = timeout[s]
    <3>1. st[u] = "init" /\ owner[u] = s
      BY <2>2, LiveTimeout, TimerAssumption
    <3>2. st'[u] = "cancelled"
      BY <1>4, <2>2, <3>1
    <3>3. owner'[u] = s /\ timeout'[s] # u
      BY <1>7, <2>2, <3>1
    <3> QED BY <3>2, <3>3
  <2>3. CASE u # t /\ u # timeout[s]
    <3>1. st'[u] = st[u] /\ owner'[u] = owner[u]
      BY <1>4, <1>7, <2>3
    <3>2. st[u] = "init" <=> \E r \in Live : timeout[r] = u /\ owner[u] = r
      BY DEF ArmedWhileLive
    <3>3. ASSUME NEW r \in Live'
          PROVE  timeout'[r] = u <=> r \in Live /\ timeout[r] = u
      <4>1. CASE r = s
        BY <1>7, <2>3, <4>1
      <4>2. CASE r # s
        <5>1. r \in Live /\ r \in Sessions
          BY <4>2, LivePeer
        <5> QED BY <1>7, <4>2, <5>1
      <4> QED BY <4>1, <4>2
    <3>4. Live \subseteq Live'
      OBVIOUS
    <3> QED BY <3>1, <3>2, <3>3, <3>4
  <2> QED BY <2>1, <2>2, <2>3
<1>10. OwnTimeout'
  <2> SUFFICES ASSUME NEW r \in Live'
               PROVE  /\ timeout'[r] \in Timeouts /\ owner'[timeout'[r]] = r
                      /\ added'[timeout'[r]].clock = touched'[r]
                      /\ added'[timeout'[r]].ticks = Ticks(IdleMs)'
                      /\ added'[timeout'[r]].behind = FALSE
    BY DEF OwnTimeout
  <2>1. Ticks(IdleMs)' = Ticks(IdleMs)
    BY DEF Ticks
  <2>2. CASE r = s
    <3>1. added'[t] = [clock |-> clock, lost |-> lost, ticks |-> Ticks(IdleMs),
                       behind |-> pos > 0 /\ unread > 0]
      BY <1>2, <1>3
    <3>2. ~(pos > 0)
      OBVIOUS
    <3>3. /\ added'[t].clock = clock /\ added'[t].ticks = Ticks(IdleMs)
          /\ added'[t].behind = FALSE
      <4> DEFINE e == [clock |-> clock, lost |-> lost, ticks |-> Ticks(IdleMs),
                       behind |-> pos > 0 /\ unread > 0]
      <4>1. e.clock = clock /\ e.ticks = Ticks(IdleMs) /\ e.behind = (pos > 0 /\ unread > 0)
        OBVIOUS
      <4> HIDE DEF e
      <4>2. added'[t] = e
        BY <3>1 DEF e
      <4>3. (pos > 0 /\ unread > 0) = FALSE
        BY <3>2
      <4> QED BY <4>1, <4>2, <4>3
    <3> QED BY <1>7, <2>1, <2>2, <3>3
  <2>3. CASE r # s
    <3>1. r \in Live /\ r \in Sessions
      BY <2>3, LivePeer
    <3>2. timeout[r] \in Timeouts /\ owner[timeout[r]] = r /\ st[timeout[r]] = "init"
      BY <3>1, LiveTimeout
    <3>3. timeout[r] # t
      BY <1>3, <3>2
    <3>4. added'[timeout[r]] = added[timeout[r]]
      BY <1>2, <1>3, <3>2, <3>3
    <3>5. timeout'[r] = timeout[r] /\ touched'[r] = touched[r] /\ owner'[timeout[r]] = r
      BY <1>7, <2>3, <3>1, <3>2, <3>3
    <3> QED BY <2>1, <3>1, <3>2, <3>4, <3>5 DEF OwnTimeout
  <2> QED BY <2>2, <2>3
<1>11. Unused'
  BY <1>7 DEF Unused
<1> QED BY <1>6, <1>8, <1>9, <1>10, <1>11

LEMMA KnownKeeps ==
  ASSUME SessionIInv, HeartbeatKnown \/ TouchByCid
  PROVE  SessionIInv' /\ Live' = Live /\ UNCHANGED <<login, uinMap, removals>>
<1> USE DEF SessionIInv
<1>1. PICK p \in Peers : cidMap[p] # None /\ TouchSession(cidMap[p])
  BY DEF HeartbeatKnown, TouchByCid, FindSessionByCid, Peers
<1> PICK s : s = cidMap[p]
  OBVIOUS
<1>2. s \in Live /\ s \in Sessions /\ login[s] # None /\ TouchSession(s)
  <2>1. s \in Live
    BY <1>1 DEF Live
  <2> QED BY <1>1, <2>1, LivePeer
<1>3. /\ pos = 0
      /\ UNCHANGED <<clock, unread, lost, attached, ticked, pos, running, ran>>
      /\ UNCHANGED <<login, cidMap, uinMap, removals>>
  BY DEF HeartbeatKnown, TouchByCid
<1>4. Live' = Live /\ OwnPeer'
  BY <1>3 DEF Live, OwnPeer, Peer
<1>5. /\ login' \in [Sessions -> Logins \cup {None}]
      /\ cidMap' \in [Peers -> Sessions \cup {None}]
      /\ uinMap' \subseteq {r \in Sessions : login'[r] # None}
      /\ Live' = Live \cup {s} /\ login'[s] # None
      /\ \A r \in Sessions \ {s} : login'[r] = login[r]
  BY <1>2, <1>3, <1>4 DEF SessionTypeOK
<1> HIDE DEF SessionIInv
<1>6. SessionIInv'
  BY <1>2, <1>3, <1>4, <1>5, TouchKeeps
<1> QED BY <1>3, <1>4, <1>6

LEMMA NewKeeps ==
  ASSUME SessionIInv, HeartbeatNew
  PROVE  /\ SessionIInv' /\ UNCHANGED removals
         /\ \E s \in Sessions : Live' = Live \cup {s} /\ uinMap' = uinMap \cup {s}
<1> USE DEF SessionIInv
<1>1. PICK l \in Logins, s \in Sessions :
        /\ cidMap[l[1]] = None /\ login[s] = None
        /\ login' = [login EXCEPT ![s] = l]
        /\ cidMap' = [cidMap EXCEPT ![l[1]] = s]
        /\ uinMap' = uinMap \cup {s}
        /\ TouchSession(s)
  BY DEF HeartbeatNew, AddSession, FindSessionByCid
<1>2. /\ pos = 0 /\ timeout[s] = None
      /\ UNCHANGED <<clock, unread, lost, attached, ticked, pos, running, ran, removals>>
  BY <1>1 DEF HeartbeatNew, Unused
<1>3. /\ l[1] \in Peers /\ l # None /\ s # None
      /\ login \in [Sessions -> Logins \cup {None}]
      /\ cidMap \in [Peers -> Sessions \cup {None}]
  BY SessionAssumption DEF Peers, SessionTypeOK
<1>4. /\ login'[s] = l /\ \A r \in Sessions \ {s} : login'[r] = login[r]
      /\ login' \in [Sessions -> Logins \cup {None}]
  BY <1>1, <1>3
<1>5. /\ cidMap' \in [Peers -> Sessions \cup {None}]
      /\ \A p \in Peers : cidMap'[p] = IF p = l[1] THEN s ELSE cidMap[p]
  BY <1>1, <1>3
<1>6. Live' = Live \cup {s}
  <2>1. ASSUME NEW r \in Live' PROVE r \in Live \cup {s}
    BY <1>5 DEF Live
  <2>2. ASSUME NEW r \in Live PROVE r \in Live'
    <3>1. PICK p \in Peers : r = cidMap[p] /\ r # None
      BY DEF Live
    <3>2. cidMap'[p] = r
      BY <1>1, <1>5, <3>1
    <3> QED BY <3>1, <3>2 DEF Live
  <2>3. s \in Live'
    BY <1>3, <1>5 DEF Live
  <2> QED BY <2>1, <2>2, <2>3
<1>7. OwnPeer'
  <2> SUFFICES ASSUME NEW p \in Peers, cidMap'[p] # None
               PROVE  login'[cidMap'[p]] # None /\ login'[cidMap'[p]][1] = p
    BY DEF OwnPeer, Peer
  <2>1. CASE p = l[1]
    BY <1>3, <1>4, <1>5, <2>1
  <2>2. CASE p # l[1]
    <3>1. cidMap'[p] = cidMap[p]
      BY <1>5, <2>2
    <3>2. /\ cidMap[p] \in Sessions
          /\ login[cidMap[p]] # None /\ login[cidMap[p]][1] = p
      BY <1>3, <3>1 DEF OwnPeer, Peer
    <3>3. login'[cidMap[p]] = login[cidMap[p]]
      BY <1>1, <1>4, <3>2
    <3> QED BY <3>1, <3>2, <3>3
  <2> QED BY <2>1, <2>2
<1>8. uinMap' \subseteq {r \in Sessions : login'[r] # None}
  BY <1>1, <1>3, <1>4 DEF SessionTypeOK
<1> HIDE DEF SessionIInv
<1>9. SessionIInv'
  BY <1>1, <1>2, <1>3, <1>4, <1>5, <1>6, <1>7, <1>8, TouchKeeps
<1> QED BY <1>1, <1>2, <1>6, <1>9

LEMMA SessionStep ==
  ASSUME SessionIInv, [SessionNext]_vars
  PROVE  SessionIInv'
<1>1. CASE HeartbeatKnown \/ TouchByCid
  BY <1>1, KnownKeeps
<1>2. CASE HeartbeatNew
  BY <1>2, NewKeeps
<1>3. CASE Logout
  BY <1>3, LogoutKeeps
<1>4. CASE ExpireSession
  BY <1>4, ExpireKeeps
<1>5. CASE TimerStep \/ UNCHANGED vars
  BY <1>5, TimerKeeps
<1> QED BY <1>1, <1>2, <1>3, <1>4, <1>5 DEF SessionNext

------------------------------------------------------------------------------
(* The theorems about the sessions *)

\* Each session in the maps has the one armed timeout that is its own, and no
\* timeout is armed for another one, whatever users and connections there are.
THEOREM TimeoutsAreOfSessions == SessionSafety => []ArmedWhileLive
<1>1. Init => SessionIInv
  BY SessionStart
<1>2. SessionIInv /\ [SessionNext]_vars => SessionIInv'
  BY SessionStep
<1>3. SessionIInv => ArmedWhileLive
  BY DEF SessionIInv
<1> QED BY <1>1, <1>2, <1>3, PTL DEF SessionSafety

\* A user has one connection: no two logins share the uin and not the peer.
OneConnectionEach == \A k, l \in Logins : k[2] = l[2] => k[1] = l[1]

LEMMA RemoveFinds ==
  ASSUME OneConnectionEach, SessionIInv, FoundByUinOrCid,
         NEW s \in Live, RemoveSession(s), Live' = Live \ {s}
  PROVE  FoundByUinOrCid'
<1>1. uinMap' = {r \in Live : Uin(r) # Uin(s)}
  BY DEF RemoveSession, FoundByUinOrCid
<1>2. ASSUME NEW r \in Live, Uin(r) = Uin(s) PROVE r = s
  <2>1. /\ r \in Sessions /\ cidMap[Peer(r)] = r /\ login[r] # None
        /\ cidMap[Peer(s)] = s /\ s \in Sessions /\ login[s] # None
    BY LivePeer
  <2>2. login[r] \in Logins /\ login[s] \in Logins
    BY <2>1 DEF SessionIInv, SessionTypeOK
  <2>3. Peer(r) = Peer(s)
    BY <1>2, <2>2 DEF OneConnectionEach, Peer, Uin
  <2> QED BY <2>1, <2>3
<1> QED BY <1>1, <1>2 DEF FoundByUinOrCid

LEMMA FoundStep ==
  ASSUME OneConnectionEach, SessionIInv, FoundByUinOrCid, [SessionNext]_vars
  PROVE  FoundByUinOrCid'
<1>1. CASE HeartbeatKnown \/ TouchByCid
  BY <1>1, KnownKeeps DEF FoundByUinOrCid
<1>2. CASE HeartbeatNew
  BY <1>2, NewKeeps DEF FoundByUinOrCid
<1>3. CASE Logout
  BY <1>3, LogoutKeeps, RemoveFinds
<1>4. CASE ExpireSession
  BY <1>4, ExpireKeeps, RemoveFinds
<1>5. CASE TimerStep \/ UNCHANGED vars
  BY <1>5, TimerKeeps
<1> QED BY <1>1, <1>2, <1>3, <1>4, <1>5 DEF SessionNext

\* Where each user has one connection, both maps hold the same sessions, and
\* those have the armed timeouts.
THEOREM SessionsAgree ==
  ASSUME OneConnectionEach
  PROVE  SessionSafety => []SessionInv
<1>1. Init => SessionIInv /\ FoundByUinOrCid
  BY SessionStart
<1>2. SessionIInv /\ FoundByUinOrCid /\ [SessionNext]_vars => (SessionIInv /\ FoundByUinOrCid)'
  BY SessionStep, FoundStep
<1>3. SessionIInv /\ FoundByUinOrCid => SessionInv
  BY DEF SessionIInv, SessionInv
<1> QED BY <1>1, <1>2, <1>3, PTL DEF SessionSafety

\* The idle timer removes a session in the maps that was idle long enough.
THEOREM IdleTimerRemovesIdle == SessionSafety => OnlyIdleRemoved
<1>1. ASSUME SessionIInv, ExpireSession, NEW s \in Sessions, removals'[s] # removals[s]
      PROVE  s = cidMap[Peer(s)] /\ clock >= touched[s] + Ticks(IdleMs)
  <2> PICK r : r = owner[Current]
    OBVIOUS
  <2>1. r \in Live /\ timeout[r] = Current /\ RemoveSession(r)
    BY <1>1, ExpireKeeps
  <2>2. r = s
    BY <1>1, <2>1 DEF RemoveSession, SessionIInv, SessionTypeOK
  <2>3. cidMap[Peer(r)] = r
    BY <1>1, <2>1, LivePeer
  <2>4. /\ added[Current].clock = touched[r] /\ added[Current].ticks = Ticks(IdleMs)
        /\ added[Current].behind = FALSE
    BY <1>1, <2>1 DEF SessionIInv, OwnTimeout
  <2>5. clock + Extra(Current) >= Asked(Current)
    BY <1>1, ExpireInTime DEF SessionIInv, ExpireSession
  <2>6. clock \in Nat
    BY <1>1, Counters DEF SessionIInv, WheelInv
  <2> QED BY <2>2, <2>3, <2>4, <2>5, <2>6 DEF Extra, Asked
<1>2. SessionIInv /\ [SessionNext]_vars =>
        [\A s \in Sessions : ExpireSession /\ removals'[s] # removals[s] =>
           /\ s = cidMap[Peer(s)]
           /\ clock >= touched[s] + Ticks(IdleMs)]_vars
  BY <1>1
<1>3. Init => SessionIInv
  BY SessionStart
<1>4. SessionIInv /\ [SessionNext]_vars => SessionIInv'
  BY SessionStep
<1> QED BY <1>2, <1>3, <1>4, PTL DEF SessionSafety, OnlyIdleRemoved
==============================================================================
