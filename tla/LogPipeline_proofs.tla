-------------------------- MODULE LogPipeline_proofs --------------------------
(* The lines of the log, for any number of threads and lines, and any size of *)
(* the cache and of the lines.                                                *)
EXTENDS LogPipeline, SequenceLemmas

------------------------------------------------------------------------------
(* The invariant *)

\* What left the cache: written, then queued.
Flushed == file \o FlattenSeq(queue)

End(i) == lines[i].at + lines[i].size
Writing == {w \in Writers : write[w] # None}

\* Nothing is logged once the cache was flushed for the last time, and what
\* is flushed is queued until then.
Phases ==
  /\ logging <=> phase \in {"making", "used", "stop"}
  /\ phase \notin {"making", "used"} => len = 0
  /\ phase = "closed" => queue = <<>>

Counted ==
  /\ Len(Flushed) = start
  /\ start + len = IF lines = <<>> THEN 0 ELSE End(Len(lines))

\* Lines follow each other; a flush comes between two of them.
Tiled ==
  /\ Len(lines) <= MaxLines
  /\ \A i \in DOMAIN lines :
       /\ End(i) <= i * Capacity /\ End(i) <= start + len
       /\ End(i) <= start \/ start <= lines[i].at
  /\ \A i, j \in DOMAIN lines : i < j => End(i) <= lines[j].at

\* A thread copies its own line, which fits, to its room unless it is late.
Writes ==
  \A w \in Writing :
    LET i == write[w].line IN
      /\ phase = "used"
      /\ i \in DOMAIN lines
      /\ write[w].copied < lines[i].size
      /\ write[w].at + lines[i].size <= Capacity
      /\ i \notin late => lines[i].at = start + write[w].at
      /\ \A v \in Writing : write[v].line = i => v = w

\* What left the cache on time is whole.
InChunks ==
  \A i \in DOMAIN lines : End(i) <= start /\ i \notin late \cup hit =>
    \A k \in 1 .. lines[i].size : Flushed[lines[i].at + k] = Byte(i, k)

\* Byte k of line i was copied.
Copied(i, k) == \A w \in Writing : write[w].line = i => k <= write[w].copied

\* What was copied to the cache and is still there has not been overwritten.
InCache ==
  \A i \in DOMAIN lines : start <= lines[i].at /\ i \notin late \cup hit =>
    \A k \in 1 .. lines[i].size :
      Copied(i, k) => cache[(lines[i].at - start) + k] = Byte(i, k)

\* Only a late line can be copied over another one.
HitByLate == hit # {} => late # {}

PipeInv ==
  /\ TypeOK /\ Phases /\ Counted /\ Tiled /\ Writes /\ InChunks /\ InCache /\ HitByLate

------------------------------------------------------------------------------
(* Facts that hold in every state *)

LEMMA TimesMonotonic ==
  ASSUME NEW a \in Nat, NEW b \in Nat, NEW c \in Nat, a <= b
  PROVE  a * c \in Nat /\ b * c \in Nat /\ a * c <= b * c
<1>1. PICK d \in Nat : b = a + d
  <2>1. b - a \in Nat /\ b = a + (b - a)
    OBVIOUS
  <2> QED BY <2>1
<1>2. a * c \in Nat /\ d * c \in Nat
  OBVIOUS
<1>3. b * c = a * c + d * c
  BY <1>1
<1> QED BY <1>2, <1>3

\* A line has a byte at least and fits the cache, however long its text is.
LEMMA SizesFit == \A n \in Sizes : n \in Nat /\ n > 0 /\ n <= Capacity
<1> SUFFICES ASSUME NEW ret \in Texts, ret > 0
             PROVE  /\ LineSize(ret) \in Nat /\ LineSize(ret) > 0
                    /\ LineSize(ret) <= Capacity
  BY DEF Sizes
<1>1. /\ ret \in Int /\ BufSize \in Nat /\ Prefix \in Nat /\ Capacity \in Nat
      /\ Prefix < BufSize /\ BufSize <= Capacity
  BY LogAssumption
<1> QED BY <1>1 DEF LineSize

\* The types of what the proofs count with.
LEMMA LineTypes ==
  ASSUME TypeOK
  PROVE  /\ Len(lines) \in Nat /\ DOMAIN lines = 1 .. Len(lines)
         /\ start \in Nat /\ len \in Nat /\ len <= Capacity
         /\ Capacity \in Nat /\ MaxLines \in Nat
         /\ \A i \in DOMAIN lines :
              /\ lines[i] \in [at : Offsets, size : Sizes]
              /\ lines[i].at \in Nat /\ lines[i].size \in Sizes
              /\ lines[i].size \in Nat /\ lines[i].size > 0 /\ lines[i].size <= Capacity
              /\ End(i) \in Nat /\ End(i) = lines[i].at + lines[i].size
         /\ \A w \in Writing :
              /\ write[w].line \in 1 .. MaxLines
              /\ write[w].at \in Nat /\ write[w].at <= Capacity
              /\ write[w].copied \in Nat /\ write[w].copied <= Capacity
<1>1. /\ Capacity \in Nat /\ MaxLines \in Nat /\ Offsets \subseteq Nat
      /\ \A n \in Sizes : n \in Nat /\ n > 0 /\ n <= Capacity
  <2>1. MaxLines * Capacity \in Nat
    BY LogAssumption
  <2> QED BY <2>1, SizesFit, LogAssumption DEF Offsets
<1>2. /\ lines \in Seq([at : Offsets, size : Sizes]) /\ start \in Offsets
      /\ len \in 0 .. Capacity
  BY DEF TypeOK
<1>3. \A w \in Writing : write[w] \in [line : 1 .. MaxLines, at : 0 .. Capacity,
                                        copied : 0 .. Capacity]
  BY DEF TypeOK, Writing
<1>4. /\ Len(lines) \in Nat /\ DOMAIN lines = 1 .. Len(lines)
      /\ \A i \in DOMAIN lines : lines[i] \in [at : Offsets, size : Sizes]
  <2> DEFINE R == [at : Offsets, size : Sizes]
  <2> HIDE DEF R
  <2>1. lines \in Seq(R)
    BY <1>2 DEF R
  <2>2. /\ Len(lines) \in Nat /\ DOMAIN lines = 1 .. Len(lines)
        /\ \A i \in DOMAIN lines : lines[i] \in R
    BY <2>1
  <2> QED BY <2>2 DEF R
<1>5. start \in Nat /\ len \in Nat /\ len <= Capacity
  BY <1>1, <1>2
<1>6. ASSUME NEW i \in DOMAIN lines
      PROVE  /\ lines[i].at \in Nat /\ lines[i].size \in Sizes
             /\ lines[i].size \in Nat /\ lines[i].size > 0 /\ lines[i].size <= Capacity
             /\ End(i) \in Nat /\ End(i) = lines[i].at + lines[i].size
  <2>1. lines[i].at \in Offsets /\ lines[i].size \in Sizes
    BY <1>4
  <2>2. lines[i].at \in Nat /\ lines[i].size \in Nat
    BY <1>1, <2>1
  <2> QED BY <1>1, <2>1, <2>2 DEF End
<1>7. ASSUME NEW w \in Writing
      PROVE  /\ write[w].line \in 1 .. MaxLines
             /\ write[w].at \in Nat /\ write[w].at <= Capacity
             /\ write[w].copied \in Nat /\ write[w].copied <= Capacity
  BY <1>1, <1>3
<1> QED BY <1>1, <1>4, <1>5, <1>6, <1>7

LEMMA FlushedType ==
  ASSUME TypeOK
  PROVE  /\ FlattenSeq(queue) \in Seq(Bytes) /\ file \in Seq(Bytes)
         /\ Flushed \in Seq(Bytes) /\ Len(Flushed) \in Nat
<1>1. queue \in Seq(Seq(Bytes)) /\ file \in Seq(Bytes)
  BY DEF TypeOK
<1>2. FlattenSeq(queue) \in Seq(Bytes)
  BY <1>1, FlattenType
<1> DEFINE q == FlattenSeq(queue)
<1> HIDE DEF q
<1>3. q \in Seq(Bytes) /\ file \in Seq(Bytes)
  BY <1>1, <1>2 DEF q
<1>4. file \o q \in Seq(Bytes)
  BY ONLY <1>3
<1> QED BY <1>2, <1>3, <1>4 DEF Flushed, q

\* The cache up to the bytes that are in use.
LEMMA CachePart ==
  ASSUME TypeOK
  PROVE  LET s == SubSeq(cache, 1, len) IN
           s \in Seq(Bytes) /\ Len(s) = len /\ \A p \in 1 .. len : s[p] = cache[p]
<1>1. /\ cache \in [1 .. Capacity -> Bytes] /\ len \in Nat /\ len <= Capacity
      /\ Capacity \in Nat
  BY LineTypes DEF TypeOK
<1>2. cache \in Seq(Bytes) /\ Len(cache) = Capacity
  BY <1>1
<1>3. \A p \in 1 .. len : cache[p] \in Bytes
  BY <1>1
<1> QED BY <1>1, <1>2, <1>3, SubSeqProperties

\* What is in the output is what left the cache and then what is in it.
LEMMA OutputBytes ==
  ASSUME TypeOK
  PROVE  /\ Output \in Seq(Bytes) /\ Len(Output) = Len(Flushed) + len
         /\ \A n \in 1 .. Len(Flushed) : Output[n] = Flushed[n]
         /\ \A p \in 1 .. len : Output[Len(Flushed) + p] = cache[p]
<1> DEFINE f == Flushed
           s == SubSeq(cache, 1, len)
           B == Bytes
<1>1. f \in Seq(B) /\ Len(f) \in Nat
  BY FlushedType
<1>2. s \in Seq(B) /\ Len(s) = len /\ \A p \in 1 .. len : s[p] = cache[p]
  BY CachePart
<1>3. Output = f \o s
  BY DEF Output, Flushed
<1>4. len \in Nat
  BY LineTypes
<1> HIDE DEF f, s, B
<1>5. /\ f \o s \in Seq(B) /\ Len(f \o s) = Len(f) + Len(s)
      /\ \A n \in 1 .. Len(f) + Len(s) :
           (f \o s)[n] = IF n <= Len(f) THEN f[n] ELSE s[n - Len(f)]
  BY ONLY <1>1, <1>2, ConcatProperties
<1>6. \A n \in 1 .. Len(f) : Output[n] = f[n]
  <2>1. \A n \in 1 .. Len(f) : n \in 1 .. Len(f) + len /\ n <= Len(f)
    BY <1>1, <1>4
  <2> QED BY <1>2, <1>3, <1>5, <2>1
<1>7. \A p \in 1 .. len : Output[Len(f) + p] = cache[p]
  <2>1. \A p \in 1 .. len : /\ Len(f) + p \in 1 .. Len(f) + len /\ ~(Len(f) + p <= Len(f))
                           /\ (Len(f) + p) - Len(f) = p
    BY <1>1, <1>4
  <2> QED BY <1>2, <1>3, <1>5, <2>1
<1> QED BY <1>2, <1>3, <1>5, <1>6, <1>7 DEF f, B

\* The content of the cache and of the chunks is the content of the output.
LEMMA OutputIntact == PipeInv => IntactUnlessLate /\ Len(Output) = start + len
<1> SUFFICES ASSUME PipeInv
             PROVE  IntactUnlessLate /\ Len(Output) = start + len
  OBVIOUS
<1>1. TypeOK /\ Len(Flushed) = start
  BY DEF PipeInv, Counted
<1>2. ASSUME NEW i \in DOMAIN lines, i \notin Copying \cup late \cup hit,
             NEW k \in 1 .. lines[i].size
      PROVE  Output[lines[i].at + k] = Byte(i, k)
  <2> DEFINE a == lines[i].at
  <2>1. /\ a \in Nat /\ k \in Nat /\ k > 0 /\ k <= lines[i].size /\ End(i) = a + lines[i].size
        /\ start \in Nat /\ len \in Nat /\ lines[i].size \in Nat
    BY <1>1, LineTypes
  <2>2. End(i) <= start + len /\ (End(i) <= start \/ start <= a)
    BY DEF PipeInv, Tiled
  <2>3. CASE End(i) <= start
    <3>1. Flushed[a + k] = Byte(i, k)
      BY <1>2, <2>3 DEF PipeInv, InChunks
    <3>2. a + k \in 1 .. Len(Flushed)
      BY <1>1, <2>1, <2>3
    <3> QED BY <1>1, <3>1, <3>2, OutputBytes
  <2>4. CASE start <= a
    <3>1. Copied(i, k)
      BY <1>2 DEF Copied, Copying, Writing
    <3>2. cache[(a - start) + k] = Byte(i, k)
      BY <1>2, <2>4, <3>1 DEF PipeInv, InCache
    <3>3. (a - start) + k \in 1 .. len /\ start + ((a - start) + k) = a + k
      BY <2>1, <2>2, <2>4
    <3>4. Output[start + ((a - start) + k)] = cache[(a - start) + k]
      BY <1>1, <3>3, OutputBytes
    <3> QED BY <3>2, <3>3, <3>4
  <2> QED BY <2>2, <2>3, <2>4
<1> QED BY <1>1, <1>2, OutputBytes DEF IntactUnlessLate

------------------------------------------------------------------------------
(* Chunks are queued and written *)

Pcs == {"top", "lock", "test", "doze", "asleep", "done"}

\* A flush moves the bytes in use from the cache to the chunks.
LEMMA FlushNoLockStep ==
  ASSUME PipeInv, logging, NEW room, FlushNoLock(room), file' = file
  PROVE  /\ queue' \in Seq(Seq(Bytes)) /\ pc' \in Pcs
         /\ Flushed' = Output
         /\ start' = start + len /\ late' = late \cup Copying /\ len' = room
<1> DEFINE c == SubSeq(cache, 1, len)
           B == Bytes
<1>1. /\ TypeOK /\ queue \in Seq(Seq(B)) /\ file \in Seq(B) /\ pc \in Pcs
      /\ FlattenSeq(queue) \in Seq(B) /\ c \in Seq(B) /\ Len(c) = len /\ len \in Nat
  BY FlushedType, CachePart, LineTypes DEF PipeInv, TypeOK, Pcs
<1>2. start' = start + len /\ late' = late \cup Copying /\ len' = room
  BY DEF FlushNoLock
<1>3. CASE len > 0
  <2>1. queue' = Append(queue, c) /\ pc' \in Pcs
    BY <1>1, <1>3 DEF FlushNoLock, Flush, Notify, Pcs
  <2> HIDE DEF c, B
  <2>2. queue' \in Seq(Seq(B)) /\ FlattenSeq(queue') = FlattenSeq(queue) \o c
    <3>1. Append(queue, c) \in Seq(Seq(B))
      BY <1>1
    <3> QED BY <1>1, <2>1, <3>1, FlattenAppend
  <2> DEFINE q == FlattenSeq(queue)
  <2>3. Flushed' = file \o (q \o c)
    BY <2>2 DEF Flushed
  <2>4. Output = (file \o q) \o c
    BY DEF Output, c
  <2>5. file \in Seq(B) /\ q \in Seq(B) /\ c \in Seq(B)
    BY <1>1
  <2> HIDE DEF q
  <2>6. (file \o q) \o c = file \o (q \o c)
    BY ONLY <2>5
  <2> QED BY <1>2, <2>1, <2>2, <2>3, <2>4, <2>6 DEF B
<1>4. CASE len = 0
  <2>1. queue' = queue /\ pc' = pc
    BY <1>4 DEF FlushNoLock
  <2>2. c = <<>>
    BY <1>1, <1>4
  <2>3. Flushed' = Flushed
    BY <2>1 DEF Flushed
  <2> DEFINE f == Flushed
  <2>4. Output = f \o c
    BY DEF Output, Flushed, c
  <2>5. f \in Seq(B)
    BY <1>1, FlushedType
  <2> HIDE DEF c, f, B
  <2>6. f \o <<>> = f
    BY ONLY <2>5
  <2> QED BY <1>1, <1>2, <2>1, <2>2, <2>3, <2>4, <2>6 DEF f, B
<1> QED BY <1>1, <1>3, <1>4

LEMMA ProcessStep ==
  ASSUME TypeOK, ProcessNoLock
  PROVE  queue' \in Seq(Seq(Bytes)) /\ file' \in Seq(Bytes) /\ Flushed' = Flushed
<1> DEFINE B == Bytes
           c == Head(queue)
           t == Tail(queue)
           q == FlattenSeq(t)
<1>1. queue \in Seq(Seq(B)) /\ file \in Seq(B) /\ queue # <<>>
  BY DEF TypeOK, ProcessNoLock
<1>2. file' = file \o c /\ queue' = t
  BY DEF ProcessNoLock
<1> HIDE DEF B
<1>3. c \in Seq(B) /\ t \in Seq(Seq(B))
  BY <1>1
<1>4. FlattenSeq(queue) = c \o q
  BY <1>1, FlattenHead
<1> HIDE DEF c, t
<1>5. q \in Seq(B)
  BY <1>3, FlattenType
<1>6. Flushed = file \o (c \o q) /\ Flushed' = (file \o c) \o q
  BY <1>2, <1>4 DEF Flushed
<1> HIDE DEF q
<1>7. file \in Seq(B) /\ c \in Seq(B) /\ q \in Seq(B)
  BY <1>1, <1>3, <1>5
<1>8. (file \o c) \o q = file \o (c \o q) /\ file \o c \in Seq(B)
  BY ONLY <1>7
<1> QED BY <1>2, <1>3, <1>6, <1>8 DEF B

------------------------------------------------------------------------------
(* A line gets its room *)

\* All lines end where the room that was given out ends, or before.
LEMMA Room ==
  ASSUME PipeInv
  PROVE  /\ start + len \in Nat /\ start + len <= Len(lines) * Capacity
         /\ start + len \in Offsets /\ Len(lines) <= MaxLines
         /\ Copying \subseteq DOMAIN lines /\ Copying \subseteq 1 .. MaxLines
<1>1. TypeOK /\ Counted /\ Tiled /\ Writes
  BY DEF PipeInv
<1>2. Len(lines) \in Nat /\ DOMAIN lines = 1 .. Len(lines) /\ start + len \in Nat
      /\ Capacity \in Nat /\ MaxLines \in Nat /\ Len(lines) <= MaxLines
  BY <1>1, LineTypes DEF Tiled
<1>3. start + len <= Len(lines) * Capacity
  <2>1. CASE lines = <<>>
    <3>1. Len(lines) = 0 /\ 0 * Capacity = 0
      BY <1>2, <2>1
    <3> QED BY <1>1, <2>1, <3>1 DEF Counted
  <2>2. CASE lines # <<>>
    <3>1. Len(lines) \in DOMAIN lines
      BY <1>1, <1>2, <2>2 DEF TypeOK
    <3> QED BY <1>1, <2>2, <3>1 DEF Counted, Tiled
  <2> QED BY <2>1, <2>2
<1>4. start + len \in Offsets
  <2>1. Len(lines) * Capacity \in Nat /\ MaxLines * Capacity \in Nat
        /\ Len(lines) * Capacity <= MaxLines * Capacity
    BY <1>2, TimesMonotonic
  <2> QED BY <1>2, <1>3, <2>1 DEF Offsets
<1>5. \A w \in Writing : write[w].line \in DOMAIN lines
  BY <1>1 DEF Writes
<1>6. Copying \subseteq DOMAIN lines
  BY <1>5 DEF Copying, Writing
<1>7. DOMAIN lines \subseteq 1 .. MaxLines
  BY <1>2
<1> QED BY <1>2, <1>3, <1>4, <1>6, <1>7

\* Whether the cache is flushed or not, the room that is given out grows by
\* the size, and what is in the chunks then is whole or late.
LEMMA MarkUsedStep ==
  ASSUME PipeInv, logging, NEW size \in Sizes, MarkUsed(size), file' = file
  PROVE  /\ queue' \in Seq(Seq(Bytes)) /\ pc' \in Pcs
         /\ start' \in Nat /\ len' \in Nat /\ size <= len' /\ len' <= Capacity
         /\ start' + len' = (start + len) + size /\ start' <= start + len
         /\ Len(Flushed)' = start'
         /\ late \subseteq late' /\ late' \subseteq late \cup Copying
         /\ \A i \in DOMAIN lines : End(i) <= start' \/ start' <= lines[i].at
         /\ \A i \in DOMAIN lines : start' <= lines[i].at => start' = start /\ late' = late
         /\ \A i \in Copying : i \notin late' => start' = start
         /\ \A i \in DOMAIN lines : End(i) <= start' /\ i \notin late' \cup hit =>
              \A k \in 1 .. lines[i].size : (Flushed')[lines[i].at + k] = Byte(i, k)
<1>1. /\ TypeOK /\ start \in Nat /\ len \in Nat /\ len <= Capacity /\ Capacity \in Nat
      /\ size \in Nat /\ size > 0 /\ size <= Capacity
      /\ queue \in Seq(Seq(Bytes)) /\ pc \in Pcs
  BY LineTypes, SizesFit DEF PipeInv, TypeOK, Pcs
<1>2. \A i \in DOMAIN lines :
        /\ lines[i].at \in Nat /\ lines[i].size \in Nat /\ lines[i].size > 0
        /\ End(i) = lines[i].at + lines[i].size /\ End(i) <= start + len
        /\ End(i) <= start \/ start <= lines[i].at
  BY <1>1, LineTypes DEF PipeInv, Tiled
<1>3. CASE len + size > Capacity
  <2>1. FlushNoLock(size)
    BY <1>3 DEF MarkUsed
  <2>2. /\ queue' \in Seq(Seq(Bytes)) /\ pc' \in Pcs /\ Flushed' = Output
        /\ start' = start + len /\ late' = late \cup Copying /\ len' = size
    BY <2>1, FlushNoLockStep
  <2>3. IntactUnlessLate /\ Len(Output) = start + len
    BY OutputIntact
  <2>4. \A i \in DOMAIN lines : i \notin late' \cup hit =>
          \A k \in 1 .. lines[i].size : (Flushed')[lines[i].at + k] = Byte(i, k)
    BY <2>2, <2>3 DEF IntactUnlessLate
  <2>5. ASSUME NEW i \in DOMAIN lines
        PROVE  ~(start' <= lines[i].at) /\ End(i) <= start'
    <3>1. PICK a \in Nat, n \in Nat : a = lines[i].at /\ n = lines[i].size
      BY <1>2
    <3>2. PICK z \in Nat : z = start + len
      BY <1>1
    <3>3. n > 0 /\ a + n <= z /\ End(i) = a + n
      BY <1>2, <3>1, <3>2
    <3>4. ~(z <= a)
      BY ONLY <3>1, <3>2, <3>3
    <3> QED BY <2>2, <3>1, <3>2, <3>3, <3>4
  <2> QED BY <1>1, <2>2, <2>3, <2>4, <2>5
<1>4. CASE ~(len + size > Capacity)
  <2>1. len' = len + size /\ UNCHANGED <<queue, pc, start, late>>
    BY <1>4 DEF MarkUsed
  <2>2. Flushed' = Flushed /\ Len(Flushed) = start
    BY <2>1 DEF Flushed, PipeInv, Counted
  <2>3. \A i \in DOMAIN lines : End(i) <= start /\ i \notin late \cup hit =>
          \A k \in 1 .. lines[i].size : Flushed[lines[i].at + k] = Byte(i, k)
    BY DEF PipeInv, InChunks
  <2> QED BY <1>1, <1>2, <1>4, <2>1, <2>2, <2>3
<1> QED BY <1>3, <1>4

LEMMA PrintLogLnStep ==
  ASSUME PipeInv, NEW w \in Writers, PrintLogLn(w)
  PROVE  PipeInv'
<1> DEFINE n == Len(lines)
           at == start + len
<1>0. PICK i0 \in Nat : i0 = n + 1
  BY LineTypes DEF PipeInv
<1>1. PICK size \in Sizes :
        /\ MarkUsed(size)
        /\ lines' = Append(lines, [at |-> start' + len' - size, size |-> size])
        /\ write' = [write EXCEPT ![w] =
                       [line |-> Len(lines'), at |-> len' - size, copied |-> 0]]
  BY DEF PrintLogLn
<1>2. /\ phase = "used" /\ write[w] = None /\ n < MaxLines
      /\ UNCHANGED <<cache, file, ready, logging, phase, hit>>
  BY DEF PrintLogLn
<1>3. /\ TypeOK /\ n \in Nat /\ DOMAIN lines = 1 .. n /\ start \in Nat /\ len \in Nat
      /\ at \in Nat /\ Capacity \in Nat /\ MaxLines \in Nat /\ logging
      /\ size \in Nat /\ size > 0 /\ size <= Capacity /\ i0 = n + 1
  BY <1>0, <1>2, LineTypes, SizesFit, Room DEF PipeInv, Phases
<1>4. /\ queue' \in Seq(Seq(Bytes)) /\ pc' \in Pcs
      /\ start' \in Nat /\ len' \in Nat /\ size <= len' /\ len' <= Capacity
      /\ start' + len' = at + size /\ start' <= at
      /\ Len(Flushed)' = start'
      /\ late \subseteq late' /\ late' \subseteq late \cup Copying
      /\ \A i \in DOMAIN lines : End(i) <= start' \/ start' <= lines[i].at
      /\ \A i \in DOMAIN lines : start' <= lines[i].at => start' = start /\ late' = late
      /\ \A i \in Copying : i \notin late' => start' = start
      /\ \A i \in DOMAIN lines : End(i) <= start' /\ i \notin late' \cup hit =>
           \A k \in 1 .. lines[i].size : (Flushed')[lines[i].at + k] = Byte(i, k)
  BY <1>1, <1>2, <1>3, MarkUsedStep
<1>a. /\ n \in Nat /\ n < MaxLines /\ i0 = n + 1 /\ MaxLines \in Nat /\ Capacity \in Nat
      /\ at \in Nat /\ size \in Nat /\ size > 0 /\ size <= Capacity
      /\ start' \in Nat /\ len' \in Nat /\ size <= len' /\ len' <= Capacity
      /\ start' + len' = at + size /\ start' <= at
  BY <1>2, <1>3, <1>4
<1>b. /\ at <= n * Capacity /\ at \in Offsets
      /\ \A i \in 1 .. n : /\ End(i) \in Nat /\ End(i) <= at /\ End(i) <= i * Capacity
                         /\ lines[i].at \in Nat
  BY <1>3, Room, LineTypes DEF PipeInv, Tiled
<1> DEFINE r == [at |-> at, size |-> size]
           u == [line |-> i0, at |-> len' - size, copied |-> 0]
<1>5. start' + len' - size = at /\ len' - size \in Nat /\ start' + (len' - size) = at
      /\ len' - size + size <= Capacity /\ len' - size \in 0 .. Capacity /\ 0 \in 0 .. Capacity
      /\ ~(at + size <= start') /\ at <= start' + len' /\ start' + len' \in Nat
  <2>1. PICK s \in Nat : s = start'
    BY <1>a
  <2>2. PICK l \in Nat : l = len'
    BY <1>a
  <2>3. PICK c \in Nat : c = at
    BY <1>a
  <2>4. size \in Nat /\ size > 0 /\ Capacity \in Nat
        /\ size <= l /\ l <= Capacity /\ s + l = c + size /\ s <= c
    BY <1>a, <2>1, <2>2, <2>3
  <2>5. /\ s + l - size = c /\ l - size \in Nat /\ s + (l - size) = c
        /\ l - size + size <= Capacity /\ l - size \in 0 .. Capacity /\ 0 \in 0 .. Capacity
        /\ ~(c + size <= s) /\ c <= s + l /\ s + l \in Nat
    BY ONLY <2>4
  <2> QED BY <2>1, <2>2, <2>3, <2>5
<1>6. /\ Len(lines') = i0 /\ DOMAIN lines' = 1 .. i0 /\ lines'[i0] = r /\ lines' # <<>>
      /\ \A i \in 1 .. n : lines'[i] = lines[i]
      /\ lines' \in Seq([at : Offsets, size : Sizes])
  <2> DEFINE R == [at : Offsets, size : Sizes]
  <2>1. lines' = Append(lines, r)
    BY <1>1, <1>5
  <2>2. r \in R /\ lines \in Seq(R)
    BY <1>3, Room DEF TypeOK
  <2> HIDE DEF R, r
  <2>3. /\ Len(lines') = i0 /\ DOMAIN lines' = 1 .. i0 /\ lines'[i0] = r /\ lines' # <<>>
        /\ \A i \in 1 .. n : lines'[i] = lines[i]
        /\ lines' \in Seq(R)
    BY <1>0, <2>1, <2>2
  <2> QED BY <2>3 DEF R
<1>7. write' = [write EXCEPT ![w] = u]
  BY <1>1, <1>6
<1> HIDE DEF n, at
<1>8. /\ u \in [line : 1 .. MaxLines, at : 0 .. Capacity, copied : 0 .. Capacity]
      /\ u # None
  <2>1. i0 \in 1 .. MaxLines
    BY <1>a
  <2>2. u \in [line : Nat, at : Nat, copied : Nat]
    BY <1>3, <1>5
  <2> QED BY <1>5, <2>1, <2>2, LogAssumption
<1>9. /\ Writing' = Writing \cup {w} /\ w \notin Writing /\ write'[w] = u
      /\ \A v \in Writing : write'[v] = write[v]
  BY <1>2, <1>3, <1>7, <1>8 DEF Writing, TypeOK
<1>10. /\ (End(i0))' = at + size
       /\ \A i \in 1 .. n : (End(i))' = End(i)
  BY <1>3, <1>6 DEF End
<1> HIDE DEF r, u
<1>11. i0 \in DOMAIN lines' /\ \A i \in DOMAIN lines' : i \in 1 .. n \/ i = i0
  BY <1>3, <1>6
<1>12. TypeOK'
  <2>1. cache' \in [1 .. Capacity -> Bytes] /\ len' \in 0 .. Capacity
    BY <1>2, <1>3, <1>4 DEF TypeOK
  <2>2. write' \in [Writers -> [line : 1 .. MaxLines, at : 0 .. Capacity,
                                copied : 0 .. Capacity] \cup {None}]
    BY <1>3, <1>7, <1>8 DEF TypeOK
  <2>3. start' \in Offsets
    BY <1>3, <1>a, <1>b DEF Offsets
  <2>4. late' \cup hit' \subseteq 1 .. MaxLines
    BY <1>2, <1>3, <1>4, Room DEF TypeOK
  <2>5. /\ file' \in Seq(Bytes) /\ {ready', logging'} \subseteq BOOLEAN
        /\ phase' \in {"making", "used", "stop", "join", "drain", "closed", "crashed"}
    BY <1>2, <1>3 DEF TypeOK
  <2> QED BY <1>4, <1>6, <2>1, <2>2, <2>3, <2>4, <2>5 DEF TypeOK, Pcs
<1>13. Phases'
  BY <1>2 DEF PipeInv, Phases
<1>14. Counted'
  BY <1>4, <1>6, <1>10 DEF Counted
<1>15. Tiled'
  <2>2. ASSUME NEW i \in DOMAIN lines'
        PROVE  /\ (End(i))' <= i * Capacity /\ (End(i))' <= start' + len'
               /\ (End(i))' <= start' \/ start' <= lines'[i].at
    <3>1. CASE i \in 1 .. n
      <4>1. End(i) <= start' \/ start' <= lines[i].at
        BY <1>3, <1>4, <3>1
      <4>2. (End(i))' = End(i) /\ lines'[i] = lines[i]
        BY <1>6, <1>10, <3>1
      <4>3. End(i) <= i * Capacity /\ End(i) \in Nat /\ End(i) <= at
        BY <1>b, <3>1
      <4>4. End(i) <= start' + len'
        <5>1. PICK e \in Nat : e = End(i)
          BY <4>3
        <5>2. PICK c \in Nat : c = at
          BY <1>a
        <5>3. PICK d \in Nat : d = start' + len'
          BY <1>5
        <5>4. e <= c /\ c <= d
          BY <1>5, <4>3, <5>1, <5>2, <5>3
        <5>5. e <= d
          BY ONLY <5>4
        <5> QED BY <5>1, <5>3, <5>5
      <4> QED BY <4>1, <4>2, <4>3, <4>4
    <3>2. CASE i = i0
      <4>1. at <= n * Capacity /\ n * Capacity \in Nat /\ i0 * Capacity = n * Capacity + Capacity
        BY <1>a, <1>b
      <4>2. lines'[i0].at = at
        BY <1>6 DEF r
      <4>3. (End(i))' = at + size /\ lines'[i].at = at
        BY <1>10, <3>2, <4>2
      <4>4. at + size <= i * Capacity
        BY <1>a, <3>2, <4>1
      <4>5. at + size = start' + len' /\ start' <= at /\ start' + len' \in Nat
        BY <1>a, <1>5
      <4>6. (End(i))' <= start' + len'
        BY <4>3, <4>5
      <4> QED BY <4>3, <4>4, <4>5, <4>6
    <3> QED BY <1>11, <3>1, <3>2
  <2>3. ASSUME NEW i \in DOMAIN lines', NEW j \in DOMAIN lines', i < j
        PROVE  (End(i))' <= lines'[j].at
    <3>1. i \in 1 .. n
      BY <1>3, <1>6, <2>3
    <3>2. CASE j \in 1 .. n
      <4>1. End(i) <= lines[j].at
        BY <1>3, <2>3, <3>1, <3>2 DEF PipeInv, Tiled
      <4> QED BY <1>6, <1>10, <3>1, <3>2, <4>1
    <3>3. CASE j = i0
      <4>1. lines'[i0].at = at
        BY <1>6 DEF r
      <4> QED BY <1>10, <1>b, <3>1, <3>3, <4>1
    <3> QED BY <1>11, <3>2, <3>3
  <2>4. Len(lines') <= MaxLines
    BY <1>2, <1>3, <1>6
  <2> QED BY <2>2, <2>3, <2>4 DEF Tiled
<1>16. Writes'
  <2> SUFFICES ASSUME NEW v \in Writing'
               PROVE  LET i == write'[v].line IN
                        /\ phase' = "used"
                        /\ i \in DOMAIN lines'
                        /\ write'[v].copied < lines'[i].size
                        /\ write'[v].at + lines'[i].size <= Capacity
                        /\ i \notin late' => lines'[i].at = start' + write'[v].at
                        /\ \A z \in Writing' : write'[z].line = i => z = v
    BY DEF Writes
  <2>1. \A z \in Writing : write[z].line \in 1 .. n /\ write[z].line # i0
    BY <1>3 DEF PipeInv, Writes
  <2>2. write'[w].line = i0
    BY <1>9 DEF u
  <2>3. CASE v \in Writing
    <3> DEFINE i == write[v].line
    <3>1. /\ write'[v] = write[v] /\ i \in 1 .. n /\ i # i0 /\ lines'[i] = lines[i]
      BY <1>6, <1>9, <2>1, <2>3
    <3>2. /\ write[v].copied < lines[i].size /\ write[v].at + lines[i].size <= Capacity
          /\ i \notin late => lines[i].at = start + write[v].at
          /\ \A z \in Writing : write[z].line = i => z = v
      BY <2>3 DEF PipeInv, Writes
    <3>3. i \in Copying
      BY <2>3 DEF Copying, Writing
    <3>4. i \notin late' => lines[i].at = start' + write[v].at
      BY <1>4, <3>2, <3>3
    <3>5. \A z \in Writing' : write'[z].line = i => z = v
      BY <1>9, <2>2, <3>1, <3>2
    <3>6. i \in DOMAIN lines'
      BY <1>3, <1>6, <3>1
    <3> HIDE DEF i
    <3> QED BY <1>2, <3>1, <3>2, <3>4, <3>5, <3>6 DEF i
  <2>4. CASE v = w
    <3>1. /\ write'[v].line = i0 /\ write'[v].at = len' - size /\ write'[v].copied = 0
          /\ lines'[i0].size = size /\ lines'[i0].at = at
      BY <1>6, <1>9, <2>4 DEF r, u
    <3>2. \A z \in Writing' : write'[z].line = i0 => z = v
      BY <1>9, <2>1, <2>4
    <3> QED BY <1>2, <1>3, <1>5, <1>11, <3>1, <3>2
  <2> QED BY <1>9, <2>3, <2>4
<1>17. InChunks'
  <2> SUFFICES ASSUME NEW i \in DOMAIN lines', (End(i))' <= start', i \notin late' \cup hit',
                      NEW k \in 1 .. lines'[i].size
               PROVE  (Flushed')[lines'[i].at + k] = Byte(i, k)
    BY DEF InChunks, Byte
  <2>1. i # i0
    BY <1>3, <1>4, <1>10
  <2>2. i \in 1 .. n /\ lines'[i] = lines[i] /\ (End(i))' = End(i)
    BY <1>6, <1>10, <1>11, <2>1
  <2> QED BY <1>2, <1>3, <1>4, <2>2
<1>18. InCache'
  <2> SUFFICES ASSUME NEW i \in DOMAIN lines', start' <= lines'[i].at,
                      i \notin late' \cup hit',
                      NEW k \in 1 .. lines'[i].size, Copied(i, k)'
               PROVE  cache'[(lines'[i].at - start') + k] = Byte(i, k)
    BY DEF InCache, Byte
  <2>1. CASE i = i0
    <3>1. k <= write'[w].copied
      BY <1>9, <2>1 DEF Copied, u
    <3>2. write'[w].copied = 0 /\ lines'[i].size = size
      BY <1>6, <1>9, <2>1 DEF u, r
    <3> QED BY <1>3, <3>1, <3>2
  <2>2. CASE i \in 1 .. n
    <3>1. lines'[i] = lines[i] /\ start' = start /\ late' = late
      BY <1>3, <1>4, <1>6, <2>2
    <3>2. Copied(i, k)
      BY <1>9 DEF Copied
    <3>3. cache[(lines[i].at - start) + k] = Byte(i, k)
      BY <1>2, <1>3, <2>2, <3>1, <3>2 DEF PipeInv, InCache
    <3> QED BY <1>2, <3>1, <3>3
  <2> QED BY <1>11, <2>1, <2>2
<1>19. HitByLate'
  BY <1>2, <1>4 DEF PipeInv, HitByLate
<1> QED BY <1>12, <1>13, <1>14, <1>15, <1>16, <1>17, <1>18, <1>19 DEF PipeInv

------------------------------------------------------------------------------
(* A byte is copied *)

LEMMA CopyByteStep ==
  ASSUME PipeInv, NEW w \in Writers, CopyByte(w)
  PROVE  PipeInv'
<1>1. w \in Writing
  BY DEF CopyByte, Writing
<1>2. PICK i \in DOMAIN lines : i = write[w].line
  BY <1>1 DEF PipeInv, Writes
<1>3. PICK at \in Nat : at = write[w].at
  BY <1>1, LineTypes DEF PipeInv
<1>4. PICK k \in Nat : k = write[w].copied + 1
  BY <1>1, LineTypes DEF PipeInv
<1> DEFINE p == at + k
           size == lines[i].size
           u == [write[w] EXCEPT !.copied = k]
<1>5. /\ cache' = [cache EXCEPT ![p] = Byte(i, k)]
      /\ hit' = IF p <= len THEN hit \cup (Owners(p) \ {i}) ELSE hit
      /\ write' = [write EXCEPT ![w] = IF k = size THEN None ELSE u]
      /\ UNCHANGED <<len, queue, file, ready, logging, pc, phase, lines, start, late>>
  BY <1>2, <1>3, <1>4 DEF CopyByte, fileVars
<1>6. /\ TypeOK /\ start \in Nat /\ len \in Nat /\ len <= Capacity /\ Capacity \in Nat
      /\ MaxLines \in Nat /\ DOMAIN lines = 1 .. Len(lines) /\ Len(lines) \in Nat
      /\ size \in Nat /\ size <= Capacity /\ i \in 1 .. MaxLines
  BY <1>2, <1>1, LineTypes DEF PipeInv
<1>7. /\ phase = "used" /\ k <= size /\ k > 0 /\ at + size <= Capacity
      /\ i \notin late => lines[i].at = start + at
      /\ \A v \in Writing : write[v].line = i => v = w
  <2>1. /\ phase = "used" /\ write[w].copied < size /\ at + size <= Capacity
        /\ i \notin late => lines[i].at = start + at
        /\ \A v \in Writing : write[v].line = i => v = w
    BY <1>1, <1>2, <1>3 DEF PipeInv, Writes
  <2>2. write[w].copied \in Nat
    BY <1>1, <1>6, LineTypes
  <2> QED BY <1>4, <1>6, <2>1, <2>2
<1>8. p \in 1 .. Capacity
  BY <1>6, <1>7
<1>9. /\ write[w] \in [line : 1 .. MaxLines, at : 0 .. Capacity, copied : 0 .. Capacity]
      /\ u \in [line : 1 .. MaxLines, at : 0 .. Capacity, copied : 0 .. Capacity]
      /\ u.line = i /\ u.at = at /\ u.copied = k /\ u # None
  <2>1. write[w] \in [line : 1 .. MaxLines, at : 0 .. Capacity, copied : 0 .. Capacity]
    BY <1>1, <1>6 DEF TypeOK, Writing
  <2>2. k \in 0 .. Capacity
    BY <1>6, <1>7
  <2>3. /\ u \in [line : 1 .. MaxLines, at : 0 .. Capacity, copied : 0 .. Capacity]
        /\ u.line = i /\ u.at = at /\ u.copied = k
    BY <1>2, <1>3, <2>1, <2>2
  <2>4. u \in [line : Nat, at : Nat, copied : Nat]
    <3> HIDE DEF u
    <3> QED BY <1>6, <2>3
  <2> QED BY <2>1, <2>3, <2>4, LogAssumption
<1> HIDE DEF u
<1>10. /\ \A v \in Writing' : v \in Writing /\ (v # w => write'[v] = write[v])
       /\ \A v \in Writing : v # w => v \in Writing' /\ write'[v] = write[v]
       /\ w \in Writing' => write'[w] = u /\ k # size
       /\ k # size => w \in Writing'
  <2>1. /\ write' \in [Writers -> [line : 1 .. MaxLines, at : 0 .. Capacity,
                                  copied : 0 .. Capacity] \cup {None}]
        /\ write'[w] = IF k = size THEN None ELSE u
        /\ \A v \in Writers : v # w => write'[v] = write[v]
    BY <1>5, <1>6, <1>9 DEF TypeOK
  <2> QED BY <1>1, <1>9, <2>1 DEF Writing
<1>11. /\ (Flushed)' = Flushed /\ \A j \in DOMAIN lines : (End(j))' = End(j)
       /\ hit \subseteq hit' /\ hit' \subseteq hit \cup DOMAIN lines
       /\ \A j \in DOMAIN lines : p <= len /\ j \in Owners(p) /\ j # i => j \in hit'
  BY <1>5 DEF Flushed, End, Owners
<1>12. TypeOK'
  <2>1. Byte(i, k) \in Bytes
    <3>1. i \in 0 .. MaxLines /\ k \in 0 .. Capacity
      BY <1>6, <1>7
    <3> QED BY <3>1 DEF Bytes
  <2>2. cache' \in [1 .. Capacity -> Bytes]
    BY <1>5, <1>6, <1>8, <2>1 DEF TypeOK
  <2>3. write' \in [Writers -> [line : 1 .. MaxLines, at : 0 .. Capacity,
                                copied : 0 .. Capacity] \cup {None}]
    BY <1>5, <1>6, <1>9 DEF TypeOK
  <2>4. late' \cup hit' \subseteq 1 .. MaxLines
    <3>1. DOMAIN lines \subseteq 1 .. MaxLines
      BY <1>6 DEF PipeInv, Tiled
    <3> QED BY <1>5, <1>6, <1>11, <3>1 DEF TypeOK
  <2> QED BY <1>5, <1>6, <2>2, <2>3, <2>4 DEF TypeOK
<1>13. Phases' /\ Counted' /\ Tiled'
  BY <1>5, <1>6, <1>11 DEF PipeInv, Phases, Counted, Tiled, End
<1>14. Writes'
  <2> SUFFICES ASSUME NEW v \in Writing'
               PROVE  LET j == write'[v].line IN
                        /\ phase = "used"
                        /\ j \in DOMAIN lines
                        /\ write'[v].copied < lines[j].size
                        /\ write'[v].at + lines[j].size <= Capacity
                        /\ j \notin late => lines[j].at = start + write'[v].at
                        /\ \A z \in Writing' : write'[z].line = j => z = v
    BY <1>5 DEF Writes
  <2>1. write'[v].line = write[v].line /\ write'[v].at = write[v].at /\ v \in Writing
    BY <1>2, <1>3, <1>9, <1>10
  <2>2. \A z \in Writing' : z \in Writing /\ write'[z].line = write[z].line
    BY <1>2, <1>9, <1>10
  <2>3. write'[v].copied < lines[write[v].line].size
    <3>1. CASE v = w
      BY <1>2, <1>6, <1>7, <1>9, <1>10, <3>1
    <3>2. CASE v # w
      BY <1>10, <2>1, <3>2 DEF PipeInv, Writes
    <3> QED BY <3>1, <3>2
  <2> QED BY <2>1, <2>2, <2>3 DEF PipeInv, Writes
<1>15. InChunks'
  BY <1>5, <1>11 DEF PipeInv, InChunks, Byte
<1>16. InCache'
  <2> SUFFICES ASSUME NEW j \in DOMAIN lines, start <= lines[j].at, j \notin late \cup hit',
                      NEW m \in 1 .. lines[j].size, Copied(j, m)'
               PROVE  cache'[(lines[j].at - start) + m] = Byte(j, m)
    BY <1>5 DEF InCache, Byte
  <2>1. /\ lines[j].at \in Nat /\ lines[j].size \in Nat /\ m \in Nat /\ m > 0 /\ m <= lines[j].size
        /\ End(j) = lines[j].at + lines[j].size /\ End(j) <= start + len
    <3>1. TypeOK /\ Tiled
      BY DEF PipeInv
    <3>2. /\ lines[j].at \in Nat /\ lines[j].size \in Nat
          /\ End(j) = lines[j].at + lines[j].size
      BY <3>1, LineTypes
    <3>3. End(j) <= start + len
      BY <3>1 DEF Tiled
    <3> QED BY <3>2, <3>3
  <2> DEFINE q == (lines[j].at - start) + m
  <2>2. /\ q \in 1 .. len /\ q \in 1 .. Capacity /\ start + q = lines[j].at + m
        /\ lines[j].at < start + q /\ start + q <= lines[j].at + lines[j].size /\ q <= len
    <3>1. PICK a \in Nat : a = lines[j].at
      BY <2>1
    <3>2. PICK s \in Nat : s = start
      BY <1>6
    <3>3. PICK n \in Nat : n = lines[j].size
      BY <2>1
    <3>4. PICK l \in Nat : l = len
      BY <1>6
    <3>5. /\ s <= a /\ a + n <= s + l /\ m \in Nat /\ m > 0 /\ m <= n /\ l <= Capacity
          /\ Capacity \in Nat
      BY <1>6, <2>1, <3>1, <3>2, <3>3, <3>4
    <3>6. /\ (a - s) + m \in 1 .. l /\ (a - s) + m \in 1 .. Capacity
          /\ s + ((a - s) + m) = a + m
          /\ a < s + ((a - s) + m) /\ s + ((a - s) + m) <= a + n /\ (a - s) + m <= l
      BY ONLY <3>5
    <3>7. q = (a - s) + m
      BY <3>1, <3>2
    <3> HIDE DEF q
    <3>8. /\ q \in 1 .. l /\ q \in 1 .. Capacity /\ s + q = a + m
          /\ a < s + q /\ s + q <= a + n /\ q <= l
      BY <3>6, <3>7, Zenon
    <3> QED BY <3>1, <3>2, <3>3, <3>4, <3>8
  <2>3. Copied(j, m) => cache[q] = Byte(j, m)
    BY <1>11 DEF PipeInv, InCache
  <2>4. CASE j = i
    <3>1. q = at + m
      <4>1. PICK s \in Nat : s = start
        BY <1>6
      <4>2. lines[j].at = s + at
        BY <1>7, <2>4, <4>1
      <4>3. (s + at) - s = at
        BY ONLY <4>1
      <4> QED BY <4>1, <4>2, <4>3
    <3>2. CASE m = k
      BY <1>5, <1>6, <1>8, <2>4, <3>1, <3>2 DEF TypeOK
    <3>3. CASE m # k
      <4>1. m < k
        <5>1. CASE k = size
          BY <1>6, <2>1, <2>4, <3>3, <5>1
        <5>2. CASE k # size
          <6>1. m <= write'[w].copied /\ write'[w].copied = k
            BY <1>9, <1>10, <2>4, <5>2 DEF Copied
          <6> QED BY <2>1, <3>3, <6>1
        <5> QED BY <5>1, <5>2
      <4>2. Copied(j, m)
        <5>1. m <= write[w].copied
          <6>1. write[w].copied \in Nat
            BY <1>1, <1>6, LineTypes
          <6> QED BY <1>4, <2>1, <4>1, <6>1
        <5> QED BY <1>7, <2>4, <5>1 DEF Copied
      <4>3. q # p
        BY <2>1, <3>1, <3>3
      <4>4. cache'[q] = cache[q]
        BY <1>5, <1>6, <2>2, <4>3 DEF TypeOK
      <4> QED BY <2>3, <4>2, <4>4
    <3> QED BY <3>2, <3>3
  <2>5. CASE j # i
    <3>1. q # p
      <4> SUFFICES ASSUME q = p PROVE FALSE
        OBVIOUS
      <4>1. lines[j].at < start + p /\ start + p <= lines[j].at + lines[j].size /\ p <= len
        BY <2>2
      <4> QED BY <1>11, <2>5, <4>1 DEF Owners
    <3>2. cache'[q] = cache[q]
      BY <1>5, <1>6, <2>2, <3>1 DEF TypeOK
    <3>3. Copied(j, m)
      BY <1>2, <1>10, <2>5 DEF Copied
    <3> QED BY <2>3, <3>2, <3>3
  <2> QED BY <2>4, <2>5
<1>17. HitByLate'
  <2> SUFFICES ASSUME i \notin late PROVE hit' = hit
    BY <1>5 DEF PipeInv, HitByLate
  <2> SUFFICES ASSUME NEW j \in Owners(p), j # i PROVE FALSE
    BY <1>5
  <2>1. j \in DOMAIN lines /\ lines[j].at < start + p /\ start + p <= lines[j].at + lines[j].size
    BY DEF Owners
  <2>2. /\ lines[i].at = start + at /\ lines[i].at \in Nat /\ lines[j].at \in Nat
        /\ lines[j].size \in Nat /\ End(i) = lines[i].at + size
        /\ End(j) = lines[j].at + lines[j].size
    BY <1>6, <1>7, <2>1, LineTypes
  <2>3. End(i) <= lines[j].at \/ End(j) <= lines[i].at
    <3>1. i < j \/ j < i
      BY <1>6, <2>1
    <3> QED BY <2>1, <3>1 DEF PipeInv, Tiled
  <2>4. PICK a \in Nat : a = lines[i].at
    BY <2>2
  <2>5. PICK b \in Nat : b = lines[j].at
    BY <2>2
  <2>6. PICK n \in Nat : n = lines[j].size
    BY <2>2
  <2>7. PICK s \in Nat : s = start
    BY <1>6
  <2>8. PICK z \in Nat : z = size
    BY <1>6
  <2>9. a = s + at /\ b < s + p /\ s + p <= b + n
    BY <2>1, <2>2, <2>4, <2>5, <2>6, <2>7
  <2>10. (a + z <= b \/ b + n <= a) /\ k <= z /\ k > 0
    BY <1>7, <2>2, <2>3, <2>4, <2>5, <2>6, <2>8
  <2> QED BY ONLY <2>9, <2>10
<1> QED BY <1>12, <1>13, <1>14, <1>15, <1>16, <1>17 DEF PipeInv

------------------------------------------------------------------------------
(* The other steps *)

LEMMA PipeInvInit == Init => PipeInv
<1> SUFFICES ASSUME Init PROVE PipeInv
  OBVIOUS
<1>1. Capacity \in Nat /\ MaxLines \in Nat /\ MaxLines * Capacity \in Nat
  BY LogAssumption
<1>2. TypeOK
  <2>1. Blank \in Bytes /\ 0 \in Offsets /\ 0 \in 0 .. Capacity
    BY <1>1 DEF Blank, Bytes, Offsets
  <2>2. /\ cache \in [1 .. Capacity -> Bytes] /\ len \in 0 .. Capacity
        /\ write \in [Writers -> [line : 1 .. MaxLines, at : 0 .. Capacity,
                                 copied : 0 .. Capacity] \cup {None}]
    BY <2>1 DEF Init
  <2>3. queue \in Seq(Seq(Bytes)) /\ file \in Seq(Bytes)
        /\ lines \in Seq([at : Offsets, size : Sizes])
    BY EmptySeq DEF Init
  <2>4. /\ {ready, logging} \subseteq BOOLEAN
        /\ pc \in {"top", "lock", "test", "doze", "asleep", "done"}
        /\ phase \in {"making", "used", "stop", "join", "drain", "closed", "crashed"}
        /\ start \in Offsets /\ late \cup hit \subseteq 1 .. MaxLines
    BY <2>1 DEF Init
  <2> QED BY <2>2, <2>3, <2>4 DEF TypeOK
<1>3. Phases
  BY DEF Init, Phases
<1>4. Counted
  <2>1. Flushed = <<>> \o <<>>
    BY FlattenEmpty DEF Init, Flushed
  <2>2. Len(<<>> \o <<>>) = 0
    OBVIOUS
  <2> QED BY <2>1, <2>2 DEF Init, Counted
<1>5. Writing = {}
  BY DEF Init, Writing
<1>6. DOMAIN lines = {} /\ Len(lines) = 0
  BY DEF Init
<1> QED BY <1>1, <1>2, <1>3, <1>4, <1>5, <1>6
        DEF Init, PipeInv, Tiled, Writes, InChunks, InCache, HitByLate

\* A step that neither logs nor flushes.
LEMMA QuietStep ==
  ASSUME PipeInv, TypeOK', Phases', Flushed' = Flushed, phase = "used" => phase' = "used",
         UNCHANGED <<cache, len, write, lines, start, late, hit>>
  PROVE  PipeInv'
<1>1. Counted' /\ Tiled' /\ HitByLate'
  BY DEF PipeInv, Counted, Tiled, End, HitByLate
<1>2. Writes'
  BY DEF PipeInv, Writes, Writing
<1>3. InChunks'
  BY DEF PipeInv, InChunks, End, Byte
<1>4. InCache'
  BY DEF PipeInv, InCache, Copied, Writing, Byte
<1> QED BY <1>1, <1>2, <1>3, <1>4 DEF PipeInv

LEMMA FlushSafelyStep ==
  ASSUME PipeInv, FlushSafely
  PROVE  PipeInv'
<1>1. /\ phase = "used" /\ phase' = "stop" /\ Writing = {} /\ FlushNoLock(0)
      /\ UNCHANGED <<cache, write, file, ready, logging, lines, hit>> /\ logging
  BY DEF FlushSafely, Writing, PipeInv, Phases
<1>2. /\ queue' \in Seq(Seq(Bytes)) /\ pc' \in Pcs /\ Flushed' = Output
      /\ start' = start + len /\ late' = late \cup Copying /\ len' = 0
  BY <1>1, FlushNoLockStep
<1>3. Copying = {} /\ Writing' = {} /\ late' = late
  BY <1>1, <1>2 DEF Copying, Writing
<1>4. TypeOK /\ start \in Nat /\ len \in Nat /\ start + len \in Offsets /\ Capacity \in Nat
  BY LineTypes, Room DEF PipeInv
<1>5. \A i \in DOMAIN lines :
        /\ lines[i].at \in Nat /\ lines[i].size \in Nat /\ lines[i].size > 0 /\ End(i) \in Nat
        /\ End(i) = lines[i].at + lines[i].size /\ End(i) <= start + len
  BY <1>4, LineTypes DEF PipeInv, Tiled
<1>6. TypeOK'
  <2>1. len' \in 0 .. Capacity
    BY <1>2, <1>4
  <2> QED BY <1>1, <1>2, <1>3, <1>4, <2>1 DEF TypeOK, Pcs
<1>7. Phases'
  BY <1>1, <1>2 DEF Phases
<1>8. start' + len' = start + len /\ start' \in Nat
  BY <1>2, <1>4
<1>9. /\ IntactUnlessLate /\ Len(Output) = start + len
  BY OutputIntact
<1>10. Counted'
  <2>1. Len(Flushed)' = start'
    BY <1>2, <1>9
  <2> QED BY <1>1, <1>8, <2>1 DEF PipeInv, Counted, End
<1>11. Tiled'
  BY <1>1, <1>2, <1>5, <1>8 DEF PipeInv, Tiled, End
<1>12. Writes'
  BY <1>3 DEF Writes
<1>13. InChunks'
  BY <1>1, <1>2, <1>3, <1>9 DEF InChunks, IntactUnlessLate, Byte
<1>14. InCache'
  <2>1. \A i \in DOMAIN lines : ~(start' <= lines[i].at)
    BY <1>2, <1>4, <1>5
  <2> QED BY <1>1, <2>1 DEF InCache
<1>15. HitByLate'
  BY <1>1, <1>3 DEF PipeInv, HitByLate
<1> QED BY <1>6, <1>7, <1>10, <1>11, <1>12, <1>13, <1>14, <1>15 DEF PipeInv

LEMMA PipeInvNext == PipeInv /\ [Next]_vars => PipeInv'
<1> SUFFICES ASSUME PipeInv, [Next]_vars PROVE PipeInv'
  OBVIOUS
<1> USE DEF PipeInv
<1>1. ASSUME NEW w \in Writers, PrintLogLn(w) PROVE PipeInv'
  BY <1>1, PrintLogLnStep
<1>2. ASSUME NEW w \in Writers, CopyByte(w) PROVE PipeInv'
  BY <1>2, CopyByteStep
<1>3. CASE FlushSafely
  BY <1>3, FlushSafelyStep
<1>4. ASSUME UNCHANGED <<cache, len, write, queue, file, ready, logging, phase, lines,
                         start, late, hit>>, pc' \in Pcs
      PROVE  PipeInv'
  <2>1. TypeOK' /\ Phases' /\ Flushed' = Flushed
    BY <1>4 DEF TypeOK, Phases, Flushed, Pcs
  <2> QED BY <1>4, <2>1, QuietStep
<1>5. CASE Top \/ Lock \/ Doze \/ Wait \/ Break \/ Spurious
  <2>1. /\ UNCHANGED <<cache, len, write, queue, file, ready, logging, phase, lines,
                       start, late, hit>>
        /\ pc' \in Pcs
    BY <1>5 DEF Top, Lock, Doze, Wait, Break, Spurious, Pcs
  <2> QED BY <1>4, <2>1
<1>6. CASE Process
  <2>1. TypeOK' /\ Flushed' = Flushed
    BY <1>6, ProcessStep DEF Process, TypeOK
  <2>2. Phases' /\ phase' = phase /\ UNCHANGED <<cache, len, write, lines, start, late, hit>>
    BY <1>6 DEF Process, Phases
  <2> QED BY <2>1, <2>2, QuietStep
<1>7. CASE CreateNewFile
  <2>1. ready' \in BOOLEAN
    BY <1>7, LogAssumption DEF CreateNewFile
  <2>2. TypeOK' /\ Phases' /\ Flushed' = Flushed
    BY <1>7, <2>1 DEF CreateNewFile, TypeOK, Phases, Flushed
  <2> QED BY <1>7, <2>2, QuietStep DEF CreateNewFile
<1>8. CASE Stop \/ Join \/ CloseFile
  <2>1. /\ UNCHANGED <<cache, len, write, queue, file, lines, start, late, hit>>
        /\ ready' \in BOOLEAN /\ logging' \in BOOLEAN /\ pc' \in Pcs
        /\ phase # "used" /\ phase' \in {"join", "drain", "closed"}
    BY <1>8 DEF Stop, Join, CloseFile, Notify, fileVars, TypeOK, Pcs
  <2>2. TypeOK' /\ Flushed' = Flushed
    BY <2>1 DEF TypeOK, Flushed, Pcs
  <2>3. Phases'
    BY <1>8 DEF Stop, Join, CloseFile, fileVars, Phases
  <2> QED BY <2>1, <2>2, <2>3, QuietStep
<1>9. CASE Drain
  <2>1. TypeOK' /\ Flushed' = Flushed
    <3>1. CASE ready
      BY <1>9, <3>1, ProcessStep DEF Drain, TypeOK
    <3>2. CASE ~ready
      BY <1>9, <3>2 DEF Drain, TypeOK, Flushed
    <3> QED BY <3>1, <3>2
  <2>2. Phases' /\ phase # "used" /\ UNCHANGED <<cache, len, write, lines, start, late, hit>>
    BY <1>9 DEF Drain, Phases
  <2> QED BY <2>1, <2>2, QuietStep
<1>10. CASE Ended \/ UNCHANGED vars
  <2>1. UNCHANGED vars
    BY <1>10 DEF Ended
  <2>2. TypeOK' /\ Phases' /\ Flushed' = Flushed
    BY <2>1 DEF vars, TypeOK, Phases, Flushed
  <2> QED BY <2>1, <2>2, QuietStep DEF vars
<1> QED BY <1>1, <1>2, <1>3, <1>5, <1>6, <1>7, <1>8, <1>9, <1>10 DEF Next, Looper, Destroy

------------------------------------------------------------------------------
(* Theorems *)

LEMMA PipeInvAlways == SafetySpec => []PipeInv
  BY PipeInvInit, PipeInvNext, PTL DEF SafetySpec

\* Every byte of room that append gave out is in the file, in a chunk or in the
\* cache, in the order it was given out; when the logger is gone the file has
\* all of it (SingleCache, DailyLogFile).
THEOREM BytesAccounted == SafetySpec => []LogInv
<1>1. PipeInv => LogInv
  <2> SUFFICES ASSUME PipeInv PROVE LogInv
    OBVIOUS
  <2>1. TypeOK /\ Len(Flushed) = start /\ Phases
        /\ start + len = IF lines = <<>> THEN 0 ELSE End(Len(lines))
    BY DEF PipeInv, Counted
  <2>2. phase = "closed" => Len(file) = start /\ len = 0
    <3> SUFFICES ASSUME phase = "closed" PROVE Len(file) = start /\ len = 0
      OBVIOUS
    <3>1. queue = <<>> /\ len = 0
      BY <2>1 DEF Phases
    <3>2. Flushed = file \o <<>>
      BY <3>1, FlattenEmpty DEF Flushed
    <3>3. file \in Seq(Bytes)
      BY <2>1 DEF TypeOK
    <3>4. file \o <<>> = file
      BY <3>3, ConcatEmptySeq
    <3> QED BY <2>1, <3>1, <3>2, <3>4
  <2>3. Len(file \o FlattenSeq(queue)) = start
    BY <2>1 DEF Flushed
  <2>4. start + len = IF lines = <<>> THEN 0 ELSE Last(lines).at + Last(lines).size
    BY <2>1 DEF End, Last
  <2> QED BY <2>1, <2>2, <2>3, <2>4 DEF LogInv, Accounted
<1> QED BY <1>1, PipeInvAlways, PTL

\* A line that was copied is in the output in one piece, unless a flush came
\* before its copy or such a late line was copied over it (SingleCache::append).
THEOREM LinesIntactUnlessLate == SafetySpec => []IntactUnlessLate
  BY OutputIntact, PipeInvAlways, PTL

\* As long as no flush overtook a copy no line at all is damaged.
THEOREM IntactWithoutLate == SafetySpec => [](late = {} => LinesIntact)
<1>1. PipeInv => (late = {} => LinesIntact)
  BY OutputIntact DEF PipeInv, HitByLate, IntactUnlessLate, LinesIntact
<1> QED BY <1>1, PipeInvAlways, PTL
==============================================================================
