----------------------------- MODULE LogPipeline -----------------------------
(* src/include/Logger.hpp, src/include/SingleCache.hpp, src/LogFile.cpp: the  *)
(* lines of any thread go into one cache; a full cache is copied into a chunk *)
(* and queued; a thread of DailyLogFile writes the chunks to the file.        *)
(* Room in the cache is reserved under SingleCache::_mutex and filled after   *)
(* the mutex is free, one byte at a time.  DailyLogFile::_mutex is held by    *)
(* the looper thread while pc is "test" or "doze"; every other section under  *)
(* a mutex is one step.                                                       *)
(* A definition introduced as "Faulty" is a wrong version of the definition   *)
(* after it that a property has to reject.                                    *)
EXTENDS Integers, Sequences, SequencesExt

CONSTANTS
  Writers,       \* threads that log
  None,          \* no write in progress
  Capacity,      \* N, the bytes of the cache
  BufSize,       \* LOG_BUF_SIZE, the bytes of printLogLn's buffer
  Prefix,        \* bytes of a line's time, level and tag
  Texts,         \* results of vsnprintf that are considered
  Opens,         \* results of fopen that are considered
  MaxLines       \* bound: lines logged

\* LOG_BUF_SIZE <= N: markUsed's branch for what does not fit is not reached.
\* A tag is shorter than the buffer.
ASSUME LogAssumption ==
  /\ None \notin [line : Nat, at : Nat, copied : Nat]
  /\ Capacity \in Nat \ {0} /\ MaxLines \in Nat
  /\ BufSize \in Nat /\ Prefix \in Nat /\ Prefix < BufSize /\ BufSize <= Capacity
  /\ Texts \subseteq Int
  /\ Opens \subseteq BOOLEAN

VARIABLES
  cache,         \* _cache
  len,           \* _len
  write,         \* of a thread inside append: its line, where, bytes copied
  queue,         \* _cacheQueue
  file,          \* what was written to _file
  ready,         \* _ready, and _file is open
  logging,       \* _logging
  pc,            \* looper(): "top", "lock", "test", "doze", "asleep", "done"
  phase,         \* "making", "used", then the destructors of SingleCache and
                 \* DailyLogFile: "stop", "join", "drain", "closed", or "crashed"
  lines,         \* history: where a line has its room in the output, its size
  start,         \* history: bytes that were flushed out of the cache
  late,          \* history: lines that were flushed before they were copied
  hit            \* history: lines into whose room a late line was copied

vars == <<cache, len, write, queue, file, ready, logging, pc, phase,
          lines, start, late, hit>>
fileVars == <<queue, file, ready, logging, pc>>

Byte(i, k) == [line |-> i, part |-> k]
Blank == Byte(0, 0)

Init ==
  /\ cache = [p \in 1 .. Capacity |-> Blank] /\ len = 0
  /\ write = [w \in Writers |-> None]
  /\ queue = <<>> /\ file = <<>> /\ ready = FALSE /\ logging = TRUE
  /\ pc = "top" /\ phase = "making"
  /\ lines = <<>> /\ start = 0 /\ late = {} /\ hit = {}

------------------------------------------------------------------------------
(* DailyLogFile::flush and SingleCache::flushNoLock *)

Free == pc \notin {"test", "doze"}

\* Faulty: the looper is not notified.
NotifyNone == pc' = pc

\* _cond.notify_all
Notify == pc' = IF pc = "asleep" THEN "lock" ELSE pc

\* DailyLogFile::flush of a chunk.
Flush(chunk) ==
  /\ Free
  /\ IF logging
     THEN queue' = Append(queue, chunk) /\ Notify
     ELSE UNCHANGED <<queue, pc>>

Copying == {write[w].line : w \in {v \in Writers : write[v] # None}}

\* flushNoLock: the cache as it is now becomes a chunk; room is the number of
\* bytes that are reserved in the empty cache by the same step.
FlushNoLock(room) ==
  /\ IF len > 0 THEN Flush(SubSeq(cache, 1, len)) ELSE UNCHANGED <<queue, pc>>
  /\ start' = start + len
  /\ late' = late \cup Copying
  /\ len' = room

------------------------------------------------------------------------------
(* Threads that log *)

\* markUsed: room for size bytes, in the flushed cache if there is none left.
MarkUsed(size) ==
  IF len + size > Capacity
  THEN FlushNoLock(size)
  ELSE len' = len + size /\ UNCHANGED <<queue, pc, start, late>>

\* The bytes of a line when vsnprintf returns ret: what does not fit the buffer
\* is cut, and the last byte is the end of the line.
LineSize(ret) ==
  (IF Prefix + ret <= BufSize - 1 THEN Prefix + ret ELSE BufSize - 1) + 1

Sizes == {LineSize(ret) : ret \in {r \in Texts : r > 0}}

\* printLogLn formats a line into a buffer of its own, and append reserves its
\* room.  A line that the level mask hides, or that has no text, ends before.
PrintLogLn(w) ==
  /\ phase = "used" /\ write[w] = None /\ Len(lines) < MaxLines
  /\ \E size \in Sizes :
       /\ MarkUsed(size)
       /\ lines' = Append(lines, [at |-> start' + len' - size, size |-> size])
       /\ write' = [write EXCEPT ![w] =
                      [line |-> Len(lines'), at |-> len' - size, copied |-> 0]]
  /\ UNCHANGED <<cache, file, ready, logging, phase, hit>>

\* The lines that have their room in the cache now, at position p of it.
Owners(p) ==
  {i \in DOMAIN lines :
     lines[i].at < start + p /\ start + p <= lines[i].at + lines[i].size}

\* memcpy of append, without a lock.
CopyByte(w) ==
  /\ write[w] # None
  /\ LET i == write[w].line
         k == write[w].copied + 1
         p == write[w].at + k
     IN  /\ cache' = [cache EXCEPT ![p] = Byte(i, k)]
         /\ hit' = IF p <= len THEN hit \cup (Owners(p) \ {i}) ELSE hit
         /\ write' = [write EXCEPT ![w] =
                        IF k = lines[i].size THEN None ELSE [@ EXCEPT !.copied = k]]
  /\ UNCHANGED <<len, fileVars, phase, lines, start, late>>

------------------------------------------------------------------------------
(* The looper thread *)

Top ==
  /\ pc = "top" /\ pc' = IF logging THEN "lock" ELSE "done"
  /\ UNCHANGED <<cache, len, write, queue, file, ready, logging, phase, lines,
                 start, late, hit>>

Lock ==
  /\ pc = "lock" /\ pc' = "test"
  /\ UNCHANGED <<cache, len, write, queue, file, ready, logging, phase, lines,
                 start, late, hit>>

\* The condition of the inner loop asks for another wait.
Doze ==
  /\ pc = "test" /\ logging /\ (queue = <<>> \/ ~ready)
  /\ pc' = "doze"
  /\ UNCHANGED <<cache, len, write, queue, file, ready, logging, phase, lines,
                 start, late, hit>>

\* _cond.wait frees the mutex and sleeps in one step.
Wait ==
  /\ pc = "doze" /\ pc' = "asleep"
  /\ UNCHANGED <<cache, len, write, queue, file, ready, logging, phase, lines,
                 start, late, hit>>

\* A wakeup without notify_all.
Spurious ==
  /\ pc = "asleep" /\ pc' = "lock"
  /\ UNCHANGED <<cache, len, write, queue, file, ready, logging, phase, lines,
                 start, late, hit>>

Break ==
  /\ pc = "test" /\ ~logging /\ pc' = "done"
  /\ UNCHANGED <<cache, len, write, queue, file, ready, logging, phase, lines,
                 start, late, hit>>

\* Faulty: the newest chunk is written first.
WriteBack ==
  /\ queue # <<>> /\ file' = file \o Last(queue) /\ queue' = Front(queue)

\* processNoLock
ProcessNoLock ==
  /\ queue # <<>> /\ file' = file \o Head(queue) /\ queue' = Tail(queue)

Process ==
  /\ pc = "test" /\ logging /\ ready
  /\ ProcessNoLock
  /\ pc' = "top"
  /\ UNCHANGED <<cache, len, write, ready, logging, phase, lines, start, late, hit>>

Looper == Top \/ Lock \/ Doze \/ Wait \/ Break \/ Process

------------------------------------------------------------------------------
(* The thread that makes and destroys the logger *)

\* The constructor: createNewFile, when the looper runs already.
CreateNewFile ==
  /\ phase = "making" /\ phase' = "used"
  /\ \E opened \in Opens : ready' = opened
  /\ UNCHANGED <<cache, len, write, queue, file, logging, pc, lines, start, late, hit>>

\* ~SingleCache: flushSafely.  No thread may log any more.
FlushSafely ==
  /\ phase = "used" /\ \A w \in Writers : write[w] = None
  /\ FlushNoLock(0)
  /\ phase' = "stop"
  /\ UNCHANGED <<cache, write, file, ready, logging, lines, hit>>

\* Faulty: the flag is cleared and the looper notified without the mutex.
StopUnlocked ==
  /\ phase = "stop" /\ phase' = "join"
  /\ logging' = FALSE /\ Notify
  /\ UNCHANGED <<cache, len, write, queue, file, ready, lines, start, late, hit>>

\* ~DailyLogFile: the flag is cleared under the mutex.
Stop ==
  /\ phase = "stop" /\ phase' = "join" /\ Free
  /\ logging' = FALSE /\ Notify
  /\ UNCHANGED <<cache, len, write, queue, file, ready, lines, start, late, hit>>

Join ==
  /\ phase = "join" /\ pc = "done" /\ phase' = "drain"
  /\ UNCHANGED <<cache, len, write, fileVars, lines, start, late, hit>>

\* What the looper left; fwrite to a file that could not be opened crashes.
Drain ==
  /\ phase = "drain"
  /\ IF ready
     THEN ProcessNoLock /\ phase' = phase
     ELSE queue # <<>> /\ phase' = "crashed" /\ UNCHANGED <<queue, file>>
  /\ UNCHANGED <<cache, len, write, ready, logging, pc, lines, start, late, hit>>

\* Faulty: what the looper left is not written.
CloseAtOnce ==
  /\ phase = "drain"
  /\ ready' = FALSE /\ phase' = "closed"
  /\ UNCHANGED <<cache, len, write, queue, file, logging, pc, lines, start, late, hit>>

CloseFile ==
  /\ phase = "drain" /\ queue = <<>>
  /\ ready' = FALSE /\ phase' = "closed"
  /\ UNCHANGED <<cache, len, write, queue, file, logging, pc, lines, start, late, hit>>

Destroy == Stop \/ Join \/ Drain \/ CloseFile

Ended == phase \in {"closed", "crashed"} /\ UNCHANGED vars

Next ==
  \/ \E w \in Writers : PrintLogLn(w) \/ CopyByte(w)
  \/ Looper \/ Spurious
  \/ CreateNewFile \/ FlushSafely \/ Destroy \/ Ended

SafetySpec == Init /\ [][Next]_vars

\* Both threads go on, the mutex is weakly fair, and spurious wakeups come to
\* an end; nobody has to destroy the logger.
Spec ==
  /\ SafetySpec
  /\ WF_vars(Looper) /\ WF_vars(CreateNewFile) /\ WF_vars(Destroy)
  /\ <>[][~Spurious]_vars

------------------------------------------------------------------------------
(* Properties *)

Bytes == {Byte(i, k) : i \in 0 .. MaxLines, k \in 0 .. Capacity}
Offsets == 0 .. MaxLines * Capacity

TypeOK ==
  /\ cache \in [1 .. Capacity -> Bytes] /\ len \in 0 .. Capacity
  /\ write \in [Writers -> [line : 1 .. MaxLines, at : 0 .. Capacity,
                            copied : 0 .. Capacity] \cup {None}]
  /\ queue \in Seq(Seq(Bytes)) /\ file \in Seq(Bytes)
  /\ {ready, logging} \subseteq BOOLEAN
  /\ pc \in {"top", "lock", "test", "doze", "asleep", "done"}
  /\ phase \in {"making", "used", "stop", "join", "drain", "closed", "crashed"}
  /\ lines \in Seq([at : Offsets, size : Sizes]) /\ start \in Offsets
  /\ late \cup hit \subseteq 1 .. MaxLines

\* What is written, what is queued, and what is in the cache.
Output == file \o FlattenSeq(queue) \o SubSeq(cache, 1, len)

\* Every byte of room that was given out is in the output, once, wherever the
\* chunks are; when the logger is gone it is all in the file.
Accounted ==
  /\ Len(file \o FlattenSeq(queue)) = start
  /\ start + len = IF lines = <<>> THEN 0 ELSE Last(lines).at + Last(lines).size
  /\ phase = "closed" => Len(file) = start /\ len = 0

LogInv == TypeOK /\ Accounted

\* Once it is copied a line is in the output in one piece, in the order of its
\* reservation, unless the cache was flushed before it was copied or such a
\* late line was copied over it: no other interleaving damages a line.
IntactUnlessLate ==
  \A i \in DOMAIN lines :
    i \notin Copying \cup late \cup hit =>
      \A k \in 1 .. lines[i].size : Output[lines[i].at + k] = Byte(i, k)

\* Every line is in the output in one piece once it is copied
\* (SingleCache.hpp:39: "Flush cache to output stream thread safely.").
LinesIntact ==
  \A i \in DOMAIN lines :
    i \notin Copying =>
      \A k \in 1 .. lines[i].size : Output[lines[i].at + k] = Byte(i, k)

\* What was flushed gets into the file of a logger that could open it, also
\* when the looper slept, or did not sleep yet, and when nobody destroys it.
FlushedIsWritten ==
  \A n \in 1 .. MaxLines * Capacity : start >= n ~> Len(file) >= n \/ ~ready

\* The destructor returns: the looper does not miss that it has to end.
CloseReturns == phase = "stop" ~> phase \in {"closed", "crashed"}
==============================================================================
