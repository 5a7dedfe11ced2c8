------------------------------ MODULE VecBuffer ------------------------------
(* src/include/VecBuffer.hpp: a window of len readable bytes at offset in a   *)
(* vector of size bytes; what follows the window is writtable.  An ASSERT of  *)
(* the code is a condition of its own: a caller has it as its guard.          *)
EXTENDS Naturals

VecBuffers(n) == [offset : 0 .. n, len : 0 .. n, size : 0 .. n]

New(n) == [offset |-> 0, len |-> 0, size |-> n]

\* The assertion of the second constructor; split builds its result with it.
InVector(b) == b.offset + b.len <= b.size

WrittableSize(b) == b.size - (b.offset + b.len)
ReadableSize(b) == b.len

CanMarkWrite(b, n) == n <= WrittableSize(b)
MarkWrite(b, n) == [b EXCEPT !.len = @ + n]

MarkRead(b, n) == [b EXCEPT !.offset = @ + n, !.len = @ - n]

\* The vector grows behind the window; what is in it stays where it is.
Enlarge(b, n) == [b EXCEPT !.size = @ + n]
Ensure(b, n) == IF n + b.offset > b.size THEN [b EXCEPT !.size = n + b.offset] ELSE b

\* split: a buffer on the first n bytes, in the same vector, and what is left.
CanSplit(b, n) == n <= b.len
SplitAt(b, n) == [piece |-> [b EXCEPT !.len = n], left |-> MarkRead(b, n)]
==============================================================================
