---------------------------- MODULE MCTcpReceive ----------------------------
(* Small instances of TcpReceive: buffers of a few bytes, a few messages.     *)
EXTENDS TcpReceive

\* Messages of 3 to 8 bytes, 43 bytes in all.  A peer that waits sends them two,
\* one, two, three and one at a time: each group is at most half a buffer of 20.
\* One that does not wait may write more than the 22 bytes that a readv takes.
Grouped == <<0, 4, 10, 18, 21, 28, 31, 35, 38, 43>>
InGroups ==
  [k \in 0 .. 9 |-> IF k < 2 THEN 2 ELSE IF k = 2 THEN 3 ELSE IF k < 5 THEN 5
                    ELSE IF k < 8 THEN 8 ELSE 9]

\* A peer that sends a message when the one before was delivered.
OneByOne ==
  [k \in 0 .. Len(Bounds) - 1 |-> IF k < Len(Bounds) - 1 THEN k + 1 ELSE k]
OneLong == <<0, 4, 10>>                \* the second is longer than half a buffer
HeaderOnly == <<0, 2, 5>>
Huge == <<0, 9, 12>>                   \* the first does not fit a signed length
==============================================================================
