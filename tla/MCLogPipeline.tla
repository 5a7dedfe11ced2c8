---------------------------- MODULE MCLogPipeline ----------------------------
(* Two threads log up to three lines through a cache of six bytes.  A line    *)
(* has three bytes or four, the second cut from a longer text; two short ones *)
(* fit the cache.  The file may not open.                                     *)
EXTENDS LogPipeline, TLC

\* Threads are alike; for runs without liveness.
Symmetric == Permutations(Writers)
==============================================================================
