-------------------------- MODULE MCMultiplexLooper --------------------------
(* Small instance of MultiplexLooper: two posting threads and the loop's own. *)
EXTENDS MultiplexLooper, TLC

CONSTANTS p1, p2, r1, r2, r3

MCPosters == {p1, p2}
MCRunnables == {r1, r2, r3}
MCTwoRunnables == {r1, r2}
Symmetry == Permutations({p1, p2}) \cup Permutations({r1, r2, r3})
==============================================================================
