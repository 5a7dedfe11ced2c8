-------------------------- MODULE MCMessageLooper --------------------------
EXTENDS MessageLooper, TLC
Symmetry == Permutations(Posters)
============================================================================
