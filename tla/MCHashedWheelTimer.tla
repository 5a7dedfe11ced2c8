------------------------ MODULE MCHashedWheelTimer ------------------------
EXTENDS HashedWheelTimer, TLC
Symmetry == Permutations(Timeouts)
===========================================================================
