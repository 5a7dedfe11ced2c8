-------------------------- MODULE MCSessionManager --------------------------
EXTENDS SessionManager, TLC
CONSTANTS p1, p2, u1, u2
OneEach == {<<p1, u1>>, <<p2, u2>>}
TwoPlaces == {<<p1, u1>>, <<p2, u1>>}
TwoUsers == {<<p1, u1>>, <<p1, u2>>}
Symmetry == Permutations(Timeouts) \cup Permutations(Sessions)
=============================================================================
