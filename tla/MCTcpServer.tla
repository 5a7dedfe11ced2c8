----------------------------- MODULE MCTcpServer -----------------------------
(* Small instances of TcpServer: one or two loopers, one or two connections.  *)
EXTENDS TcpServer, TLC

CONSTANTS c1, c2, L1, L2

OneConn == {c1}
TwoConns == {c1, c2}
OneLooper == <<L1>>
TwoLoopers == <<L1, L2>>
Symmetry == Permutations(TwoConns)
==============================================================================
