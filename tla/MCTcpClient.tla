----------------------------- MODULE MCTcpClient -----------------------------
(* TcpClient as it is: its instances only choose what the client code does.   *)
EXTENDS TcpClient
==============================================================================
