------------------------------ MODULE MCTcpSend ------------------------------
(* Small instances of TcpSend: batches of up to three buffers, two per writev. *)
EXTENDS TcpSend
==============================================================================
