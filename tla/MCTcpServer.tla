----------------------------- MODULE MCTcpServer -----------------------------
(* The server with at most one sub-loop. *)
EXTENDS TcpServer

CONSTANT l1

SubLoopSeq == <<l1>>
=============================================================================
