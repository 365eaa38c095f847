-------------------------- MODULE MCTcpConnection --------------------------
(* TcpConnection on small instances; the .cfg files bound the messages. *)
EXTENDS TcpConnection
=============================================================================
