----------------------------- MODULE MCTcpServer -----------------------------
(* Model-checking instance of TcpServer; everything is in the configuration. *)
EXTENDS TcpServer

=============================================================================
