----------------------------- MODULE MCTcpClient -----------------------------
(* Model-checking instance of TcpClient; everything is in the configuration. *)
EXTENDS TcpClient

=============================================================================
