--------------------------- MODULE MCTcpConnection ---------------------------
(* Model-checking instance of TcpConnection; everything is in the            *)
(* configurations.                                                           *)
EXTENDS TcpConnection

=============================================================================
