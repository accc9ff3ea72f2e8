-------------------------- MODULE MCEventLoopThread --------------------------
(* Model-checking instance of EventLoopThread; everything is in the           *)
(* configurations.                                                            *)
EXTENDS EventLoopThread

=============================================================================
