----------------------------- MODULE MCEventLoop -----------------------------
(* Model-checking instance of EventLoop; everything is in the configuration. *)
EXTENDS EventLoop

=============================================================================
