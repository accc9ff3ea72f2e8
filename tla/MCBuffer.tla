------------------------------- MODULE MCBuffer -------------------------------
(* Model-checking instance of Buffer; everything is in the configurations.   *)
EXTENDS Buffer

=============================================================================
