------------------------------- MODULE MCPoller -------------------------------
(* Model-checking instance of Poller: interchangeable Channel objects.       *)
EXTENDS Poller, TLC

Symmetry == Permutations(Channels)

=============================================================================
