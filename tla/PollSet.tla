------------------------------- MODULE PollSet -------------------------------
(****************************************************************************)
(* What Poller promises to the channels: a map from descriptors to the      *)
(* events they are watched for.  A descriptor is watched for nothing once   *)
(* its channel has disabled everything, it stays so until it is removed,    *)
(* and ::poll reports only descriptors that are watched for something.      *)
(****************************************************************************)
EXTENDS Naturals, Functions

CONSTANTS
  Fds,       \* file descriptors
  Events     \* what a descriptor can be watched for

VARIABLES
  interest,  \* for each registered descriptor, the events it is watched for
  reported   \* the descriptors of the last ::poll

vars == <<interest, reported>>

Init ==
  /\ interest = <<>>
  /\ reported = {}

Watch(fd, events) ==
  /\ fd \notin DOMAIN interest
  /\ interest' = [f \in DOMAIN interest \cup {fd} |->
                    IF f = fd THEN events ELSE interest[f]]
  /\ UNCHANGED reported

Change(fd, events) ==
  /\ fd \in DOMAIN interest
  /\ interest[fd] # {}
  /\ interest' = [interest EXCEPT ![fd] = events]
  /\ UNCHANGED reported

Forget(fd) ==
  /\ fd \in DOMAIN interest
  /\ interest[fd] = {}
  /\ interest' = [f \in DOMAIN interest \ {fd} |-> interest[f]]
  /\ UNCHANGED reported

Report(fds) ==
  /\ \A fd \in fds : fd \in DOMAIN interest /\ interest[fd] # {}
  /\ reported' = fds
  /\ UNCHANGED interest

Next ==
  \/ \E fd \in Fds :
       \/ \E events \in (SUBSET Events) \ {{}} : Watch(fd, events)
       \/ \E events \in SUBSET Events : Change(fd, events)
       \/ Forget(fd)
  \/ \E fds \in SUBSET Fds : Report(fds)

Spec == Init /\ [][Next]_vars

=============================================================================
