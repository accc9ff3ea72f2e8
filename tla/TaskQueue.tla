------------------------------ MODULE TaskQueue ------------------------------
(****************************************************************************)
(* What EventLoop promises to whoever calls queueInLoop(): one FIFO queue   *)
(* of tasks.  A task is posted at the tail, tasks are begun from the head,  *)
(* one at a time, and only while the loop is open (inside loop()); nothing  *)
(* is lost, duplicated or reordered.                                        *)
(****************************************************************************)
EXTENDS Naturals, Sequences, Functions

CONSTANTS
  Tasks,     \* the functors callers may post
  NoTask     \* "no functor is being called"

VARIABLES
  queue,     \* posted and not begun, oldest first
  current,   \* the task being called, or NoTask
  open       \* TRUE while the loop runs

vars == <<queue, current, open>>

Init ==
  /\ queue = <<>>
  /\ current = NoTask
  /\ open = FALSE

\* A task sits in the queue at most once: the bound that keeps queues finite.
Post(t) ==
  /\ t \notin Range(queue)
  /\ queue' = Append(queue, t)
  /\ UNCHANGED <<current, open>>

Begin ==
  /\ open
  /\ current = NoTask
  /\ queue # <<>>
  /\ current' = Head(queue)
  /\ queue' = Tail(queue)
  /\ UNCHANGED open

End ==
  /\ current # NoTask
  /\ current' = NoTask
  /\ UNCHANGED <<queue, open>>

Open ==
  /\ ~open
  /\ open' = TRUE
  /\ UNCHANGED <<queue, current>>

\* The loop is left between two tasks, never inside one.
Close ==
  /\ open
  /\ current = NoTask
  /\ open' = FALSE
  /\ UNCHANGED <<queue, current>>

Next ==
  \/ \E t \in Tasks : Post(t)
  \/ Begin
  \/ End
  \/ Open
  \/ Close

Spec == Init /\ [][Next]_vars

=============================================================================
