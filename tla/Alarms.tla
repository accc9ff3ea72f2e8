------------------------------- MODULE Alarms -------------------------------
(****************************************************************************)
(* What TimerQueue promises to the callers of runAt(), runAfter(),          *)
(* runEvery() and cancel(): an alarm runs when its time has come and not    *)
(* before, once, or again and again with at least its interval between two  *)
(* due times; one that was cancelled runs at most once more, and only if it *)
(* was due by then.                                                         *)
(****************************************************************************)
EXTENDS Integers, Functions

CONSTANT Ids   \* the names an alarm can have

VARIABLES
  time,
  made,        \* the names given out so far
  due,         \* alarms still to run: [at: due time, every: interval, 0 for none]
  cancelled    \* names cancel() has been called with

vars == <<time, made, due, cancelled>>

Init ==
  /\ time \in Nat
  /\ made = {}
  /\ due = <<>>
  /\ cancelled = {}

Tick ==
  /\ time' = time + 1
  /\ UNCHANGED <<made, due, cancelled>>

\* A new alarm, of any time and interval.
Add(i) ==
  /\ i \notin made
  /\ made' = made \cup {i}
  /\ due' \in [DOMAIN due \cup {i} -> [at : Int, every : Nat]]
  /\ \A j \in DOMAIN due : due'[j] = due[j]
  /\ UNCHANGED <<time, cancelled>>

Without(i) == Restrict(due, DOMAIN due \ {i})

\* The last run of an alarm ...
RunLast(i) ==
  /\ due[i].every = 0 \/ i \in cancelled
  /\ due' = Without(i)

\* ... or one after which it is due again.
RunAndRepeat(i) ==
  /\ due[i].every > 0 /\ i \notin cancelled
  /\ \E at \in (due[i].at + due[i].every)..(time + due[i].every) :
       due' = [due EXCEPT ![i].at = at]

Run(i) ==
  /\ i \in DOMAIN due
  /\ due[i].at <= time
  /\ RunLast(i) \/ RunAndRepeat(i)
  /\ UNCHANGED <<time, made, cancelled>>

Cancel(i) ==
  /\ i \in made
  /\ cancelled' = cancelled \cup {i}
  /\ \/ due' = Without(i)
     \/ i \in DOMAIN due /\ due[i].at <= time /\ UNCHANGED due
  /\ UNCHANGED <<time, made>>

Next ==
  \/ Tick
  \/ \E i \in Ids : Add(i) \/ Run(i) \/ Cancel(i)

SafeSpec == Init /\ [][Next]_vars

Spec == SafeSpec /\ \A i \in Ids : WF_vars(Run(i))

=============================================================================
