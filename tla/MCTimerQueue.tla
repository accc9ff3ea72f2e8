---------------------------- MODULE MCTimerQueue ----------------------------
(* Model-checking instance of TimerQueue: the delays, which a cfg cannot      *)
(* write because one of them is negative.                                    *)
EXTENDS TimerQueue

\* Overdue already, soon, and farther off than the int can count.
MCDelays == {-1, 2, 4}

=============================================================================
