--------------------------- MODULE EventLoopThread ---------------------------
(****************************************************************************)
(* reactor/s13/EventLoopThread: a thread that makes an EventLoop and runs   *)
(* it, and its owner, who waits for the loop in startLoop(), hands it       *)
(* functors, and in the destructor stops it and joins the thread.           *)
(*                                                                          *)
(* The loop is EventLoop itself, with the owner as its only other thread;   *)
(* this module adds who may take which of its steps and when.               *)
(****************************************************************************)
EXTENDS Naturals, Sequences

CONSTANTS
  Owner,        \* the thread that owns the EventLoopThread
  Tasks,        \* the functors the owner hands to runInLoop()
  NoTask,
  MaxCounter

ASSUME EventLoopThreadAssumption ==
  /\ NoTask \notin Tasks
  /\ MaxCounter \in Nat \ {0}

VARIABLES
  quit_, looping_, callingPendingFunctors_, pendingFunctors_, functors, running,
  wakeupFd_, activeChannels, pc, threadPc,      \* the EventLoop
  loop_,       \* TRUE when the shared_ptr is set; guarded by mut_
  ownerPc,     \* where the owner is
  funcPc       \* where threadFuc() is

loop == <<quit_, looping_, callingPendingFunctors_, pendingFunctors_, functors, running,
          wakeupFd_, activeChannels, pc, threadPc>>
vars == <<loop, loop_, ownerPc, funcPc>>

L == INSTANCE EventLoop WITH Threads <- {Owner}, EarlyTasks <- {}

\* The owner: before startLoop(); holding the mutex in it, about to look at loop_;
\* in cond_.wait(); using the loop; in the destructor before quit(), in quit(), in
\* join(), and after it.
OwnerPcs == {"constructed", "check", "wait", "using", "destructor", "quit", "join", "joined"}

\* threadFuc(): no thread yet, before its critical section, after it, in loop(),
\* returned.
FuncPcs == {"none", "started", "made", "loop", "returned"}

TypeOK ==
  /\ L!TypeOK
  /\ loop_ \in BOOLEAN
  /\ ownerPc \in OwnerPcs
  /\ funcPc \in FuncPcs

Init ==
  /\ L!Init
  /\ loop_ = FALSE
  /\ ownerPc = "constructed"
  /\ funcPc = "none"

-----------------------------------------------------------------------------
(* startLoop() and threadFuc().                                             *)

StartThread ==
  /\ ownerPc = "constructed"
  /\ ownerPc' = "check"
  /\ funcPc' = "started"
  /\ UNCHANGED <<loop, loop_>>

\* The predicate of cond_.wait(), with the mutex held.
CheckLoop ==
  /\ ownerPc = "check"
  /\ ownerPc' = IF loop_ THEN "using" ELSE "wait"
  /\ UNCHANGED <<loop, loop_, funcPc>>

SpuriousWakeup ==
  /\ ownerPc = "wait"
  /\ ownerPc' = "check"
  /\ UNCHANGED <<loop, loop_, funcPc>>

\* Mutant: threadFuc() tells nobody.
MakeLoopSilently ==
  /\ funcPc = "started"
  /\ loop_' = TRUE
  /\ funcPc' = "made"
  /\ UNCHANGED <<loop, ownerPc>>

\* The critical section of threadFuc(): the loop is made and notify_all() called.
MakeLoop ==
  /\ funcPc = "started"
  /\ loop_' = TRUE
  /\ ownerPc' = IF ownerPc = "wait" THEN "check" ELSE ownerPc
  /\ funcPc' = "made"
  /\ UNCHANGED loop

\* loop_->loop().
CallLoop ==
  /\ funcPc = "made"
  /\ L!EnterLoop
  /\ funcPc' = "loop"
  /\ UNCHANGED <<loop_, ownerPc>>

\* What the loop does by itself; leaving it, threadFuc() returns.
RunLoop ==
  /\ funcPc = "loop"
  /\ L!LoopStep
  /\ funcPc' = IF pc' = "outside" THEN "returned" ELSE "loop"
  /\ UNCHANGED <<loop_, ownerPc>>

\* I/O, the timeout of ::poll, and what a callback or a functor does to the loop.
OnLoop ==
  /\ funcPc = "loop"
  /\ \/ L!PollSeesIO
     \/ L!PollTimesOut
     \/ L!QuitOnLoop
     \/ \E t \in Tasks : L!QueueOnLoop(t)
  /\ UNCHANGED <<loop_, ownerPc, funcPc>>

-----------------------------------------------------------------------------
(* The owner, once startLoop() has returned the loop.                       *)

RunInLoop(t) ==
  /\ ownerPc = "using"
  /\ L!QueueInLoop(Owner, t)
  /\ UNCHANGED <<loop_, ownerPc, funcPc>>

OwnerQuits ==
  /\ ownerPc = "using"
  /\ L!Quit(Owner)
  /\ UNCHANGED <<loop_, ownerPc, funcPc>>

\* Mutant: the eventfd is written only while the functors are being called.
WakeLoopSometimes ==
  /\ ownerPc \in {"using", "quit"}
  /\ IF callingPendingFunctors_
     THEN L!WakeLoop(Owner)
     ELSE /\ threadPc[Owner] = "wakeup"
          /\ threadPc' = [threadPc EXCEPT ![Owner] = "idle"]
          /\ UNCHANGED <<quit_, looping_, callingPendingFunctors_, pendingFunctors_,
                         functors, running, wakeupFd_, activeChannels, pc>>
  /\ ownerPc' = IF ownerPc = "quit" THEN "join" ELSE ownerPc
  /\ UNCHANGED <<loop_, funcPc>>

\* The end of runInLoop() and quit(); in the destructor join() is next.
WakeLoop ==
  /\ ownerPc \in {"using", "quit"}
  /\ L!WakeLoop(Owner)
  /\ ownerPc' = IF ownerPc = "quit" THEN "join" ELSE ownerPc
  /\ UNCHANGED <<loop_, funcPc>>

\* ~EventLoopThread(): a call on the loop is over before the next begins.
Destructor ==
  /\ ownerPc = "using"
  /\ threadPc[Owner] = "idle"
  /\ ownerPc' = "destructor"
  /\ UNCHANGED <<loop, loop_, funcPc>>

DestructorQuits ==
  /\ ownerPc = "destructor"
  /\ L!Quit(Owner)
  /\ ownerPc' = "quit"
  /\ UNCHANGED <<loop_, funcPc>>

Join ==
  /\ ownerPc = "join"
  /\ funcPc = "returned"
  /\ ownerPc' = "joined"
  /\ UNCHANGED <<loop, loop_, funcPc>>

-----------------------------------------------------------------------------

ThreadStep ==
  \/ MakeLoop
  \/ CallLoop
  \/ RunLoop

OwnerStep ==
  \/ CheckLoop
  \/ WakeLoop
  \/ DestructorQuits
  \/ Join

Next ==
  \/ ThreadStep
  \/ OwnerStep
  \/ StartThread
  \/ SpuriousWakeup
  \/ OnLoop
  \/ \E t \in Tasks : RunInLoop(t)
  \/ OwnerQuits
  \/ Destructor

Spec == Init /\ [][Next]_vars

(* Both threads keep running; the owner owes no call it has not begun.  As  *)
(* in EventLoop neither I/O nor the timeout of ::poll is owed.              *)
Fairness ==
  /\ WF_vars(ThreadStep)
  /\ WF_vars(OwnerStep)

FairSpec == Spec /\ Fairness

-----------------------------------------------------------------------------
(* Properties.                                                              *)

\* startLoop() returns: the condition variable loses no notification, whichever
\* of the two threads takes the mutex first, and it returns a loop that is there.
StartLoopReturns == ownerPc = "check" ~> (ownerPc = "using" /\ loop_)

\* A functor handed over as soon as startLoop() has returned, while the thread may
\* not have entered loop() yet, is called, unless the loop is left before.
ThreadRunsWork ==
  \A t \in Tasks : t \in L!Queued ~> (running = t \/ funcPc = "returned")

\* The quit() of the destructor came before the quit_ = false of loop().
Forgotten == ownerPc = "join" /\ funcPc = "loop" /\ pc \in L!InWhile /\ ~quit_

\* The destructor returns, unless its quit() was forgotten.
JoinsUnlessForgotten == ownerPc = "destructor" ~> (ownerPc = "joined" \/ Forgotten)

\* The destructor returns, as reactor/s03/main.cc takes for granted.
DestructorReturns == ownerPc = "destructor" ~> ownerPc = "joined"

-----------------------------------------------------------------------------
(* What the liveness above rests on, state by state.                        *)

\* startLoop() does not wait for a notification that was given: the predicate and the
\* wait are one critical section, and so is making the loop.  It returns with the loop.
NotificationIsKept ==
  /\ ownerPc = "wait" => ~loop_
  /\ ownerPc \in {"using", "destructor", "quit", "join", "joined"} => loop_

\* When the owner has no call under way, the loop does not sleep on a functor or on a
\* quit(): the eventfd is readable.
OwnerIsHeard ==
  pc = "poll" /\ threadPc[Owner] = "idle" /\ (pendingFunctors_ # <<>> \/ quit_)
    => wakeupFd_ > 0

\* The quit() of the destructor holds until loop() has returned, unless loop() came to its
\* quit_ = false after it; and only a loop that was told to quit has returned.
QuitHoldsUnlessForgotten ==
  /\ ownerPc \in {"quit", "join", "joined"} => quit_ \/ (funcPc = "loop" /\ pc \in L!InWhile)
  /\ funcPc = "returned" => quit_

\* Where the two threads can be at a time.
StartInv ==
  /\ ownerPc = "constructed" <=> funcPc = "none"
  /\ loop_ <=> funcPc \in {"made", "loop", "returned"}
  /\ funcPc = "loop" <=> pc # "outside"
  /\ ownerPc = "joined" => funcPc = "returned"

\* Only runInLoop(), quit() and the quit() of the destructor are under way in between.
CallInv ==
  /\ threadPc[Owner] = "wakeup" => ownerPc \in {"using", "quit"}
  /\ ownerPc = "quit" => threadPc[Owner] = "wakeup"

ThreadInv ==
  TypeOK /\ StartInv /\ CallInv /\ NotificationIsKept /\ QuitHoldsUnlessForgotten

=============================================================================
