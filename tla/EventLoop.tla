------------------------------ MODULE EventLoop ------------------------------
(****************************************************************************)
(* reactor/s13/EventLoop: the thread that runs loop(), the other threads    *)
(* that hand it functors (runInLoop / queueInLoop) or stop it (quit), the   *)
(* eventfd that interrupts ::poll, and the batch of functors the loop takes *)
(* at the end of every iteration.                                           *)
(*                                                                          *)
(* One action per critical section or per system call another thread can    *)
(* observe.  The Poller is reduced to what the loop needs: which of the     *)
(* wakeup channel and "some other channel" (IO) are ready.                  *)
(****************************************************************************)
EXTENDS Naturals, Sequences, Functions

CONSTANTS
  Threads,      \* the threads other than the loop's own
  Tasks,        \* the functors handed to queueInLoop
  EarlyTasks,   \* those the loop's own thread queues before it calls loop()
  NoTask,       \* "no functor is being called"
  MaxCounter    \* largest value of the eventfd counter; a write beyond is EAGAIN

ASSUME EventLoopAssumption ==
  /\ EarlyTasks \subseteq Tasks
  /\ NoTask \notin Tasks
  /\ MaxCounter \in Nat \ {0}

VARIABLES
  quit_,
  looping_,
  callingPendingFunctors_,
  pendingFunctors_,   \* guarded by mutPenFunc_
  functors,           \* doPendingFunctors' local batch, what is left of it
  running,            \* the functor of the batch being called
  wakeupFd_,          \* the counter behind the eventfd
  activeChannels,     \* what ::poll reported and is not handled yet
  pc,                 \* where the loop's thread is
  threadPc            \* where each other thread is

loopVars == <<quit_, looping_, callingPendingFunctors_>>
vars == <<quit_, looping_, callingPendingFunctors_, pendingFunctors_, functors,
          running, wakeupFd_, activeChannels, pc, threadPc>>

Wakeup == "wakeupChannel_"
IO     == "another channel"

\* pc: outside loop(); between its two assignments; at the while condition; in
\* ::poll; choosing a channel; inside a channel's callback; inside
\* doPendingFunctors between two functors; inside a functor.
LoopPcs == {"outside", "entered", "while", "poll", "dispatch", "handler",
            "functors", "functor"}
InWhile == LoopPcs \ {"outside", "entered"}

\* threadPc: "idle", or between a push_back / quit_ = true and its wakeup().
ThreadPcs == {"idle", "wakeup"}

TypeOK ==
  /\ quit_ \in BOOLEAN
  /\ looping_ \in BOOLEAN
  /\ callingPendingFunctors_ \in BOOLEAN
  /\ pendingFunctors_ \in Seq(Tasks)
  /\ functors \in Seq(Tasks)
  /\ running \in Tasks \cup {NoTask}
  /\ wakeupFd_ \in 0..MaxCounter
  /\ activeChannels \subseteq {Wakeup, IO}
  /\ pc \in LoopPcs
  /\ threadPc \in [Threads -> ThreadPcs]

Init ==
  /\ quit_ = FALSE
  /\ looping_ = FALSE
  /\ callingPendingFunctors_ = FALSE
  /\ pendingFunctors_ = <<>>
  /\ functors = <<>>
  /\ running = NoTask
  /\ wakeupFd_ = 0
  /\ activeChannels = {}
  /\ pc = "outside"
  /\ threadPc = [th \in Threads |-> "idle"]

-----------------------------------------------------------------------------
(* Shared helpers.                                                          *)

\* wakeup(): write 1 to the non-blocking eventfd.  At its maximum the counter
\* stays (EAGAIN, logged).
wakeup == IF wakeupFd_ = MaxCounter THEN MaxCounter ELSE wakeupFd_ + 1

Queued == Range(functors \o pendingFunctors_)

\* A task is queued at most once at a time: the bound on the queues.
Free(t) == t \notin Queued

-----------------------------------------------------------------------------
(* The other threads.                                                       *)

\* runInLoop() on another thread is queueInLoop(): push_back under the mutex ...
QueueInLoop(th, t) ==
  /\ threadPc[th] = "idle"
  /\ t \notin EarlyTasks
  /\ Free(t)
  /\ pendingFunctors_' = Append(pendingFunctors_, t)
  /\ threadPc' = [threadPc EXCEPT ![th] = "wakeup"]
  /\ UNCHANGED <<loopVars, functors, running, wakeupFd_, activeChannels, pc>>

\* quit() on another thread sets the flag ...
Quit(th) ==
  /\ threadPc[th] = "idle"
  /\ quit_' = TRUE
  /\ threadPc' = [threadPc EXCEPT ![th] = "wakeup"]
  /\ UNCHANGED <<looping_, callingPendingFunctors_, pendingFunctors_, functors,
                 running, wakeupFd_, activeChannels, pc>>

\* ... and both then call wakeup(), after the loop may have run any distance.
WakeLoop(th) ==
  /\ threadPc[th] = "wakeup"
  /\ wakeupFd_' = wakeup
  /\ threadPc' = [threadPc EXCEPT ![th] = "idle"]
  /\ UNCHANGED <<loopVars, pendingFunctors_, functors, running, activeChannels, pc>>

-----------------------------------------------------------------------------
(* Calls made on the loop's own thread, by a channel's callback or by a     *)
(* functor.  runInLoop() there calls its argument on the spot, which is     *)
(* what the caller does next: no state of the loop changes.                 *)

\* Mutant: only other threads wake the loop.
QueueOnLoopNeverWakes(t) ==
  /\ \/ pc \in {"handler", "functor"} /\ t \notin EarlyTasks
     \/ pc = "outside" /\ t \in EarlyTasks
  /\ Free(t)
  /\ pendingFunctors_' = Append(pendingFunctors_, t)
  /\ UNCHANGED <<loopVars, functors, running, wakeupFd_, activeChannels, pc, threadPc>>

\* queueInLoop() on the loop's thread wakes the loop only when it is calling
\* functors: a callback's functor is taken at the end of this iteration anyway.
QueueOnLoop(t) ==
  /\ \/ pc \in {"handler", "functor"} /\ t \notin EarlyTasks
     \/ pc = "outside" /\ t \in EarlyTasks
  /\ Free(t)
  /\ pendingFunctors_' = Append(pendingFunctors_, t)
  /\ wakeupFd_' = IF callingPendingFunctors_ THEN wakeup ELSE wakeupFd_
  /\ UNCHANGED <<loopVars, functors, running, activeChannels, pc, threadPc>>

\* quit() on the loop's thread: no wakeup, the while condition is next.
QuitOnLoop ==
  /\ pc \in {"outside", "handler", "functor"}
  /\ quit_' = TRUE
  /\ UNCHANGED <<looping_, callingPendingFunctors_, pendingFunctors_, functors,
                 running, wakeupFd_, activeChannels, pc, threadPc>>

-----------------------------------------------------------------------------
(* loop().                                                                  *)

EnterLoop ==
  /\ pc = "outside"
  /\ looping_' = TRUE
  /\ pc' = "entered"
  /\ UNCHANGED <<quit_, callingPendingFunctors_, pendingFunctors_, functors,
                 running, wakeupFd_, activeChannels, threadPc>>

\* quit_ = false forgets every quit() that came before this statement.
ResetQuit ==
  /\ pc = "entered"
  /\ quit_' = FALSE
  /\ pc' = "while"
  /\ UNCHANGED <<looping_, callingPendingFunctors_, pendingFunctors_, functors,
                 running, wakeupFd_, activeChannels, threadPc>>

\* Mutant: the flag is not looked at again.
NeverLeaveLoop ==
  /\ pc = "while"
  /\ quit_
  /\ pc' = "poll"
  /\ UNCHANGED <<loopVars, pendingFunctors_, functors, running, wakeupFd_,
                 activeChannels, threadPc>>

LeaveLoop ==
  /\ pc = "while"
  /\ quit_
  /\ looping_' = FALSE
  /\ pc' = "outside"
  /\ UNCHANGED <<quit_, callingPendingFunctors_, pendingFunctors_, functors,
                 running, wakeupFd_, activeChannels, threadPc>>

CallPoll ==
  /\ pc = "while"
  /\ ~quit_
  /\ pc' = "poll"
  /\ UNCHANGED <<loopVars, pendingFunctors_, functors, running, wakeupFd_,
                 activeChannels, threadPc>>

PollReturns(ready) ==
  /\ pc = "poll"
  /\ activeChannels' = ready
  /\ pc' = "dispatch"
  /\ UNCHANGED <<loopVars, pendingFunctors_, functors, running, wakeupFd_, threadPc>>

\* ::poll returns because the eventfd is readable; another channel may be too.
PollWakes ==
  /\ wakeupFd_ > 0
  /\ \E io \in SUBSET {IO} : PollReturns({Wakeup} \cup io)

PollSeesIO ==
  /\ wakeupFd_ = 0
  /\ PollReturns({IO})

\* Mutant: ::poll is called without a timeout.
PollForever == FALSE

\* kTimeOutMs passed, or ::poll failed with EINTR: no channel is active.
PollTimesOut ==
  /\ wakeupFd_ = 0
  /\ PollReturns({})

\* handleRead(): the eight-byte read resets the counter.
HandleRead ==
  /\ pc = "dispatch"
  /\ Wakeup \in activeChannels
  /\ wakeupFd_' = 0
  /\ activeChannels' = activeChannels \ {Wakeup}
  /\ UNCHANGED <<loopVars, pendingFunctors_, functors, running, pc, threadPc>>

\* handleEvent() of another channel: its callback may call QueueOnLoop and
\* QuitOnLoop any number of times before it returns.
CallHandler ==
  /\ pc = "dispatch"
  /\ IO \in activeChannels
  /\ activeChannels' = activeChannels \ {IO}
  /\ pc' = "handler"
  /\ UNCHANGED <<loopVars, pendingFunctors_, functors, running, wakeupFd_, threadPc>>

HandlerReturns ==
  /\ pc = "handler"
  /\ pc' = "dispatch"
  /\ UNCHANGED <<loopVars, pendingFunctors_, functors, running, wakeupFd_,
                 activeChannels, threadPc>>

\* doPendingFunctors() raises its flag and swaps the pending functors into its
\* batch under the mutex.  The flag is read on this thread only, so the two
\* are one step.
SwapPending ==
  /\ pc = "dispatch"
  /\ activeChannels = {}
  /\ callingPendingFunctors_' = TRUE
  /\ functors' = pendingFunctors_
  /\ pendingFunctors_' = <<>>
  /\ pc' = "functors"
  /\ UNCHANGED <<quit_, looping_, running, wakeupFd_, activeChannels, threadPc>>

\* Mutant: the batch is taken from its end.
CallNewestFunctor ==
  /\ pc = "functors"
  /\ functors # <<>>
  /\ running' = functors[Len(functors)]
  /\ functors' = SubSeq(functors, 1, Len(functors) - 1)
  /\ pc' = "functor"
  /\ UNCHANGED <<loopVars, pendingFunctors_, wakeupFd_, activeChannels, threadPc>>

CallFunctor ==
  /\ pc = "functors"
  /\ functors # <<>>
  /\ running' = Head(functors)
  /\ functors' = Tail(functors)
  /\ pc' = "functor"
  /\ UNCHANGED <<loopVars, pendingFunctors_, wakeupFd_, activeChannels, threadPc>>

\* Mutant: the range-for runs over pendingFunctors_ itself, so a functor that
\* queues itself is called again in the same pass.
FunctorReturnsToGrowingBatch ==
  /\ pc = "functor"
  /\ running' = NoTask
  /\ functors' = functors \o pendingFunctors_
  /\ pendingFunctors_' = <<>>
  /\ pc' = "functors"
  /\ UNCHANGED <<loopVars, wakeupFd_, activeChannels, threadPc>>

FunctorReturns ==
  /\ pc = "functor"
  /\ running' = NoTask
  /\ pc' = "functors"
  /\ UNCHANGED <<loopVars, pendingFunctors_, functors, wakeupFd_, activeChannels, threadPc>>

PendingDone ==
  /\ pc = "functors"
  /\ functors = <<>>
  /\ callingPendingFunctors_' = FALSE
  /\ pc' = "while"
  /\ UNCHANGED <<quit_, looping_, pendingFunctors_, functors, running, wakeupFd_,
                 activeChannels, threadPc>>

-----------------------------------------------------------------------------

\* What the loop's thread does on its own, ::poll blocking until woken.
LoopStep ==
  \/ ResetQuit
  \/ LeaveLoop
  \/ CallPoll
  \/ PollWakes
  \/ HandleRead
  \/ CallHandler
  \/ HandlerReturns
  \/ SwapPending
  \/ CallFunctor
  \/ FunctorReturns
  \/ PendingDone

Next ==
  \/ LoopStep
  \/ EnterLoop
  \/ PollSeesIO
  \/ PollTimesOut
  \/ QuitOnLoop
  \/ \E t \in Tasks : QueueOnLoop(t)
  \/ \E th \in Threads :
       \/ \E t \in Tasks : QueueInLoop(th, t)
       \/ Quit(th)
       \/ WakeLoop(th)

Spec == Init /\ [][Next]_vars

(* Every thread that is running keeps running.  ::poll owes nothing while   *)
(* the eventfd is not readable: neither I/O nor the ten-second timeout is   *)
(* assumed, so what is proved live does not lean on either.                 *)
Fairness ==
  /\ WF_vars(LoopStep)
  /\ \A th \in Threads : WF_vars(WakeLoop(th))

FairSpec == Spec /\ Fairness

-----------------------------------------------------------------------------
(* Properties.                                                              *)

\* Somebody is committed to interrupting ::poll, or already has.
Announced == wakeupFd_ > 0 \/ \E th \in Threads : threadPc[th] = "wakeup"

\* queueInLoop() never loses a wakeup: when the loop is in ::poll and a functor
\* is pending, the eventfd is readable or the thread that pushed it is about to
\* make it so.  A functor the loop's own thread queued before loop() is the
\* exception: nothing announces it (EventLoop.cc:170).
NoLostWakeup ==
  pc = "poll" /\ (\E i \in DOMAIN pendingFunctors_ : pendingFunctors_[i] \notin EarlyTasks)
    => Announced

\* The loop never goes to sleep on a quit(): in ::poll with quit_ set, an
\* interruption is there or on its way.
NoSleepAfterQuit == pc = "poll" /\ quit_ => Announced

\* The functors are called like a FIFO queue: the batch followed by the pending
\* functors is that queue, and a swap of batches is invisible.
TQ == INSTANCE TaskQueue WITH
        queue   <- functors \o pendingFunctors_,
        current <- running,
        open    <- looping_

\* queueInLoop() implements the FIFO task queue: nothing is lost, called twice,
\* out of order, outside loop() or inside another functor.
ImplementsTaskQueue == TQ!Spec

\* A quit() that finds the loop inside its while stops it without help from the
\* timeout of ::poll.
QuitStopsLoop == (quit_ /\ pc \in InWhile) ~> (pc = "outside")

\* Functors that queue themselves again and again cannot keep the loop from
\* polling: each batch is finite.
PollIsNotStarved == pc = "functors" ~> pc \in {"poll", "outside"}

\* A functor is called in the end unless the loop is left.
IsCalled(t) == (looping_ /\ t \in Queued) ~> (running = t \/ ~looping_)

\* Every functor that is queued is called, without the help of a timeout or of I/O
\* and whatever other functors queue; the early ones are for EarlyTasksRun.
EveryTaskRuns == \A t \in Tasks \ EarlyTasks : IsCalled(t)

\* A functor queued before loop() is called in the end too, but only because ::poll
\* times out after ten seconds.
EarlyTasksRun == WF_vars(PollTimesOut) => \A t \in EarlyTasks : IsCalled(t)

-----------------------------------------------------------------------------
(* The inductive strengthening of NoLostWakeup and NoSleepAfterQuit.        *)

\* Which variables may be set where the loop's thread is.
PcInv ==
  /\ looping_ <=> pc # "outside"
  /\ callingPendingFunctors_ <=> pc \in {"functors", "functor"}
  /\ functors # <<>> => pc \in {"functors", "functor"}
  /\ running # NoTask <=> pc = "functor"

\* From one doPendingFunctors() to the next ::poll a pending functor is announced;
\* while channels are handled it need not be, the swap is still to come.
WakeInv ==
  pc \notin {"dispatch", "handler"} /\
  (\E i \in DOMAIN pendingFunctors_ : pendingFunctors_[i] \notin EarlyTasks)
    => Announced

LoopInv == TypeOK /\ PcInv /\ WakeInv /\ NoSleepAfterQuit

=============================================================================
