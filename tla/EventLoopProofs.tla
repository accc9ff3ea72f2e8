--------------------------- MODULE EventLoopProofs ---------------------------
(****************************************************************************)
(* Proofs about EventLoop for any number of threads and functors, and about *)
(* EventLoopThread, whose loop is an EventLoop with one other thread.       *)
(****************************************************************************)
EXTENDS EventLoop, SequenceTheorems, TLAPS

\* A queue of functors keeps its type under the operations of the loop.
LEMMA QueueTypes ==
  ASSUME NEW q \in Seq(Tasks), NEW t \in Tasks
  PROVE  Append(q, t) \in Seq(Tasks)
  BY AppendProperties

LEMMA BatchTypes ==
  ASSUME NEW q \in Seq(Tasks), q # <<>>
  PROVE  Head(q) \in Tasks /\ Tail(q) \in Seq(Tasks)
  BY HeadTailProperties

\* Appending an early task adds no element that has to be announced.
LEMMA EarlyAppend ==
  ASSUME NEW q \in Seq(Tasks), NEW t \in EarlyTasks,
         NEW i \in DOMAIN Append(q, t), Append(q, t)[i] \notin EarlyTasks
  PROVE  i \in DOMAIN q /\ q[i] \notin EarlyTasks
  <1>1. t \in Tasks
    BY EventLoopAssumption
  <1>2. Append(q, t) \in Seq(Tasks) /\ Len(Append(q, t)) = Len(q) + 1
    BY <1>1, AppendProperties
  <1>3. Len(q) \in Nat /\ DOMAIN q = 1..Len(q)
    BY LenProperties
  <1>4. DOMAIN Append(q, t) = 1..(Len(q) + 1)
    BY <1>2, LenProperties
  <1>5. Append(q, t)[Len(q) + 1] = t
    BY <1>1, AppendProperties
  <1>6. i \in 1..Len(q)
    BY <1>3, <1>4, <1>5
  <1>7. QED
    BY <1>1, <1>3, <1>6, AppendProperties

LEMMA InitInv == Init => LoopInv
  <1> SUFFICES ASSUME Init PROVE LoopInv
    OBVIOUS
  <1>1. TypeOK
    <2>1. <<>> \in Seq(Tasks)
      BY EmptySeq
    <2>2. 0 \in 0..MaxCounter
      BY EventLoopAssumption
    <2>3. QED
      BY <2>1, <2>2 DEF Init, TypeOK, LoopPcs, ThreadPcs
  <1>2. PcInv
    BY DEF Init, PcInv
  <1>3. WakeInv
    BY DEF Init, WakeInv
  <1>4. NoSleepAfterQuit
    BY DEF Init, NoSleepAfterQuit
  <1>5. QED
    BY <1>1, <1>2, <1>3, <1>4 DEF LoopInv

LEMMA WakeupTypes ==
  ASSUME wakeupFd_ \in 0..MaxCounter
  PROVE  /\ 0 \in 0..MaxCounter
         /\ wakeup \in 0..MaxCounter
         /\ wakeup > 0
  BY EventLoopAssumption DEF wakeup

LEMMA StepInv == LoopInv /\ [Next]_vars => LoopInv'
  <1> SUFFICES ASSUME LoopInv, [Next]_vars PROVE LoopInv'
    OBVIOUS
  <1> USE DEF LoopInv, TypeOK, PcInv, WakeInv, NoSleepAfterQuit, Announced,
              LoopPcs, ThreadPcs, Wakeup, IO, loopVars
  <1>1. CASE ResetQuit
    BY <1>1 DEF ResetQuit
  <1>2. CASE LeaveLoop
    BY <1>2 DEF LeaveLoop
  <1>3. CASE CallPoll
    BY <1>3 DEF CallPoll
  <1>4. CASE PollWakes
    <2>1. PICK io \in SUBSET {IO} : PollReturns({Wakeup} \cup io)
      BY <1>4 DEF PollWakes
    <2>2. QED
      BY <2>1 DEF PollReturns
  <1>5. CASE HandleRead
    BY <1>5, WakeupTypes DEF HandleRead
  <1>6. CASE CallHandler
    BY <1>6 DEF CallHandler
  <1>7. CASE HandlerReturns
    BY <1>7 DEF HandlerReturns
  <1>8. CASE SwapPending
    BY <1>8 DEF SwapPending
  <1>9. CASE CallFunctor
    <2>1. running' \in Tasks /\ functors' \in Seq(Tasks)
      BY <1>9, BatchTypes DEF CallFunctor
    <2>2. running' # NoTask
      BY <2>1, EventLoopAssumption
    <2>3. QED
      BY <1>9, <2>1, <2>2 DEF CallFunctor
  <1>10. CASE FunctorReturns
    BY <1>10 DEF FunctorReturns
  <1>11. CASE PendingDone
    BY <1>11 DEF PendingDone
  <1>12. CASE EnterLoop
    BY <1>12 DEF EnterLoop
  <1>13. CASE PollSeesIO
    BY <1>13 DEF PollSeesIO, PollReturns
  <1>14. CASE PollTimesOut
    BY <1>14 DEF PollTimesOut, PollReturns
  <1>15. CASE QuitOnLoop
    BY <1>15 DEF QuitOnLoop
  <1>16. ASSUME NEW t \in Tasks, QueueOnLoop(t) PROVE LoopInv'
    <2>1. pendingFunctors_' \in Seq(Tasks) /\ wakeupFd_' \in 0..MaxCounter
      BY <1>16, QueueTypes, WakeupTypes DEF QueueOnLoop
    <2>2. CASE callingPendingFunctors_
      BY <1>16, <2>1, <2>2, WakeupTypes DEF QueueOnLoop
    <2>3. CASE ~callingPendingFunctors_
      <3>1. pc \in {"outside", "handler"}
        BY <1>16, <2>3 DEF QueueOnLoop
      <3>2. WakeInv'
        <4>1. CASE pc = "handler"
          BY <1>16, <4>1 DEF QueueOnLoop
        <4>2. CASE pc = "outside"
          <5> SUFFICES ASSUME NEW i \in DOMAIN pendingFunctors_',
                              pendingFunctors_'[i] \notin EarlyTasks
                       PROVE  Announced'
            BY DEF WakeInv
          <5>1. t \in EarlyTasks /\ pendingFunctors_' = Append(pendingFunctors_, t)
            BY <1>16, <4>2 DEF QueueOnLoop
          <5>2. i \in DOMAIN pendingFunctors_ /\ pendingFunctors_[i] \notin EarlyTasks
            BY <5>1, EarlyAppend
          <5>3. Announced
            BY <4>2, <5>2
          <5>4. QED
            BY <1>16, <2>3, <5>3 DEF QueueOnLoop
        <4>3. QED
          BY <3>1, <4>1, <4>2
      <3>3. QED
        BY <1>16, <2>1, <2>3, <3>1, <3>2 DEF QueueOnLoop
    <2>4. QED
      BY <2>2, <2>3
  <1>17. ASSUME NEW th \in Threads, NEW t \in Tasks, QueueInLoop(th, t) PROVE LoopInv'
    BY <1>17, QueueTypes DEF QueueInLoop
  <1>18. ASSUME NEW th \in Threads, Quit(th) PROVE LoopInv'
    BY <1>18 DEF Quit
  <1>19. ASSUME NEW th \in Threads, WakeLoop(th) PROVE LoopInv'
    BY <1>19, WakeupTypes DEF WakeLoop
  <1>20. CASE UNCHANGED vars
    BY <1>20 DEF vars
  <1>21. QED
    BY <1>1, <1>2, <1>3, <1>4, <1>5, <1>6, <1>7, <1>8, <1>9, <1>10, <1>11, <1>12, <1>13, <1>14, <1>15, <1>16, <1>17, <1>18, <1>19, <1>20 DEF Next, LoopStep

THEOREM LoopInvariant == Spec => []LoopInv
  BY InitInv, StepInv, PTL DEF Spec

\* Every variable keeps its type: the model's state is one the loop can be in.
THEOREM TypeCorrect == Spec => []TypeOK
  BY LoopInvariant, PTL DEF LoopInv

\* While the loop sleeps in ::poll, a functor queued by another thread or by a
\* functor is announced (EventLoop::queueInLoop).
THEOREM WakeupsAreNotLost == Spec => []NoLostWakeup
  <1>1. LoopInv => NoLostWakeup
    BY DEF LoopInv, WakeInv, NoLostWakeup
  <1>2. QED
    BY <1>1, LoopInvariant, PTL

\* While the loop sleeps in ::poll, a quit() is announced (EventLoop::quit).
THEOREM QuitIsNotSleptOn == Spec => []NoSleepAfterQuit
  BY LoopInvariant, PTL DEF LoopInv

-----------------------------------------------------------------------------
(* The loop implements TaskQueue: the batch followed by the pending functors *)
(* is the queue, so a push_back appends to it, a swap of an exhausted batch  *)
(* does not change it and CallFunctor takes its head.                        *)

LEMMA ConcatAppend ==
  ASSUME NEW q \in Seq(Tasks), NEW p \in Seq(Tasks), NEW t \in Tasks
  PROVE  q \o Append(p, t) = Append(q \o p, t)
  <1>1. <<t>> \in Seq(Tasks)
    OBVIOUS
  <1>2. q \o p \in Seq(Tasks)
    BY ConcatProperties
  <1>3. QED
    BY <1>1, <1>2, AppendIsConcat, ConcatAssociative

LEMMA ConcatHeadTail ==
  ASSUME NEW q \in Seq(Tasks), q # <<>>, NEW p \in Seq(Tasks)
  PROVE  /\ q \o p # <<>>
         /\ Head(q \o p) = Head(q)
         /\ Tail(q \o p) = Tail(q) \o p
  OBVIOUS

LEMMA InitRefines == Init => TQ!Init
  <1>1. <<>> \o <<>> = <<>>
    BY EmptySeq, ConcatEmptySeq
  <1>2. QED
    BY <1>1 DEF Init, TQ!Init

LEMMA StepRefines == LoopInv /\ [Next]_vars => [TQ!Next]_TQ!vars
  <1> SUFFICES ASSUME LoopInv, [Next]_vars PROVE [TQ!Next]_TQ!vars
    OBVIOUS
  <1> USE DEF LoopInv, TypeOK, PcInv, loopVars, TQ!Next, TQ!vars
  <1>1. ASSUME NEW t \in Tasks, Free(t), pendingFunctors_' = Append(pendingFunctors_, t),
               UNCHANGED <<functors, running, looping_>>
        PROVE  TQ!Post(t)
    BY <1>1, ConcatAppend DEF Free, Queued, Range, TQ!Post, TQ!Range
  <1>2. ASSUME NEW t \in Tasks, QueueOnLoop(t) PROVE TQ!Post(t)
    BY <1>1, <1>2 DEF QueueOnLoop
  <1>3. ASSUME NEW th \in Threads, NEW t \in Tasks, QueueInLoop(th, t) PROVE TQ!Post(t)
    BY <1>1, <1>3 DEF QueueInLoop
  <1>4. CASE SwapPending
    <2>1. functors = <<>> /\ UNCHANGED <<running, looping_>>
      BY <1>4 DEF SwapPending
    <2>2. functors \o pendingFunctors_ = functors' \o pendingFunctors_'
      BY <1>4, <2>1, ConcatEmptySeq DEF SwapPending
    <2>3. QED
      BY <2>1, <2>2
  <1>5. CASE CallFunctor
    BY <1>5, ConcatHeadTail DEF CallFunctor, TQ!Begin
  <1>6. CASE FunctorReturns
    BY <1>6 DEF FunctorReturns, TQ!End
  <1>7. CASE EnterLoop
    BY <1>7 DEF EnterLoop, TQ!Open
  <1>8. CASE LeaveLoop
    BY <1>8 DEF LeaveLoop, TQ!Close
  <1>9. CASE ResetQuit \/ CallPoll \/ HandleRead \/ CallHandler \/ HandlerReturns \/ PendingDone
    BY <1>9 DEF ResetQuit, CallPoll, HandleRead, CallHandler, HandlerReturns, PendingDone
  <1>10. CASE PollWakes \/ PollSeesIO \/ PollTimesOut
    BY <1>10 DEF PollWakes, PollSeesIO, PollTimesOut, PollReturns
  <1>11. CASE QuitOnLoop \/ (\E th \in Threads : Quit(th) \/ WakeLoop(th))
    BY <1>11 DEF QuitOnLoop, Quit, WakeLoop
  <1>12. CASE UNCHANGED vars
    BY <1>12 DEF vars
  <1>13. QED
    BY <1>2, <1>3, <1>4, <1>5, <1>6, <1>7, <1>8, <1>9, <1>10, <1>11, <1>12 DEF Next, LoopStep

\* Whatever the interleaving of callers and loop, functors are called in the
\* order they were queued, each once, one at a time and only inside loop()
\* (EventLoop::queueInLoop, EventLoop::doPendingFunctors).
THEOREM LoopRefinesTaskQueue == Spec => ImplementsTaskQueue
  BY InitRefines, StepRefines, LoopInvariant, PTL DEF Spec, ImplementsTaskQueue, TQ!Spec

-----------------------------------------------------------------------------
(* The loop of an EventLoopThread, whose owner is the only other thread: for *)
(* any functors and any eventfd limit.  What is proved above of every loop  *)
(* is used here of this one.                                                *)

CONSTANT Owner

VARIABLES loop_, ownerPc, funcPc

T == INSTANCE EventLoopThread

\* The loop inside the thread is the loop above.
LEMMA SameStep ==
  ASSUME Threads = {Owner}, EarlyTasks = {}
  PROVE  T!L!LoopStep <=> LoopStep
  BY DEF T!L!LoopStep, T!L!ResetQuit, T!L!LeaveLoop, T!L!CallPoll, T!L!PollWakes,
         T!L!PollReturns, T!L!HandleRead, T!L!CallHandler, T!L!HandlerReturns,
         T!L!SwapPending, T!L!CallFunctor, T!L!FunctorReturns, T!L!PendingDone,
         T!L!loopVars, T!L!Wakeup, T!L!IO,
         LoopStep, ResetQuit, LeaveLoop, CallPoll, PollWakes, PollReturns, HandleRead,
         CallHandler, HandlerReturns, SwapPending, CallFunctor, FunctorReturns,
         PendingDone, loopVars, Wakeup, IO

LEMMA SameTypes ==
  ASSUME Threads = {Owner}, EarlyTasks = {}
  PROVE  (T!L!TypeOK <=> TypeOK) /\ (T!L!TypeOK' <=> TypeOK')
  BY DEF T!L!TypeOK, TypeOK, T!L!LoopPcs, LoopPcs, T!L!ThreadPcs, ThreadPcs, T!L!Wakeup,
         Wakeup, T!L!IO, IO

LEMMA SameLoop ==
  ASSUME Threads = {Owner}, EarlyTasks = {}
  PROVE  /\ T!L!Init <=> Init
         /\ T!L!vars = vars
         /\ T!L!Next <=> Next
         /\ T!L!TypeOK <=> TypeOK
  <1>1. T!L!Init <=> Init
    BY DEF T!L!Init, Init
  <1>2. T!L!vars = vars
    BY DEF T!L!vars, vars
  <1>3. T!L!Next <=> Next
    BY SameStep DEF T!L!Next, T!L!EnterLoop, T!L!PollSeesIO, T!L!PollTimesOut, T!L!QuitOnLoop,
         T!L!QueueOnLoop, T!L!QueueInLoop, T!L!Quit, T!L!WakeLoop, T!L!loopVars,
         T!L!PollReturns, T!L!IO, T!L!wakeup, T!L!Free, T!L!Queued, T!L!Range, T!L!Wakeup,
         Next, EnterLoop, PollSeesIO, PollTimesOut, QuitOnLoop, QueueOnLoop, QueueInLoop,
         Quit, WakeLoop, loopVars, PollReturns, IO, wakeup, Free, Queued, Range, Wakeup
  <1>4. QED
    BY <1>1, <1>2, <1>3, SameTypes

-----------------------------------------------------------------------------

LEMMA ThreadInitInv ==
  ASSUME Threads = {Owner}, EarlyTasks = {}
  PROVE  T!Init => T!ThreadInv
  <1> SUFFICES ASSUME T!Init PROVE T!ThreadInv
    OBVIOUS
  <1>1. TypeOK
    BY InitInv, SameLoop DEF T!Init, LoopInv
  <1>2. T!L!TypeOK
    BY <1>1, SameLoop
  <1>3. T!TypeOK
    BY <1>2 DEF T!Init, T!TypeOK, T!OwnerPcs, T!FuncPcs
  <1>4. QED
    BY <1>3 DEF T!Init, T!L!Init, T!ThreadInv, T!StartInv, T!CallInv, T!NotificationIsKept,
                T!QuitHoldsUnlessForgotten

\* Whatever the two threads do, the loop makes a step of EventLoop or none.
LEMMA StepIsLoopStep == [T!Next]_(T!vars) => [T!L!Next]_(T!L!vars)
  <1> SUFFICES ASSUME [T!Next]_(T!vars) PROVE [T!L!Next]_(T!L!vars)
    OBVIOUS
  <1>1. UNCHANGED T!loop => UNCHANGED T!L!vars
    BY DEF T!loop, T!L!vars
  <1>2. CASE T!CallLoop
    BY <1>2 DEF T!CallLoop, T!L!Next
  <1>3. CASE T!RunLoop
    BY <1>3 DEF T!RunLoop, T!L!Next
  <1>4. CASE T!OnLoop
    BY <1>4 DEF T!OnLoop, T!L!Next
  <1>5. CASE (\E t \in Tasks : T!RunInLoop(t)) \/ T!OwnerQuits \/ T!WakeLoop \/ T!DestructorQuits
    BY <1>5 DEF T!RunInLoop, T!OwnerQuits, T!WakeLoop, T!DestructorQuits, T!L!Next
  <1>6. CASE \/ T!StartThread \/ T!CheckLoop \/ T!SpuriousWakeup \/ T!MakeLoop
             \/ T!Destructor \/ T!Join
    BY <1>1, <1>6 DEF T!StartThread, T!CheckLoop, T!SpuriousWakeup, T!MakeLoop, T!Destructor, T!Join
  <1>7. CASE UNCHANGED T!vars
    BY <1>1, <1>7 DEF T!vars
  <1>8. QED
    BY <1>2, <1>3, <1>4, <1>5, <1>6, <1>7 DEF T!Next, T!ThreadStep, T!OwnerStep

\* The loop's own invariant.
LEMMA StepKeepsLoop ==
  ASSUME Threads = {Owner}, EarlyTasks = {}
  PROVE  LoopInv /\ [T!Next]_(T!vars) => LoopInv'
  <1>1. [T!Next]_(T!vars) => [T!L!Next]_(T!L!vars)
    BY StepIsLoopStep
  <1>2. UNCHANGED T!L!vars => UNCHANGED vars
    BY DEF T!L!vars, vars
  <1>3. QED
    BY <1>1, <1>2, SameLoop, StepInv

\* What a step of the loop's thread inside loop() does to the flag and to where it is.
LEMMA LoopStepMoves ==
  ASSUME T!L!LoopStep
  PROVE  /\ pc # "outside"
         /\ pc \in T!L!LoopPcs
         /\ pc' \in T!L!LoopPcs
         /\ threadPc' = threadPc
         /\ pc' = "outside" => quit_ /\ quit_' = quit_
         /\ quit_' # quit_ => pc' = "while"
         /\ pc \in T!L!InWhile /\ pc' # "outside" => quit_' = quit_ /\ pc' \in T!L!InWhile
  BY DEF T!L!LoopStep, T!L!ResetQuit, T!L!LeaveLoop, T!L!CallPoll, T!L!PollWakes, T!L!PollReturns,
         T!L!HandleRead, T!L!CallHandler, T!L!HandlerReturns, T!L!SwapPending, T!L!CallFunctor,
         T!L!FunctorReturns, T!L!PendingDone, T!L!loopVars, T!L!InWhile, T!L!LoopPcs

LEMMA ThreadStepInv == T!ThreadInv /\ T!L!TypeOK' /\ [T!Next]_(T!vars) => T!ThreadInv'
  <1> SUFFICES ASSUME T!ThreadInv, T!L!TypeOK', [T!Next]_(T!vars) PROVE T!ThreadInv'
    OBVIOUS
  <1> USE DEF T!ThreadInv, T!TypeOK, T!OwnerPcs, T!FuncPcs, T!StartInv, T!CallInv,
              T!NotificationIsKept, T!QuitHoldsUnlessForgotten
  <1>1. pc \in T!L!LoopPcs /\ threadPc \in [{Owner} -> {"idle", "wakeup"}] /\ quit_ \in BOOLEAN
    BY DEF T!L!TypeOK, T!L!ThreadPcs
  <1>2. CASE \/ T!StartThread \/ T!CheckLoop \/ T!SpuriousWakeup \/ T!MakeLoop
             \/ T!Destructor \/ T!Join
    <2>1. pc' = pc /\ threadPc' = threadPc /\ quit_' = quit_
      BY <1>2 DEF T!StartThread, T!CheckLoop, T!SpuriousWakeup, T!MakeLoop,
                     T!Destructor, T!Join, T!loop
    <2>2. CASE T!StartThread
      BY <2>1, <2>2, <1>1 DEF T!StartThread
    <2>3. CASE T!CheckLoop
      BY <2>1, <2>3, <1>1 DEF T!CheckLoop
    <2>4. CASE T!SpuriousWakeup
      BY <2>1, <2>4, <1>1 DEF T!SpuriousWakeup
    <2>5. CASE T!MakeLoop
      BY <2>1, <2>5, <1>1 DEF T!MakeLoop
    <2>6. CASE T!Destructor
      BY <2>1, <2>6, <1>1 DEF T!Destructor
    <2>7. CASE T!Join
      BY <2>1, <2>7, <1>1 DEF T!Join
    <2>8. QED
      BY <1>2, <2>2, <2>3, <2>4, <2>5, <2>6, <2>7
  <1>3. CASE T!CallLoop
    BY <1>3 DEF T!CallLoop, T!L!EnterLoop, T!L!InWhile
  <1>4. CASE T!RunLoop
    <2>1. /\ funcPc = "loop" /\ UNCHANGED <<loop_, ownerPc>>
          /\ funcPc' = IF pc' = "outside" THEN "returned" ELSE "loop"
      BY <1>4 DEF T!RunLoop
    <2>2. /\ pc # "outside" /\ threadPc' = threadPc
          /\ pc' = "outside" => quit_ /\ quit_' = quit_
          /\ quit_' # quit_ => pc' = "while"
          /\ pc \in T!L!InWhile /\ pc' # "outside" => quit_' = quit_ /\ pc' \in T!L!InWhile
      BY <1>4, LoopStepMoves DEF T!RunLoop
    <2>3. "while" \in T!L!InWhile
      BY DEF T!L!InWhile, T!L!LoopPcs
    <2>4. QED
      BY <2>1, <2>2, <2>3
  <1>5. CASE T!OnLoop
    <2>1. /\ funcPc = "loop" /\ UNCHANGED <<loop_, ownerPc, funcPc>>
          /\ threadPc' = threadPc
          /\ quit_' = quit_ \/ quit_' = TRUE
          /\ pc' # "outside"
          /\ pc \in T!L!InWhile => pc' \in T!L!InWhile
      BY <1>5 DEF T!OnLoop, T!L!PollSeesIO, T!L!PollTimesOut, T!L!PollReturns, T!L!QuitOnLoop,
                  T!L!QueueOnLoop, T!L!loopVars, T!L!InWhile, T!L!LoopPcs
    <2>2. QED
      BY <2>1
  <1>6. ASSUME NEW t \in Tasks, T!RunInLoop(t)
        PROVE  T!ThreadInv'
    BY <1>1, <1>6 DEF T!RunInLoop, T!L!QueueInLoop, T!L!loopVars
  <1>7. CASE T!OwnerQuits
    BY <1>1, <1>7 DEF T!OwnerQuits, T!L!Quit
  <1>8. CASE T!WakeLoop
    BY <1>1, <1>8 DEF T!WakeLoop, T!L!WakeLoop, T!L!loopVars
  <1>9. CASE T!DestructorQuits
    BY <1>1, <1>9 DEF T!DestructorQuits, T!L!Quit
  <1>10. CASE UNCHANGED T!vars
    BY <1>10 DEF T!vars, T!loop
  <1>11. QED
    BY <1>2, <1>3, <1>4, <1>5, <1>6, <1>7, <1>8, <1>9, <1>10 DEF T!Next, T!ThreadStep, T!OwnerStep

THEOREM ThreadInvariant ==
  ASSUME Threads = {Owner}, EarlyTasks = {}
  PROVE  T!Spec => [](T!ThreadInv /\ LoopInv)
  <1>1. T!Init => T!ThreadInv /\ LoopInv
    BY ThreadInitInv, InitInv, SameLoop DEF T!Init
  <1>2. T!ThreadInv /\ LoopInv /\ [T!Next]_(T!vars) => T!ThreadInv' /\ LoopInv'
    <2>1. LoopInv' => T!L!TypeOK'
      BY SameTypes DEF LoopInv
    <2>2. QED
      BY <2>1, StepKeepsLoop, ThreadStepInv
  <1>3. QED
    BY <1>1, <1>2, PTL DEF T!Spec

\* The loop, the owner and threadFuc() keep their types.
THEOREM ThreadTypeCorrect ==
  ASSUME Threads = {Owner}, EarlyTasks = {}
  PROVE  T!Spec => []T!TypeOK
  <1>1. T!ThreadInv => T!TypeOK
    BY DEF T!ThreadInv
  <1>2. QED
    BY <1>1, ThreadInvariant, PTL

\* The loop that runs in an EventLoopThread is an EventLoop with its owner as its only
\* other thread, so that what is proved of every EventLoop is true of it
\* (EventLoopThread::threadFuc).
THEOREM ThreadRunsEventLoop == T!Spec => T!L!Spec
  <1>1. T!Init => T!L!Init
    BY DEF T!Init
  <1>2. QED
    BY <1>1, StepIsLoopStep, PTL DEF T!Spec, T!L!Spec

\* No notification is lost in startLoop(), whichever thread takes the mutex first, and
\* the loop it returns is there (EventLoopThread::startLoop).
THEOREM StartLoopIsNotified ==
  ASSUME Threads = {Owner}, EarlyTasks = {}
  PROVE  T!Spec => []T!NotificationIsKept
  <1>1. T!ThreadInv => T!NotificationIsKept
    BY DEF T!ThreadInv
  <1>2. QED
    BY <1>1, ThreadInvariant, PTL

\* The loop never sleeps on a functor or a quit() of its owner once the call has returned,
\* also when it came before loop() was entered.
THEOREM CallsAreHeard ==
  ASSUME Threads = {Owner}, EarlyTasks = {}
  PROVE  T!Spec => []T!OwnerIsHeard
  <1>1. LoopInv => T!OwnerIsHeard
    <2> SUFFICES ASSUME LoopInv, pc = "poll", threadPc[Owner] = "idle",
                        pendingFunctors_ # <<>> \/ quit_
                 PROVE  wakeupFd_ > 0
      BY DEF T!OwnerIsHeard
    <2>1. Announced => wakeupFd_ > 0
      BY DEF Announced
    <2>2. CASE quit_
      BY <2>1, <2>2 DEF LoopInv, NoSleepAfterQuit
    <2>3. CASE pendingFunctors_ # <<>>
      <3>1. pendingFunctors_ \in Seq(Tasks)
        BY DEF LoopInv, TypeOK
      <3>2. 1 \in DOMAIN pendingFunctors_
        BY <2>3, <3>1
      <3>3. QED
        BY <2>1, <3>2 DEF LoopInv, WakeInv
    <2>4. QED
      BY <2>2, <2>3
  <1>2. QED
    BY <1>1, ThreadInvariant, PTL

\* Only quit_ = false of loop() can undo the quit() of the destructor, by coming after it;
\* a thread that was joined has been told to quit (EventLoopThread::~EventLoopThread).
THEOREM DestructorStopsLoop ==
  ASSUME Threads = {Owner}, EarlyTasks = {}
  PROVE  T!Spec => []T!QuitHoldsUnlessForgotten
  <1>1. T!ThreadInv => T!QuitHoldsUnlessForgotten
    BY DEF T!ThreadInv
  <1>2. QED
    BY <1>1, ThreadInvariant, PTL

=============================================================================
