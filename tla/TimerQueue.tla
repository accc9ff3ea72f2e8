----------------------------- MODULE TimerQueue -----------------------------
(****************************************************************************)
(* reactor/s13/TimerQueue: the timers of one loop, the set of their ids,    *)
(* the batch of expired timers being called, and the timerfd.               *)
(*                                                                          *)
(* addTimer() and cancel() are called by the loop's thread, where they act  *)
(* at once, in a timer's callback too, and by other threads, where they     *)
(* become functors of the loop.  Time is counted in units of 100            *)
(* microseconds, the shortest time the timerfd is set to.                   *)
(*                                                                          *)
(* One clock stands for two: Timestamp::now() reads the time of day and the *)
(* timerfd counts CLOCK_MONOTONIC.  They go together as long as nobody sets *)
(* the time of day while the program runs.                                  *)
(****************************************************************************)
EXTENDS Integers, Sequences, Functions

CONSTANTS
  Timers,        \* the addresses of Timer objects; freed ones are used again
  Delays,        \* when a timer may first be due, from now; also in the past
  Intervals,     \* of repeating timers; 0 stands for a timer that does not repeat
  TimeInt,       \* 2^31 microseconds: the int of howMuchTimeFromNow()
  SequenceInt,   \* 2^31: the int of TimerId's constructor
  MaxNow,        \* bound on the clock
  MaxCreated,    \* bound: addTimer() is not called with a larger sequence
  MaxFunctors    \* bound: functors of other threads waiting at a time

ASSUME TimerQueueAssumption ==
  /\ Delays \subseteq Int
  /\ Intervals \subseteq Nat
  /\ TimeInt \in Nat \ {0}
  /\ \A d \in Delays : d >= -TimeInt
  /\ SequenceInt \in Nat \ {0}
  /\ MaxNow \in Nat
  /\ MaxCreated \in Nat
  /\ MaxFunctors \in Nat

VARIABLES
  now,
  armed, readable,      \* the timerfd: when it goes off, or Never; and whether it did
  timer,                \* the Timer objects
  numCreated,           \* Timer::s_numCreated
  timers_,
  activeTimers_,
  cancelingTimers_,
  pc,                   \* "loop", or in handleRead(): "batch", "callback"
  batchNow,             \* handleRead()'s now
  expiredTimers,        \* handleRead()'s batch ...
  uncalled,             \* ... and those of it still to be called
  functors,             \* queued by other threads
  ids,                  \* TimerIds that addTimer() has returned
  cancelled             \* history: of timers cancelInLoop() found

timerfd == <<armed, readable>>
sets    == <<timers_, activeTimers_>>
batch   == <<pc, batchNow, expiredTimers, uncalled>>
vars    == <<now, timerfd, timer, numCreated, sets, cancelingTimers_, batch,
             functors, ids, cancelled>>

Never == -1

\* A free address.
Free == [sequence |-> 0, expiraton |-> 0, interval |-> 0]

TimerIds == [timer : Timers, sequence : Int]
Calls    == [call : {"addTimerInLoop", "cancelInLoop"}, id : TimerIds]

TypeOK ==
  /\ now \in Nat
  /\ armed \in Nat \cup {Never}
  /\ readable \in BOOLEAN
  /\ timer \in [Timers -> [sequence : Nat, expiraton : Int, interval : Nat]]
  /\ numCreated \in Nat \ {0}
  /\ timers_ \subseteq Timers
  /\ activeTimers_ \subseteq TimerIds
  /\ cancelingTimers_ \subseteq TimerIds
  /\ pc \in {"loop", "batch", "callback"}
  /\ batchNow \in Nat
  /\ expiredTimers \subseteq Timers
  /\ uncalled \subseteq expiredTimers
  /\ functors \in Seq(Calls)
  /\ ids \subseteq TimerIds
  /\ cancelled \subseteq TimerIds

Init ==
  /\ now = 0
  /\ armed = Never
  /\ readable = FALSE
  /\ timer = [a \in Timers |-> Free]
  /\ numCreated = 1
  /\ timers_ = {}
  /\ activeTimers_ = {}
  /\ cancelingTimers_ = {}
  /\ pc = "loop"
  /\ batchNow = 0
  /\ expiredTimers = {}
  /\ uncalled = {}
  /\ functors = <<>>
  /\ ids = {}
  /\ cancelled = {}

-----------------------------------------------------------------------------

\* The value of an int that was given n; half is 2^31.
Narrow(n, half) == ((n + half) % (2 * half)) - half

\* TimerId(Timer*, int): the sequence goes through an int.
TimerId(a, sequence) == [timer |-> a, sequence |-> Narrow(sequence, SequenceInt)]

IdOf(a) == TimerId(a, timer[a].sequence)

\* howMuchTimeFromNow(): at least one unit, after the narrowing.
HowMuchTimeFromNow(when) ==
  LET units == Narrow(when - now, TimeInt) IN IF units < 1 THEN 1 ELSE units

\* resetTimerFd(): setting the timerfd also makes it unreadable.
ResetTimerFd(when) ==
  /\ armed' = now + HowMuchTimeFromNow(when)
  /\ readable' = FALSE

\* The assertions of insert().
InsertAsserts(a, made) ==
  /\ TimerId(a, made.sequence) \notin activeTimers_
  /\ \A b \in timers_ :
       <<timer[b].expiraton, timer[b].sequence>> # <<made.expiraton, made.sequence>>

\* Mutant: an insert() that sets the timerfd for an empty set only.
EarliestIfAlone(when) == timers_ = {}

\* insert() sets the timerfd for a timer that comes before all others.
Earliest(when) == \A b \in timers_ : timer[b].expiraton > when

\* insert() of each of the timers in S, whose objects are the ones in heap; the
\* timerfd is left set for the earliest of them, if it was set at all.
Insert(S, heap) ==
  /\ \A a \in S : InsertAsserts(a, heap[a])
  /\ timers_' = timers_ \cup S
  /\ activeTimers_' = activeTimers_ \cup {TimerId(a, heap[a].sequence) : a \in S}
  /\ IF \E a \in S : Earliest(heap[a].expiraton)
     THEN \E a \in S :
            /\ Earliest(heap[a].expiraton)
            /\ \A b \in S : heap[a].expiraton <= heap[b].expiraton
            /\ ResetTimerFd(heap[a].expiraton)
     ELSE UNCHANGED timerfd

-----------------------------------------------------------------------------
(* addTimer() and cancel().                                                 *)

\* Application code on the loop's thread, in a timer's callback or elsewhere.
OnLoop == pc \in {"loop", "callback"}

\* new Timer, at a free address.
Create(a, when, interval) ==
  /\ numCreated <= MaxCreated
  /\ timer[a] = Free
  /\ timer' = [timer EXCEPT ![a] =
                 [sequence |-> numCreated, expiraton |-> when, interval |-> interval]]
  /\ numCreated' = numCreated + 1
  /\ ids' = ids \cup {TimerId(a, numCreated)}

AddOnLoop(a, when, interval) ==
  /\ OnLoop
  /\ Create(a, when, interval)
  /\ Insert({a}, timer')
  /\ UNCHANGED <<now, cancelingTimers_, batch, functors, cancelled>>

Queue(call, id) ==
  /\ Len(functors) < MaxFunctors
  /\ functors' = Append(functors, [call |-> call, id |-> id])

AddElsewhere(a, when, interval) ==
  /\ Create(a, when, interval)
  /\ Queue("addTimerInLoop", TimerId(a, numCreated))
  /\ UNCHANGED <<now, timerfd, sets, cancelingTimers_, batch, cancelled>>

\* cancelInLoop() looks timers_ up with a key made from the id, whose sequence
\* is the narrowed one, and asserts to find the timer.
CancelAsserts(id) ==
  /\ id.timer \in timers_
  /\ timer[id.timer].sequence = id.sequence

\* cancelInLoop() with callingExpiredTimers_: it may be a timer of the batch.
CancelBatch(id) ==
  /\ cancelingTimers_' = cancelingTimers_ \cup {id}
  /\ cancelled' = cancelled \cup ({id} \cap {IdOf(a) : a \in expiredTimers})
  /\ UNCHANGED <<timer, numCreated, sets>>

\* Mutant: timers_ keeps the entry of a timer that was destroyed.
CancelActiveHalf(id) ==
  /\ CancelAsserts(id)
  /\ activeTimers_' = activeTimers_ \ {id}
  /\ timer' = [timer EXCEPT ![id.timer] = Free]
  /\ numCreated' = numCreated + 1
  /\ cancelled' = cancelled \cup {id}
  /\ UNCHANGED <<timers_, cancelingTimers_>>

\* cancelInLoop(), the id is active.  The Timer made for the key takes a sequence.
CancelActive(id) ==
  /\ CancelAsserts(id)
  /\ activeTimers_' = activeTimers_ \ {id}
  /\ timers_' = timers_ \ {id.timer}
  /\ timer' = [timer EXCEPT ![id.timer] = Free]
  /\ numCreated' = numCreated + 1
  /\ cancelled' = cancelled \cup {id}
  /\ UNCHANGED cancelingTimers_

\* cancelInLoop(); a timer that is not active yet, or no longer, is not found.
CancelInLoop(id) ==
  \/ id \in activeTimers_ /\ CancelActive(id)
  \/ id \notin activeTimers_ /\ pc # "loop" /\ CancelBatch(id)
  \/ /\ id \notin activeTimers_ /\ pc = "loop"
     /\ UNCHANGED <<timer, numCreated, sets, cancelingTimers_, cancelled>>

CancelOnLoop(id) ==
  /\ OnLoop
  /\ CancelInLoop(id)
  /\ UNCHANGED <<now, timerfd, batch, functors, ids>>

CancelElsewhere(id) ==
  /\ Queue("cancelInLoop", id)
  /\ UNCHANGED <<now, timerfd, timer, numCreated, sets, cancelingTimers_, batch, ids,
                 cancelled>>

\* The loop calls the functors between two polls.
RunFunctor ==
  /\ pc = "loop"
  /\ functors # <<>>
  /\ functors' = Tail(functors)
  /\ LET id == Head(functors).id IN
     \/ /\ Head(functors).call = "addTimerInLoop"
        /\ Insert({id.timer}, timer)
        /\ UNCHANGED <<timer, numCreated, cancelingTimers_, cancelled>>
     \/ /\ Head(functors).call = "cancelInLoop"
        /\ CancelInLoop(id)
        /\ UNCHANGED timerfd
  /\ UNCHANGED <<now, batch, ids>>

-----------------------------------------------------------------------------
(* handleRead().                                                            *)

\* Mutant: handleRead() reads the timerfd, and nothing sets it for the timers
\* that are left.
ReadTimerFd == readable' = FALSE /\ UNCHANGED armed

\* handleRead() does not read the timerfd, which stays readable until it is set.
LeaveTimerFd == UNCHANGED timerfd

\* The timers getExpired() moves into the batch.
Expired == {a \in timers_ : timer[a].expiraton <= now}

\* The start of handleRead(), with getExpired().
HandleRead ==
  /\ pc = "loop"
  /\ readable
  /\ \A a \in Expired : IdOf(a) \in activeTimers_
  /\ pc' = "batch"
  /\ batchNow' = now
  /\ expiredTimers' = Expired
  /\ uncalled' = Expired
  /\ timers_' = timers_ \ Expired
  /\ activeTimers_' = activeTimers_ \ {IdOf(a) : a \in Expired}
  /\ LeaveTimerFd
  /\ UNCHANGED <<now, timer, numCreated, cancelingTimers_, functors, ids, cancelled>>

\* The order of timers_ and so of the batch: CompareEntry.
NotAfter(a, b) ==
  \/ timer[a].expiraton < timer[b].expiraton
  \/ timer[a].expiraton = timer[b].expiraton /\ timer[a].sequence <= timer[b].sequence

CallTimer(a) ==
  /\ pc = "batch"
  /\ a \in uncalled
  /\ \A b \in uncalled : NotAfter(a, b)
  /\ pc' = "callback"
  /\ uncalled' = uncalled \ {a}
  /\ UNCHANGED <<now, timerfd, timer, numCreated, sets, cancelingTimers_, batchNow,
                 expiredTimers, functors, ids, cancelled>>

CallbackReturns ==
  /\ pc = "callback"
  /\ pc' = "batch"
  /\ UNCHANGED <<now, timerfd, timer, numCreated, sets, cancelingTimers_, batchNow,
                 expiredTimers, uncalled, functors, ids, cancelled>>

\* The timers of the batch that reset() inserts again.
Repeating ==
  {a \in expiredTimers : timer[a].interval > 0 /\ IdOf(a) \notin cancelingTimers_}

\* What becomes of the objects: restart(), or destroyed with the batch.
AfterReset ==
  [a \in Timers |->
     IF a \in Repeating THEN [timer[a] EXCEPT !.expiraton = batchNow + timer[a].interval]
     ELSE IF a \in expiredTimers THEN Free
     ELSE timer[a]]

\* The end of handleRead(): reset() and the end of the batch.
Reset ==
  /\ pc = "batch"
  /\ uncalled = {}
  /\ Insert(Repeating, AfterReset)
  /\ timer' = AfterReset
  /\ cancelingTimers_' = {}
  /\ pc' = "loop"
  /\ batchNow' = 0
  /\ expiredTimers' = {}
  /\ UNCHANGED <<now, numCreated, uncalled, functors, ids, cancelled>>

-----------------------------------------------------------------------------
(* The clock and the timerfd.                                               *)

\* The loop's thread is never held up for half an hour: a timer is not handed to
\* insert() later than 2^31 microseconds after it was due.
NotStalled ==
  /\ pc # "loop" => now + 1 - batchNow <= TimeInt
  /\ \A i \in DOMAIN functors :
       functors[i].call = "addTimerInLoop" =>
         now + 1 - timer[functors[i].id.timer].expiraton <= TimeInt

\* The bound on the clock, which does not keep a timer waiting that is overdue and
\* about to be noticed.
ClockRuns == now < MaxNow \/ (Expired # {} /\ armed = now + 1)

Tick ==
  /\ ClockRuns
  /\ NotStalled
  /\ now' = now + 1
  /\ IF armed = now + 1
     THEN readable' = TRUE /\ armed' = Never
     ELSE UNCHANGED timerfd
  /\ UNCHANGED <<timer, numCreated, sets, cancelingTimers_, batch, functors, ids, cancelled>>

-----------------------------------------------------------------------------

Next ==
  \/ \E a \in Timers, d \in Delays, interval \in Intervals :
       AddOnLoop(a, now + d, interval) \/ AddElsewhere(a, now + d, interval)
  \/ \E id \in ids : CancelOnLoop(id) \/ CancelElsewhere(id)
  \/ RunFunctor
  \/ HandleRead
  \/ \E a \in Timers : CallTimer(a)
  \/ CallbackReturns
  \/ Reset
  \/ Tick

Spec == Init /\ [][Next]_vars

(* Time passes, the loop keeps running and callbacks return.  The loop calls *)
(* its functors after every ::poll, even while the timerfd stays readable.   *)
Fairness ==
  /\ WF_vars(Tick)
  /\ SF_vars(RunFunctor)
  /\ WF_vars(HandleRead)
  /\ WF_vars(\E a \in Timers : CallTimer(a))
  /\ WF_vars(CallbackReturns)
  /\ WF_vars(Reset)

FairSpec == Spec /\ Fairness

-----------------------------------------------------------------------------
(* Properties.                                                              *)

\* timers_ and activeTimers_ hold the same timers between any two calls, which
\* is more than the assertions on their sizes say.
SetsAgree == activeTimers_ = {IdOf(a) : a \in timers_}

\* Timers whose insertion another thread has queued.
Adding == {i \in DOMAIN functors : functors[i].call = "addTimerInLoop"}
Queued == {functors[i].id.timer : i \in Adding}

\* A timer is in one place only, and none of these places refers to a Timer that
\* was destroyed: cancelInLoop() and reset() destroy a timer once.
OneOwner ==
  /\ timers_ \cap expiredTimers = {}
  /\ Queued \cap (timers_ \cup expiredTimers) = {}
  /\ \A a \in Timers : a \in timers_ \cup expiredTimers \cup Queued <=> timer[a] # Free

\* A timer that waits is never forgotten by the timerfd, though handleRead() never
\* reads it and sets it only for a new earliest timer: it is readable, or set for
\* a time no later than any timer is due (or for the next unit).
TimerfdCovers ==
  timers_ # {} /\ ~readable =>
    /\ armed > now
    /\ \A a \in timers_ : armed <= timer[a].expiraton \/ armed = now + 1

\* cancelInLoop(): assert(itNewEntry != timers_.end() && ...).
CancelFindsTimer == \A id \in activeTimers_ : CancelAsserts(id)

\* No legal call of cancelInLoop(), getExpired() or insert() fails an assertion, as
\* long as sequences fit into an int.
NoAssertFails ==
  /\ CancelFindsTimer
  /\ \A a \in timers_ : IdOf(a) \in activeTimers_
  /\ \A a \in Queued : InsertAsserts(a, timer[a])
  /\ \A a \in Repeating : InsertAsserts(a, AfterReset[a])

\* The alarms a caller can still expect to run, as Alarms sees them.
Scheduled == timers_ \cup Queued \cup uncalled \cup Repeating

DueAt(a) ==
  IF a \in expiredTimers \ uncalled THEN batchNow + timer[a].interval
  ELSE timer[a].expiraton

Due == [id \in {IdOf(a) : a \in Scheduled} |->
          [at |-> DueAt(id.timer), every |-> timer[id.timer].interval]]

Al == INSTANCE Alarms WITH
        Ids <- [timer : Timers, sequence : 1..(2 * MaxCreated)],
        time <- now,
        made <- ids,
        due <- Due

\* Timers behave as alarms: none runs early, twice, or again after a cancel() that
\* found it, and a repeating one keeps its interval.
ImplementsAlarmsSafely == Al!SafeSpec

\* ... and each alarm that is due runs or is cancelled, though the timerfd is never
\* read and is set for new earliest timers only.
ImplementsAlarms == Al!Spec

-----------------------------------------------------------------------------
(* The inductive strengthening of the invariants.                           *)

\* Outside of handleRead() there is no batch.
BatchInv ==
  /\ pc = "loop" => expiredTimers = {}
  /\ batchNow <= now

\* The loop's thread has not been held up: NotStalled, from the last tick on.
LagInv ==
  /\ pc # "loop" => now - batchNow <= TimeInt
  /\ \A a \in Queued : now - timer[a].expiraton <= TimeInt

\* A timer waits for one insertion, under its own id.
QueueInv ==
  /\ \A i \in Adding : functors[i].id = IdOf(functors[i].id.timer)
  /\ \A i, j \in Adding : functors[i].id.timer = functors[j].id.timer => i = j

\* Sequences are given out once.
SequenceInv ==
  /\ \A a \in Timers : timer[a].sequence < numCreated
  /\ \A a \in Timers : timer[a].sequence = 0 => timer[a] = Free
  /\ \A a, b \in Timers :
       timer[a].sequence = timer[b].sequence => a = b \/ timer[a].sequence = 0

\* Every timer goes by an id addTimer() has returned, and so does every functor;
\* no id is returned twice.
NamesInv ==
  /\ \A id \in ids : id.sequence \in 1..MaxCreated /\ id.sequence < numCreated
  /\ \A a \in Timers : timer[a] # Free => IdOf(a) \in ids
  /\ \A i \in DOMAIN functors : functors[i].id \in ids

\* A timer that was cancelled and still exists is in the batch, in cancelingTimers_ too.
CancelInv ==
  /\ pc = "loop" => cancelingTimers_ = {}
  /\ cancelled \subseteq ids
  /\ \A a \in expiredTimers : IdOf(a) \in cancelled <=> IdOf(a) \in cancelingTimers_
  /\ \A a \in timers_ \cup Queued : IdOf(a) \notin cancelled

\* The timers of the batch were due when it was taken.
DueInv == \A a \in expiredTimers : timer[a].expiraton <= batchNow

\* What TimerQueueInv lacks for the steps of Alarms.
AlarmInv == NamesInv /\ CancelInv /\ DueInv

TimerQueueInv ==
  /\ TypeOK
  /\ SetsAgree
  /\ OneOwner
  /\ TimerfdCovers
  /\ BatchInv
  /\ LagInv
  /\ QueueInv
  /\ SequenceInv

=============================================================================
