-------------------------- MODULE TimerQueueProofs --------------------------
(****************************************************************************)
(* Proofs about TimerQueue for any timers, delays, intervals and widths.    *)
(****************************************************************************)
EXTENDS TimerQueue, SequenceTheorems, TLAPS

USE DEF Never

-----------------------------------------------------------------------------
(* Narrowing, and the timerfd.                                              *)

LEMMA NarrowType ==
  ASSUME NEW n \in Int, NEW half \in Nat \ {0}
  PROVE  Narrow(n, half) \in Int
  BY DEF Narrow

\* What an int keeps of a number above its minimum is never greater than it.
LEMMA NarrowIsNotGreater ==
  ASSUME NEW n \in Int, NEW half \in Nat \ {0}, n >= -half
  PROVE  Narrow(n, half) <= n
  <1> DEFINE m == 2 * half
             k == n + half
  <1>1. m \in Nat \ {0} /\ k \in Nat
    OBVIOUS
  <1>2. k % m <= k
    <2> HIDE DEF m, k
    <2>1. k = m * (k \div m) + (k % m) /\ k \div m \in Int /\ k % m \in 0..(m - 1)
      BY <1>1
    <2>2. k \div m >= 0
      BY <1>1
    <2>3. m * (k \div m) >= 0
      BY <1>1, <2>1, <2>2
    <2>4. QED
      BY <1>1, <2>1, <2>3
  <1>3. QED
    BY <1>1, <1>2 DEF Narrow

\* The timerfd is set for some time after now, and not after the time wanted
\* unless that is the next unit.
LEMMA SetInTime ==
  ASSUME now \in Nat, NEW when \in Int, now - when <= TimeInt
  PROVE  LET at == now + HowMuchTimeFromNow(when)
         IN  at \in Nat /\ at > now /\ (at <= when \/ at = now + 1)
  <1> DEFINE units == Narrow(when - now, TimeInt)
  <1>1. TimeInt \in Nat \ {0}
    BY TimerQueueAssumption
  <1>2. units \in Int
    BY <1>1, NarrowType
  <1>3. units <= when - now
    BY <1>1, NarrowIsNotGreater
  <1>4. QED
    <2> HIDE DEF units
    <2>1. HowMuchTimeFromNow(when) = IF units < 1 THEN 1 ELSE units
      BY DEF HowMuchTimeFromNow, units
    <2>2. QED
      BY <1>2, <1>3, <2>1

LEMMA IdTypes ==
  ASSUME NEW a \in Timers, NEW n \in Nat
  PROVE  TimerId(a, n) \in TimerIds /\ TimerId(a, n).timer = a
  BY NarrowType, TimerQueueAssumption DEF TimerId, TimerIds

-----------------------------------------------------------------------------
(* The queue of functors.                                                   *)

\* Appending a functor.
LEMMA QueueAppend ==
  ASSUME functors \in Seq(Calls), NEW f \in Calls, functors' = Append(functors, f)
  PROVE  /\ functors' \in Seq(Calls)
         /\ f.call # "addTimerInLoop" => Adding' = Adding
         /\ f.call = "addTimerInLoop" => Adding' = Adding \cup {Len(functors) + 1}
         /\ Len(functors) + 1 \notin Adding
         /\ \A i \in Adding : functors'[i] = functors[i]
         /\ functors'[Len(functors) + 1] = f
  <1>1. /\ functors' \in Seq(Calls)
        /\ Len(functors') = Len(functors) + 1
        /\ \A i \in 1..Len(functors) : functors'[i] = functors[i]
        /\ functors'[Len(functors) + 1] = f
    BY AppendProperties
  <1>2. DOMAIN functors = 1..Len(functors) /\ DOMAIN functors' = 1..Len(functors')
        /\ Len(functors) \in Nat
    BY <1>1, LenProperties
  <1>3. QED
    BY <1>1, <1>2 DEF Adding

\* Calling the first functor: the others move one place forward.
LEMMA QueueTail ==
  ASSUME functors \in Seq(Calls), functors # <<>>, functors' = Tail(functors)
  PROVE  /\ Head(functors) \in Calls
         /\ Head(functors) = functors[1]
         /\ functors' \in Seq(Calls)
         /\ Head(functors).call = "addTimerInLoop" <=> 1 \in Adding
         /\ \A i \in Adding' : i + 1 \in Adding /\ functors'[i] = functors[i + 1]
         /\ \A i \in Adding \ {1} : i - 1 \in Adding' /\ functors'[i - 1] = functors[i]
         /\ Adding \subseteq Nat /\ Adding' \subseteq Nat \ {0}
  <1>1. /\ Head(functors) \in Calls
        /\ functors' \in Seq(Calls)
        /\ Len(functors') = Len(functors) - 1
        /\ \A i \in 1..Len(functors') : functors'[i] = functors[i + 1]
    BY HeadTailProperties
  <1>2. /\ DOMAIN functors = 1..Len(functors) /\ DOMAIN functors' = 1..Len(functors')
        /\ Len(functors) \in Nat \ {0}
    BY <1>1, LenProperties, EmptySeq
  <1>3. Head(functors) = functors[1]
    OBVIOUS
  <1>4. QED
    BY <1>1, <1>2, <1>3 DEF Adding

LEMMA QueuedTypes ==
  ASSUME TypeOK
  PROVE  /\ \A i \in Adding : functors[i] \in Calls /\ functors[i].id.timer \in Timers
         /\ Queued \subseteq Timers
  <1>1. functors \in Seq(Calls)
    BY DEF TypeOK
  <1>2. \A i \in Adding : functors[i] \in Calls
    BY <1>1, ElementOfSeq, LenProperties DEF Adding
  <1>3. \A i \in Adding : functors[i].id.timer \in Timers
    BY <1>2 DEF Calls, TimerIds
  <1>4. QED
    BY <1>2, <1>3 DEF Queued

\* Nothing about the queue changes with anything else.
LEMMA QueueUnchanged ==
  ASSUME UNCHANGED functors
  PROVE  Adding' = Adding /\ Queued' = Queued
  BY DEF Adding, Queued

-----------------------------------------------------------------------------
(* insert().                                                                *)

Heaps == [Timers -> [sequence : Nat, expiraton : Int, interval : Nat]]

\* Inserting timers keeps the two sets equal and the timerfd early enough.
LEMMA InsertKeeps ==
  ASSUME TypeOK, SetsAgree, TimerfdCovers,
         NEW S \in SUBSET Timers, NEW heap \in Heaps,
         Insert(S, heap), timer' = heap, now' = now,
         \A a \in timers_ : heap[a] = timer[a],
         \A a \in S : now - heap[a].expiraton <= TimeInt
  PROVE  /\ SetsAgree' /\ TimerfdCovers'
         /\ armed' \in Nat \cup {Never} /\ readable' \in BOOLEAN
         /\ timers_' = timers_ \cup S
         /\ activeTimers_' \subseteq TimerIds
  <1>1. timers_' = timers_ \cup S
    BY DEF Insert
  <1>2. activeTimers_' = activeTimers_ \cup {TimerId(a, heap[a].sequence) : a \in S}
    BY DEF Insert
  <1>3. SetsAgree'
    <2>1. activeTimers_ = {TimerId(a, heap[a].sequence) : a \in timers_}
      BY DEF SetsAgree, IdOf
    <2>2. activeTimers_' = {TimerId(a, heap[a].sequence) : a \in timers_ \cup S}
      BY <1>2, <2>1
    <2>3. QED
      BY <1>1, <2>2 DEF SetsAgree, IdOf, TimerId
  <1>4. activeTimers_' \subseteq TimerIds
    <2>1. \A a \in S : TimerId(a, heap[a].sequence) \in TimerIds
      BY IdTypes DEF Heaps
    <2>2. QED
      BY <1>2, <2>1 DEF TypeOK
  <1>5. /\ TimerfdCovers'
        /\ armed' \in Nat \cup {Never} /\ readable' \in BOOLEAN
    <2>0. /\ now \in Nat /\ armed \in Nat \cup {Never} /\ readable \in BOOLEAN
          /\ timers_ \subseteq Timers
          /\ \A a \in Timers : heap[a].expiraton \in Int
          /\ \A a \in timers_ : heap[a].expiraton = timer[a].expiraton
      BY DEF TypeOK, Heaps
    <2>1. CASE \E a \in S : Earliest(heap[a].expiraton)
      <3>1. PICK a \in S : /\ Earliest(heap[a].expiraton)
                          /\ \A b \in S : heap[a].expiraton <= heap[b].expiraton
                          /\ ResetTimerFd(heap[a].expiraton)
        BY <2>1 DEF Insert
      <3>2. \A b \in timers_ \cup S : heap[a].expiraton <= heap[b].expiraton
        BY <2>0, <3>1 DEF Earliest
      <3>3. /\ armed' \in Nat /\ armed' > now /\ readable' = FALSE
            /\ armed' <= heap[a].expiraton \/ armed' = now + 1
        <4> DEFINE at == now + HowMuchTimeFromNow(heap[a].expiraton)
        <4>1. at \in Nat /\ at > now /\ (at <= heap[a].expiraton \/ at = now + 1)
          BY <2>0, SetInTime
        <4>2. QED
          BY <3>1, <4>1 DEF ResetTimerFd
      <3>4. \A b \in timers_' : armed' <= timer'[b].expiraton \/ armed' = now' + 1
        <4>1. \A b \in timers_ \cup S : b \in Timers /\ heap[b].expiraton \in Int
          BY <2>0
        <4>2. QED
          BY <1>1, <2>0, <3>2, <3>3, <4>1
      <3>5. armed' > now'
        BY <3>3
      <3>6. TimerfdCovers'
        BY <3>4, <3>5 DEF TimerfdCovers
      <3>7. QED
        BY <3>3, <3>6
    <2>2. CASE ~\E a \in S : Earliest(heap[a].expiraton)
      <3>1. armed' = armed /\ readable' = readable
        BY <2>2 DEF Insert, timerfd
      <3>2. \A a \in S : \E b \in timers_ : heap[b].expiraton <= heap[a].expiraton
        BY <2>0, <2>2 DEF Earliest
      <3>3. QED
        BY <1>1, <2>0, <3>1, <3>2 DEF TimerfdCovers
    <2>3. QED
      BY <2>1, <2>2
  <1>6. QED
    BY <1>1, <1>3, <1>4, <1>5

\* Taking timers out, or changing nothing about them, keeps the timerfd early
\* enough.
LEMMA FewerTimersCovered ==
  ASSUME TimerfdCovers, UNCHANGED <<now, timerfd>>, timers_' \subseteq timers_,
         \A a \in timers_' : timer'[a] = timer[a]
  PROVE  TimerfdCovers'
  BY DEF TimerfdCovers, timerfd

LEMMA InitInv == Init => TimerQueueInv
  <1> SUFFICES ASSUME Init PROVE TimerQueueInv
    OBVIOUS
  <1>1. TypeOK
    <2>1. <<>> \in Seq(Calls)
      BY EmptySeq
    <2>2. Free \in [sequence : Nat, expiraton : Int, interval : Nat]
      BY DEF Free
    <2>3. timer \in [Timers -> [sequence : Nat, expiraton : Int, interval : Nat]]
      BY <2>2 DEF Init
    <2>4. 0 \in Nat /\ 1 \in Nat \ {0}
      OBVIOUS
    <2>5. armed \in Nat \cup {Never} /\ uncalled \subseteq expiredTimers /\ ids \subseteq TimerIds
      BY DEF Init
    <2>6. activeTimers_ \subseteq TimerIds /\ cancelingTimers_ \subseteq TimerIds /\ cancelled \subseteq ids
      BY DEF Init
    <2>7. now \in Nat /\ numCreated \in Nat \ {0} /\ batchNow \in Nat /\ readable \in BOOLEAN
      BY <2>4 DEF Init
    <2>8. timers_ \subseteq Timers /\ expiredTimers \subseteq Timers /\ pc \in {"loop", "batch", "callback"}
      BY DEF Init
    <2>9. functors \in Seq(Calls)
      BY <2>1 DEF Init
    <2>10. QED
      BY <2>3, <2>5, <2>6, <2>7, <2>8, <2>9 DEF TypeOK
  <1>2. Adding = {}
    BY DEF Init, Adding
  <1>3. SetsAgree /\ TimerfdCovers /\ BatchInv /\ SequenceInv
    BY DEF Init, SetsAgree, TimerfdCovers, BatchInv, SequenceInv, Free
  <1>4. OneOwner /\ LagInv /\ QueueInv
    BY <1>2 DEF Init, OneOwner, LagInv, QueueInv, Queued
  <1>5. QED
    BY <1>1, <1>3, <1>4 DEF TimerQueueInv

-----------------------------------------------------------------------------
(* addTimer().                                                              *)

\* new Timer: the object, its sequence and its id.
LEMMA CreateKeeps ==
  ASSUME TypeOK, SequenceInv, NEW a \in Timers, NEW when \in Int, NEW n \in Nat,
         Create(a, when, n)
  PROVE  /\ timer' \in Heaps /\ numCreated' \in Nat \ {0}
         /\ timer'[a] = [sequence |-> numCreated, expiraton |-> when, interval |-> n]
         /\ timer[a] = Free /\ timer'[a] # Free
         /\ \A b \in Timers \ {a} : timer'[b] = timer[b]
         /\ SequenceInv'
         /\ ids' = ids \cup {TimerId(a, numCreated)} /\ ids' \subseteq TimerIds
         /\ TimerId(a, numCreated) \in TimerIds
  <1>1. /\ timer \in Heaps /\ numCreated \in Nat \ {0} /\ ids \subseteq TimerIds
    BY DEF TypeOK, Heaps
  <1>2. /\ timer' = [timer EXCEPT ![a] =
                       [sequence |-> numCreated, expiraton |-> when, interval |-> n]]
        /\ numCreated' = numCreated + 1
        /\ timer[a] = Free
        /\ ids' = ids \cup {TimerId(a, numCreated)}
    BY DEF Create
  <1>3. /\ timer' \in Heaps /\ numCreated' \in Nat \ {0}
        /\ timer'[a] = [sequence |-> numCreated, expiraton |-> when, interval |-> n]
        /\ \A b \in Timers \ {a} : timer'[b] = timer[b]
    BY <1>1, <1>2 DEF Heaps
  <1>4. timer'[a].sequence = numCreated /\ timer'[a] # Free
    BY <1>1, <1>3 DEF Free
  <1>5. SequenceInv'
    BY <1>1, <1>2, <1>3, <1>4 DEF SequenceInv, Heaps
  <1>6. TimerId(a, numCreated) \in TimerIds
    BY <1>1, IdTypes
  <1>7. QED
    BY <1>1, <1>2, <1>3, <1>4, <1>5, <1>6

LEMMA AddOnLoopInv ==
  ASSUME TimerQueueInv, NEW a \in Timers, NEW d \in Delays, NEW n \in Intervals,
         AddOnLoop(a, now + d, n)
  PROVE  TimerQueueInv'
  <1>1. TypeOK /\ SetsAgree /\ OneOwner /\ TimerfdCovers /\ BatchInv /\ LagInv /\ QueueInv
        /\ SequenceInv
    BY DEF TimerQueueInv
  <1>2. d \in Int /\ n \in Nat /\ d >= -TimeInt /\ TimeInt \in Nat \ {0} /\ now \in Nat
    BY <1>1, TimerQueueAssumption DEF TypeOK
  <1>3. Create(a, now + d, n)
    BY DEF AddOnLoop
  <1>0. now + d \in Int
    BY <1>2
  <1>4. /\ timer' \in Heaps /\ numCreated' \in Nat \ {0}
        /\ timer'[a].expiraton = now + d
        /\ timer[a] = Free /\ timer'[a] # Free
        /\ \A b \in Timers \ {a} : timer'[b] = timer[b]
        /\ SequenceInv'
        /\ ids \subseteq ids' /\ ids' \subseteq TimerIds
    <2> DEFINE when == now + d
    <2>1. when \in Int /\ Create(a, when, n)
      BY <1>0, <1>3
    <2> HIDE DEF when
    <2>2. /\ timer' \in Heaps /\ numCreated' \in Nat \ {0}
          /\ timer'[a] = [sequence |-> numCreated, expiraton |-> when, interval |-> n]
          /\ timer[a] = Free /\ timer'[a] # Free
          /\ \A b \in Timers \ {a} : timer'[b] = timer[b]
          /\ SequenceInv'
          /\ ids' = ids \cup {TimerId(a, numCreated)} /\ ids' \subseteq TimerIds
      BY <1>1, <1>2, <2>1, CreateKeeps
    <2>3. timer'[a].expiraton = when
      BY <2>2
    <2>4. QED
      BY <2>2, <2>3 DEF when
  <1>5. UNCHANGED <<now, cancelingTimers_, pc, batchNow, expiredTimers, uncalled, functors,
                    cancelled>>
    BY DEF AddOnLoop, batch
  <1>6. a \notin timers_ /\ a \notin expiredTimers /\ a \notin Queued
    BY <1>1, <1>4 DEF OneOwner
  <1>7. Insert({a}, timer')
    BY DEF AddOnLoop
  <1>8. /\ SetsAgree' /\ TimerfdCovers'
        /\ armed' \in Nat \cup {Never} /\ readable' \in BOOLEAN
        /\ timers_' = timers_ \cup {a}
        /\ activeTimers_' \subseteq TimerIds
    <2> DEFINE S == {a}
    <2>1. S \in SUBSET Timers
      OBVIOUS
    <2>2. \A b \in timers_ : timer'[b] = timer[b]
      BY <1>1, <1>4, <1>6 DEF TypeOK
    <2>3. \A b \in S : now - timer'[b].expiraton <= TimeInt
      BY <1>2, <1>4
    <2>4. Insert(S, timer') /\ now' = now
      BY <1>5, <1>7
    <2> HIDE DEF S
    <2>5. /\ SetsAgree' /\ TimerfdCovers'
          /\ armed' \in Nat \cup {Never} /\ readable' \in BOOLEAN
          /\ timers_' = timers_ \cup S
          /\ activeTimers_' \subseteq TimerIds
      BY <1>1, <1>4, <2>1, <2>2, <2>3, <2>4, InsertKeeps
    <2>6. QED
      BY <2>5 DEF S
  <1>9. Adding' = Adding /\ Queued' = Queued
    BY <1>5, QueueUnchanged
  <1>10. TypeOK'
    BY <1>1, <1>4, <1>5, <1>8 DEF TypeOK, Heaps
  <1>11. OneOwner'
    <2>1. \A b \in Timers : b \in timers_' \cup expiredTimers' \cup Queued' <=> timer'[b] # Free
      BY <1>1, <1>4, <1>5, <1>8, <1>9 DEF OneOwner
    <2>2. QED
      BY <1>1, <1>5, <1>6, <1>8, <1>9, <2>1 DEF OneOwner
  <1>12. BatchInv'
    BY <1>1, <1>5 DEF BatchInv
  <1>13. LagInv' /\ QueueInv'
    <2>1. \A i \in Adding : functors[i].id.timer \in Queued
      BY DEF Queued
    <2>2. \A b \in Queued : b \in Timers /\ b # a
      BY <1>1, <1>6, QueuedTypes
    <2>3. \A b \in Queued : timer'[b] = timer[b]
      BY <1>4, <2>2
    <2>4. QED
      BY <1>1, <1>5, <1>9, <2>1, <2>3 DEF LagInv, QueueInv, IdOf
  <1>14. QED
    BY <1>4, <1>8, <1>10, <1>11, <1>12, <1>13 DEF TimerQueueInv

LEMMA AddElsewhereInv ==
  ASSUME TimerQueueInv, NEW a \in Timers, NEW d \in Delays, NEW n \in Intervals,
         AddElsewhere(a, now + d, n)
  PROVE  TimerQueueInv'
  <1> DEFINE when == now + d
             f == [call |-> "addTimerInLoop", id |-> TimerId(a, numCreated)]
  <1>1. TypeOK /\ SetsAgree /\ OneOwner /\ TimerfdCovers /\ BatchInv /\ LagInv /\ QueueInv
        /\ SequenceInv
    BY DEF TimerQueueInv
  <1>2. d \in Int /\ n \in Nat /\ d >= -TimeInt /\ TimeInt \in Nat \ {0} /\ now \in Nat
    BY <1>1, TimerQueueAssumption DEF TypeOK
  <1>3. Create(a, when, n) /\ when \in Int /\ now - when <= TimeInt
    BY <1>2 DEF AddElsewhere
  <1> HIDE DEF when
  <1>4. /\ timer' \in Heaps /\ numCreated' \in Nat \ {0}
        /\ timer'[a] = [sequence |-> numCreated, expiraton |-> when, interval |-> n]
        /\ timer[a] = Free /\ timer'[a] # Free
        /\ \A b \in Timers \ {a} : timer'[b] = timer[b]
        /\ SequenceInv'
        /\ ids' = ids \cup {TimerId(a, numCreated)} /\ ids' \subseteq TimerIds
        /\ TimerId(a, numCreated) \in TimerIds
    BY <1>1, <1>2, <1>3, CreateKeeps
  <1>5. UNCHANGED <<now, armed, readable, timers_, activeTimers_, cancelingTimers_, pc,
                    batchNow, expiredTimers, uncalled, cancelled>>
    BY DEF AddElsewhere, timerfd, sets, batch
  <1>6. a \notin timers_ /\ a \notin expiredTimers /\ a \notin Queued
    BY <1>1, <1>4 DEF OneOwner
  <1>7. /\ f \in Calls /\ functors' = Append(functors, f)
        /\ f.call = "addTimerInLoop" /\ f.id.timer = a
        /\ f.id = IdOf(a)'
    BY <1>4 DEF AddElsewhere, Queue, Calls, IdOf, TimerId
  <1> HIDE DEF f
  <1>8. functors \in Seq(Calls)
    BY <1>1 DEF TypeOK
  <1>9. /\ functors' \in Seq(Calls)
        /\ Adding' = Adding \cup {Len(functors) + 1}
        /\ Len(functors) + 1 \notin Adding
        /\ \A i \in Adding : functors'[i] = functors[i]
        /\ functors'[Len(functors) + 1] = f
    BY <1>7, <1>8, QueueAppend
  <1>10. Queued' = Queued \cup {a}
    BY <1>7, <1>9 DEF Queued
  <1>11. \A b \in Queued : b \in Timers /\ timer'[b] = timer[b]
    BY <1>1, <1>4, <1>6, QueuedTypes
  <1>12. \A b \in timers_ : b \in Timers /\ timer'[b] = timer[b]
    BY <1>1, <1>4, <1>6 DEF TypeOK
  <1>13. TypeOK'
    BY <1>1, <1>4, <1>5, <1>9 DEF TypeOK, Heaps
  <1>14. SetsAgree'
    BY <1>1, <1>5, <1>12 DEF SetsAgree, IdOf
  <1>15. TimerfdCovers'
    BY <1>1, <1>5, <1>12 DEF TimerfdCovers
  <1>16. OneOwner'
    <2>1. \A b \in Timers : b \in timers_' \cup expiredTimers' \cup Queued' <=> timer'[b] # Free
      BY <1>1, <1>4, <1>5, <1>10 DEF OneOwner
    <2>2. QED
      BY <1>1, <1>5, <1>6, <1>10, <2>1 DEF OneOwner
  <1>17. BatchInv' /\ LagInv'
    BY <1>1, <1>3, <1>4, <1>5, <1>10, <1>11 DEF BatchInv, LagInv
  <1>18. QueueInv'
    <2>1. \A i \in Adding : functors[i].id.timer \in Queued
      BY DEF Queued
    <2>2. \A i \in Adding : functors[i].id.timer # a
      BY <1>6, <2>1
    <2>3. \A i \in Adding' : (functors[i].id = IdOf(functors[i].id.timer))'
      <3>1. ASSUME NEW i \in Adding
            PROVE  (functors[i].id = IdOf(functors[i].id.timer))'
        <4>1. functors[i].id = IdOf(functors[i].id.timer) /\ functors'[i] = functors[i]
          BY <1>1, <1>9 DEF QueueInv
        <4>2. timer'[functors[i].id.timer] = timer[functors[i].id.timer]
          BY <1>11, <2>1
        <4>3. QED
          BY <4>1, <4>2 DEF IdOf
      <3>2. \A i \in Adding' \ Adding : (functors[i].id = IdOf(functors[i].id.timer))'
        BY <1>7, <1>9 DEF IdOf
      <3>3. QED
        BY <3>1, <3>2
    <2>4. \A i, j \in Adding' : functors'[i].id.timer = functors'[j].id.timer => i = j
      <3>1. \A i, j \in Adding : functors'[i].id.timer = functors'[j].id.timer => i = j
        BY <1>1, <1>9 DEF QueueInv
      <3>2. \A i \in Adding : functors'[i].id.timer # a
        BY <1>9, <2>2
      <3>3. \A i \in Adding' \ Adding : i = Len(functors) + 1 /\ functors'[i].id.timer = a
        BY <1>7, <1>9
      <3>4. QED
        BY <3>1, <3>2, <3>3
    <2>5. QED
      BY <2>3, <2>4 DEF QueueInv
  <1>19. QED
    BY <1>4, <1>13, <1>14, <1>15, <1>16, <1>17, <1>18 DEF TimerQueueInv

-----------------------------------------------------------------------------
(* cancel().                                                                *)

\* cancelInLoop(), whatever it finds, keeps everything but the queue in order.
LEMMA CancelKeeps ==
  ASSUME TypeOK, SetsAgree, OneOwner, SequenceInv, NEW id \in TimerIds, CancelInLoop(id)
  PROVE  /\ timer' \in Heaps /\ numCreated' \in Nat \ {0}
         /\ timers_' \subseteq timers_
         /\ activeTimers_' \subseteq TimerIds /\ cancelingTimers_' \subseteq TimerIds
         /\ cancelled' \subseteq TimerIds
         /\ \A b \in Timers \ timers_ : timer'[b] = timer[b]
         /\ \A b \in timers_' : timer'[b] = timer[b]
         /\ \A b \in timers_ \ timers_' : timer'[b] = Free
         /\ SetsAgree' /\ SequenceInv'
  <1>1. /\ timer \in Heaps /\ numCreated \in Nat \ {0} /\ timers_ \subseteq Timers
        /\ activeTimers_ \subseteq TimerIds /\ cancelingTimers_ \subseteq TimerIds
        /\ cancelled \subseteq TimerIds /\ ids \subseteq TimerIds
    BY DEF TypeOK, Heaps
  <1>2. CASE id \in activeTimers_
    <2>1. /\ CancelAsserts(id)
          /\ activeTimers_' = activeTimers_ \ {id}
          /\ timers_' = timers_ \ {id.timer}
          /\ timer' = [timer EXCEPT ![id.timer] = Free]
          /\ numCreated' = numCreated + 1
          /\ cancelled' = cancelled \cup {id}
          /\ cancelingTimers_' = cancelingTimers_
      BY <1>2 DEF CancelInLoop, CancelActive
    <2>2. id.timer \in timers_ /\ id = IdOf(id.timer)
      <3>1. PICK a \in timers_ : id = IdOf(a)
        BY <1>2 DEF SetsAgree
      <3>2. IdOf(a).timer = a
        BY DEF IdOf, TimerId
      <3>3. QED
        BY <3>1, <3>2
    <2>3. Free \in [sequence : Nat, expiraton : Int, interval : Nat] /\ Free.sequence = 0
      BY DEF Free
    <2>4. /\ timer' \in Heaps
          /\ timer'[id.timer] = Free
          /\ \A b \in Timers \ {id.timer} : timer'[b] = timer[b]
      BY <1>1, <2>1, <2>2, <2>3 DEF Heaps
    <2>5. SetsAgree'
      <3>1. \A b \in timers_ : IdOf(b).timer = b
        BY DEF IdOf, TimerId
      <3>2. \A b \in timers_ \ {id.timer} : IdOf(b)' = IdOf(b)
        BY <1>1, <2>4 DEF IdOf
      <3>3. activeTimers_ \ {id} = {IdOf(b) : b \in timers_ \ {id.timer}}
        BY <2>2, <3>1 DEF SetsAgree
      <3>4. QED
        BY <2>1, <3>2, <3>3 DEF SetsAgree
    <2>6. SequenceInv'
      BY <1>1, <2>1, <2>2, <2>3, <2>4 DEF SequenceInv, Heaps
    <2>7. QED
      BY <1>1, <2>1, <2>2, <2>4, <2>5, <2>6
  <1>3. CASE id \notin activeTimers_
    <2>1. /\ UNCHANGED <<timer, numCreated, timers_, activeTimers_>>
          /\ cancelingTimers_' \subseteq cancelingTimers_ \cup {id}
          /\ cancelled' \subseteq cancelled \cup {id}
      BY <1>3 DEF CancelInLoop, CancelBatch, sets
    <2>2. SetsAgree'
      BY <2>1 DEF SetsAgree, IdOf
    <2>3. SequenceInv'
      BY <2>1 DEF SequenceInv
    <2>4. QED
      BY <1>1, <2>1, <2>2, <2>3
  <1>4. QED
    BY <1>2, <1>3

\* cancelInLoop() on the loop's thread, called there or as a functor.
LEMMA CancelInLoopInv ==
  ASSUME TimerQueueInv, NEW id \in TimerIds, CancelInLoop(id),
         UNCHANGED <<now, timerfd, batch, ids>>,
         functors' \in Seq(Calls), Queued' = Queued, QueueInv'
  PROVE  TimerQueueInv'
  <1>1. TypeOK /\ SetsAgree /\ OneOwner /\ TimerfdCovers /\ BatchInv /\ LagInv /\ SequenceInv
    BY DEF TimerQueueInv
  <1>2. /\ timer' \in Heaps /\ numCreated' \in Nat \ {0}
        /\ timers_' \subseteq timers_
        /\ activeTimers_' \subseteq TimerIds /\ cancelingTimers_' \subseteq TimerIds
        /\ cancelled' \subseteq TimerIds
        /\ \A b \in Timers \ timers_ : timer'[b] = timer[b]
        /\ \A b \in timers_' : timer'[b] = timer[b]
        /\ \A b \in timers_ \ timers_' : timer'[b] = Free
        /\ SetsAgree' /\ SequenceInv'
    BY <1>1, CancelKeeps
  <1>3. UNCHANGED <<now, armed, readable, pc, batchNow, expiredTimers, uncalled, ids>>
    BY DEF timerfd, batch
  <1>4. TypeOK'
    BY <1>1, <1>2, <1>3 DEF TypeOK, Heaps
  <1>5. TimerfdCovers'
    BY <1>1, <1>2, FewerTimersCovered
  <1>6. OneOwner'
    <2>1. \A b \in Timers : b \in timers_' \cup expiredTimers' \cup Queued' <=> timer'[b] # Free
      BY <1>1, <1>2, <1>3 DEF OneOwner
    <2>2. QED
      BY <1>1, <1>2, <1>3, <2>1 DEF OneOwner
  <1>7. BatchInv' /\ LagInv'
    <2>1. \A b \in Queued : timer'[b] = timer[b]
      BY <1>1, <1>2, QueuedTypes DEF OneOwner
    <2>2. QED
      BY <1>1, <1>3, <2>1 DEF BatchInv, LagInv
  <1>8. QED
    BY <1>2, <1>4, <1>5, <1>6, <1>7 DEF TimerQueueInv

\* The ids the queue holds stay right while the timers queued stay what they are.
LEMMA QueueInvKept ==
  ASSUME QueueInv, UNCHANGED functors, \A b \in Queued : timer'[b] = timer[b]
  PROVE  QueueInv'
  <1>1. Adding' = Adding
    BY QueueUnchanged
  <1>2. \A i \in Adding : functors[i].id.timer \in Queued
    BY DEF Queued
  <1>3. QED
    BY <1>1, <1>2 DEF QueueInv, IdOf

\* The queued timers are untouched by a cancelInLoop().
LEMMA CancelLeavesQueued ==
  ASSUME TimerQueueInv, NEW id \in TimerIds, CancelInLoop(id)
  PROVE  \A b \in Queued : timer'[b] = timer[b]
  <1>1. TypeOK /\ SetsAgree /\ OneOwner /\ SequenceInv
    BY DEF TimerQueueInv
  <1>2. \A b \in Timers \ timers_ : timer'[b] = timer[b]
    BY <1>1, CancelKeeps
  <1>3. QED
    BY <1>1, <1>2, QueuedTypes DEF OneOwner

LEMMA CancelOnLoopInv ==
  ASSUME TimerQueueInv, NEW id \in ids, CancelOnLoop(id)
  PROVE  TimerQueueInv'
  <1>1. /\ CancelInLoop(id) /\ UNCHANGED <<now, timerfd, batch, functors, ids>>
        /\ id \in TimerIds
    BY DEF CancelOnLoop, TimerQueueInv, TypeOK
  <1>2. functors' \in Seq(Calls) /\ QueueInv
    BY <1>1 DEF TimerQueueInv, TypeOK
  <1>3. Queued' = Queued
    BY <1>1, QueueUnchanged
  <1>4. QueueInv'
    BY <1>1, <1>2, CancelLeavesQueued, QueueInvKept
  <1>5. QED
    BY <1>1, <1>2, <1>3, <1>4, CancelInLoopInv

LEMMA CancelElsewhereInv ==
  ASSUME TimerQueueInv, NEW id \in ids, CancelElsewhere(id)
  PROVE  TimerQueueInv'
  <1> DEFINE f == [call |-> "cancelInLoop", id |-> id]
  <1>1. TypeOK /\ SetsAgree /\ OneOwner /\ TimerfdCovers /\ BatchInv /\ LagInv /\ QueueInv
        /\ SequenceInv
    BY DEF TimerQueueInv
  <1>2. UNCHANGED <<now, armed, readable, timer, numCreated, timers_, activeTimers_,
                    cancelingTimers_, pc, batchNow, expiredTimers, uncalled, ids, cancelled>>
    BY DEF CancelElsewhere, timerfd, sets, batch
  <1>3. functors \in Seq(Calls) /\ f \in Calls /\ functors' = Append(functors, f)
        /\ f.call # "addTimerInLoop"
    BY <1>1 DEF CancelElsewhere, Queue, TypeOK, Calls
  <1> HIDE DEF f
  <1>4. /\ functors' \in Seq(Calls)
        /\ Adding' = Adding
        /\ \A i \in Adding : functors'[i] = functors[i]
    BY <1>3, QueueAppend
  <1>5. Queued' = Queued
    BY <1>4 DEF Queued
  <1>6. TypeOK'
    BY <1>1, <1>2, <1>4 DEF TypeOK
  <1>7. SetsAgree' /\ TimerfdCovers' /\ BatchInv' /\ SequenceInv'
    BY <1>1, <1>2 DEF SetsAgree, TimerfdCovers, BatchInv, SequenceInv, IdOf
  <1>8. OneOwner' /\ LagInv'
    BY <1>1, <1>2, <1>5 DEF OneOwner, LagInv
  <1>9. QueueInv'
    BY <1>1, <1>2, <1>4 DEF QueueInv, IdOf
  <1>10. QED
    BY <1>6, <1>7, <1>8, <1>9 DEF TimerQueueInv

-----------------------------------------------------------------------------
(* handleRead() and the clock.                                              *)

LEMMA HandleReadInv ==
  ASSUME TimerQueueInv, HandleRead
  PROVE  TimerQueueInv'
  <1>1. TypeOK /\ SetsAgree /\ OneOwner /\ TimerfdCovers /\ BatchInv /\ LagInv /\ QueueInv
        /\ SequenceInv
    BY DEF TimerQueueInv
  <1>2. /\ UNCHANGED <<now, armed, readable, timer, numCreated, cancelingTimers_, functors,
                       ids, cancelled>>
        /\ pc = "loop" /\ readable /\ pc' = "batch" /\ batchNow' = now
        /\ expiredTimers' = Expired /\ uncalled' = Expired
        /\ timers_' = timers_ \ Expired
        /\ activeTimers_' = activeTimers_ \ {IdOf(a) : a \in Expired}
    BY DEF HandleRead, LeaveTimerFd, timerfd
  <1>3. Expired \subseteq timers_
    BY DEF Expired
  <1>4. expiredTimers = {} /\ timers_ \subseteq Timers /\ now \in Nat /\ TimeInt \in Nat
    BY <1>1, <1>2, TimerQueueAssumption DEF BatchInv, TypeOK
  <1>5. Queued' = Queued
    BY <1>2, QueueUnchanged
  <1>6. TypeOK'
    <2>1. expiredTimers' \subseteq Timers /\ uncalled' \subseteq expiredTimers'
      BY <1>2, <1>3, <1>4
    <2>2. QED
      BY <1>1, <1>2, <2>1 DEF TypeOK
  <1>7. SetsAgree'
    <2>1. \A a \in Timers : IdOf(a).timer = a
      BY DEF IdOf, TimerId
    <2>2. activeTimers_ \ {IdOf(a) : a \in Expired} = {IdOf(a) : a \in timers_ \ Expired}
      BY <1>1, <1>3, <1>4, <2>1 DEF SetsAgree
    <2>3. QED
      BY <1>2, <2>2 DEF SetsAgree, IdOf
  <1>8. OneOwner'
    BY <1>1, <1>2, <1>3, <1>4, <1>5 DEF OneOwner
  <1>9. TimerfdCovers' /\ BatchInv' /\ LagInv' /\ SequenceInv'
    BY <1>1, <1>2, <1>4, <1>5 DEF TimerfdCovers, BatchInv, LagInv, SequenceInv
  <1>10. QueueInv'
    BY <1>1, <1>2, QueueInvKept
  <1>11. QED
    BY <1>6, <1>7, <1>8, <1>9, <1>10 DEF TimerQueueInv

\* A timer being called, and its callback returning, move nothing.
LEMMA BatchGoesOn ==
  ASSUME TimerQueueInv, (\E a \in Timers : CallTimer(a)) \/ CallbackReturns
  PROVE  TimerQueueInv'
  <1>1. TypeOK /\ SetsAgree /\ OneOwner /\ TimerfdCovers /\ BatchInv /\ LagInv /\ QueueInv
        /\ SequenceInv
    BY DEF TimerQueueInv
  <1>2. /\ UNCHANGED <<now, armed, readable, timer, numCreated, timers_, activeTimers_,
                       cancelingTimers_, batchNow, expiredTimers, functors, ids, cancelled>>
        /\ pc # "loop" /\ pc' \in {"batch", "callback"}
        /\ uncalled' \subseteq uncalled
    BY DEF CallTimer, CallbackReturns, timerfd, sets
  <1>3. Queued' = Queued
    BY <1>2, QueueUnchanged
  <1>4. TypeOK'
    BY <1>1, <1>2 DEF TypeOK
  <1>5. SetsAgree' /\ TimerfdCovers' /\ BatchInv' /\ SequenceInv' /\ LagInv'
    BY <1>1, <1>2, <1>3 DEF SetsAgree, TimerfdCovers, BatchInv, SequenceInv, LagInv, IdOf
  <1>6. OneOwner'
    BY <1>1, <1>2, <1>3 DEF OneOwner
  <1>7. QueueInv'
    BY <1>1, <1>2, QueueInvKept
  <1>8. QED
    BY <1>4, <1>5, <1>6, <1>7 DEF TimerQueueInv

LEMMA TickInv ==
  ASSUME TimerQueueInv, Tick
  PROVE  TimerQueueInv'
  <1>1. TypeOK /\ SetsAgree /\ OneOwner /\ TimerfdCovers /\ BatchInv /\ LagInv /\ QueueInv
        /\ SequenceInv
    BY DEF TimerQueueInv
  <1>2. UNCHANGED <<timer, numCreated, timers_, activeTimers_, cancelingTimers_, pc, batchNow,
                    expiredTimers, uncalled, functors, ids, cancelled>>
    BY DEF Tick, sets, batch
  <1>3. now \in Nat /\ now' = now + 1 /\ armed \in Nat \cup {Never} /\ readable \in BOOLEAN
        /\ batchNow \in Nat /\ TimeInt \in Nat
        /\ \A a \in Timers : timer[a].expiraton \in Int
    BY <1>1, TimerQueueAssumption DEF Tick, TypeOK
  <1>4. Queued' = Queued
    BY <1>2, QueueUnchanged
  <1>5. TypeOK' /\ TimerfdCovers'
    <2>1. CASE armed = now + 1
      <3>1. armed' = Never /\ readable' = TRUE
        BY <2>1 DEF Tick
      <3>2. armed' \in Nat \cup {Never} /\ readable' \in BOOLEAN /\ now' \in Nat
        BY <1>3, <3>1
      <3>3. QED
        BY <1>1, <1>2, <3>1, <3>2 DEF TypeOK, TimerfdCovers
    <2>2. CASE armed # now + 1
      <3>1. armed' = armed /\ readable' = readable
        BY <2>2 DEF Tick, timerfd
      <3>2. TypeOK'
        BY <1>1, <1>2, <1>3, <3>1 DEF TypeOK
      <3>3. TimerfdCovers'
        BY <1>1, <1>2, <1>3, <2>2, <3>1 DEF TimerfdCovers
      <3>4. QED
        BY <3>2, <3>3
    <2>3. QED
      BY <2>1, <2>2
  <1>6. BatchInv' /\ SetsAgree' /\ SequenceInv' /\ OneOwner'
    BY <1>1, <1>2, <1>3, <1>4 DEF BatchInv, SetsAgree, SequenceInv, OneOwner, IdOf
  <1>7. LagInv'
    <2>1. \A i \in Adding : now + 1 - timer[functors[i].id.timer].expiraton <= TimeInt
      BY DEF Tick, NotStalled, Adding
    <2>2. pc # "loop" => now + 1 - batchNow <= TimeInt
      BY DEF Tick, NotStalled
    <2>3. \A a \in Queued : now + 1 - timer[a].expiraton <= TimeInt
      BY <2>1 DEF Queued
    <2>4. \A a \in Queued' : now' - timer'[a].expiraton <= TimeInt
      <3>1. \A a \in Queued : now' - timer[a].expiraton <= TimeInt
        BY <1>1, <1>3, <2>3, QueuedTypes
      <3>2. timer' = timer
        BY <1>2
      <3>3. QED
        BY <1>4, <3>1, <3>2
    <2>5. pc' # "loop" => now' - batchNow' <= TimeInt
      BY <1>2, <1>3, <2>2
    <2>6. QED
      BY <2>4, <2>5 DEF LagInv
  <1>8. QueueInv'
    BY <1>1, <1>2, QueueInvKept
  <1>9. QED
    BY <1>5, <1>6, <1>7, <1>8 DEF TimerQueueInv

LEMMA ResetInv ==
  ASSUME TimerQueueInv, Reset
  PROVE  TimerQueueInv'
  <1>1. TypeOK /\ SetsAgree /\ OneOwner /\ TimerfdCovers /\ BatchInv /\ LagInv /\ QueueInv
        /\ SequenceInv
    BY DEF TimerQueueInv
  <1>2. /\ UNCHANGED <<now, numCreated, uncalled, functors, ids, cancelled>>
        /\ pc = "batch" /\ pc' = "loop" /\ batchNow' = 0
        /\ uncalled = {} /\ expiredTimers' = {}
        /\ cancelingTimers_' = {}
        /\ timer' = AfterReset
        /\ Insert(Repeating, AfterReset)
    BY DEF Reset
  <1>3. /\ now \in Nat /\ batchNow \in Nat /\ TimeInt \in Nat /\ now - batchNow <= TimeInt
        /\ timer \in Heaps /\ expiredTimers \subseteq Timers /\ timers_ \subseteq Timers
    BY <1>1, <1>2, TimerQueueAssumption DEF TypeOK, LagInv, Heaps
  <1>4. Queued' = Queued /\ Queued \subseteq Timers
    BY <1>1, <1>2, QueueUnchanged, QueuedTypes
  <1>5. Repeating \subseteq expiredTimers
    BY DEF Repeating
  <1>6. Free \in [sequence : Nat, expiraton : Int, interval : Nat] /\ Free.sequence = 0
    BY DEF Free
  <1>7. \A a \in Repeating :
          /\ AfterReset[a] \in [sequence : Nat, expiraton : Int, interval : Nat]
          /\ AfterReset[a].expiraton = batchNow + timer[a].interval
          /\ AfterReset[a].sequence = timer[a].sequence
    BY <1>3, <1>5 DEF AfterReset, Heaps
  <1>8. \A a \in expiredTimers \ Repeating : AfterReset[a] = Free
    BY <1>3 DEF AfterReset
  <1>9. \A a \in Timers \ expiredTimers : AfterReset[a] = timer[a]
    BY <1>5 DEF AfterReset
  <1>10. AfterReset \in Heaps
    <2>1. \A a \in Timers : AfterReset[a] \in [sequence : Nat, expiraton : Int, interval : Nat]
      BY <1>3, <1>6, <1>7, <1>8, <1>9 DEF Heaps
    <2>2. QED
      BY <2>1 DEF AfterReset, Heaps
  <1> DEFINE heap == AfterReset
             S == Repeating
  <1>11. /\ heap \in Heaps /\ S \in SUBSET Timers /\ Insert(S, heap) /\ timer' = heap
         /\ now' = now
         /\ \A a \in timers_ : heap[a] = timer[a]
         /\ \A a \in S : now - heap[a].expiraton <= TimeInt
    <2>1. \A a \in Repeating : timer[a].interval \in Nat
      BY <1>3, <1>5 DEF Heaps
    <2>2. \A a \in S : now - heap[a].expiraton <= TimeInt
      BY <1>3, <1>7, <2>1
    <2>3. \A a \in timers_ : heap[a] = timer[a]
      BY <1>1, <1>3, <1>9 DEF OneOwner
    <2>4. QED
      BY <1>2, <1>3, <1>5, <1>10, <2>2, <2>3
  <1> HIDE DEF heap, S
  <1>12. /\ SetsAgree' /\ TimerfdCovers'
         /\ armed' \in Nat \cup {Never} /\ readable' \in BOOLEAN
         /\ timers_' = timers_ \cup S
         /\ activeTimers_' \subseteq TimerIds
    BY <1>1, <1>11, InsertKeeps
  <1>13. TypeOK'
    BY <1>1, <1>2, <1>11, <1>12 DEF TypeOK, Heaps
  <1>14. \A a \in Timers :
           /\ timer'[a].sequence \in {timer[a].sequence, 0}
           /\ timer'[a].sequence = 0 => timer'[a] = Free
    <2>1. \A a \in Repeating : timer[a].sequence # 0
      BY <1>1, <1>3, <1>5 DEF SequenceInv, OneOwner
    <2>2. QED
      BY <1>1, <1>2, <1>3, <1>6, <1>7, <1>8, <1>9, <2>1 DEF SequenceInv
  <1>15. SequenceInv'
    <2>1. numCreated' = numCreated /\ numCreated \in Nat \ {0}
      BY <1>1, <1>2 DEF TypeOK
    <2>2. \A a \in Timers : timer[a].sequence < numCreated
      BY <1>1 DEF SequenceInv
    <2>3. QED
      BY <1>1, <1>14, <2>1, <2>2 DEF SequenceInv
  <1>16. OneOwner'
    <2>1. \A a \in Timers : a \in timers_' \cup expiredTimers' \cup Queued' <=> timer'[a] # Free
      <3>1. \A a \in Repeating : timer[a].sequence # 0 /\ AfterReset[a] # Free
        BY <1>1, <1>3, <1>5, <1>6, <1>7 DEF SequenceInv, OneOwner
      <3>2. QED
        BY <1>1, <1>2, <1>4, <1>5, <1>8, <1>9, <1>12, <3>1 DEF OneOwner, S
    <2>2. QED
      BY <1>1, <1>2, <1>4, <1>5, <1>12, <2>1 DEF OneOwner, S
  <1>17. \A b \in Queued : timer'[b] = timer[b]
    BY <1>1, <1>2, <1>4, <1>9 DEF OneOwner
  <1>18. LagInv' /\ BatchInv'
    BY <1>1, <1>2, <1>3, <1>4, <1>17 DEF LagInv, BatchInv
  <1>19. QueueInv'
    BY <1>1, <1>2, <1>17, QueueInvKept
  <1>20. QED
    BY <1>12, <1>13, <1>15, <1>16, <1>18, <1>19 DEF TimerQueueInv

LEMMA RunFunctorInv ==
  ASSUME TimerQueueInv, RunFunctor
  PROVE  TimerQueueInv'
  <1> DEFINE id == Head(functors).id
  <1>1. TypeOK /\ SetsAgree /\ OneOwner /\ TimerfdCovers /\ BatchInv /\ LagInv /\ QueueInv
        /\ SequenceInv
    BY DEF TimerQueueInv
  <1>2. functors \in Seq(Calls) /\ functors # <<>> /\ functors' = Tail(functors)
        /\ UNCHANGED <<now, batch, ids>> /\ pc = "loop"
    BY <1>1 DEF RunFunctor, TypeOK
  <1>3. /\ Head(functors) \in Calls
        /\ Head(functors) = functors[1]
        /\ functors' \in Seq(Calls)
        /\ Head(functors).call = "addTimerInLoop" <=> 1 \in Adding
        /\ \A i \in Adding' : i + 1 \in Adding /\ functors'[i] = functors[i + 1]
        /\ \A i \in Adding \ {1} : i - 1 \in Adding' /\ functors'[i - 1] = functors[i]
        /\ Adding \subseteq Nat /\ Adding' \subseteq Nat \ {0}
    BY <1>2, QueueTail
  <1>4. Queued' \subseteq Queued
    BY <1>3 DEF Queued
  <1>5. ASSUME \A b \in Queued' : timer'[b] = timer[b]
        PROVE  QueueInv'
    <2>1. \A i \in Adding' : (functors[i].id = IdOf(functors[i].id.timer))'
      <3>1. ASSUME NEW i \in Adding'
            PROVE  (functors[i].id = IdOf(functors[i].id.timer))'
        <4>1. functors'[i].id = IdOf(functors'[i].id.timer)
          BY <1>1, <1>3 DEF QueueInv
        <4>2. timer'[functors'[i].id.timer] = timer[functors'[i].id.timer]
          BY <1>5 DEF Queued
        <4>3. QED
          BY <4>1, <4>2 DEF IdOf
      <3>2. QED
        BY <3>1
    <2>2. ASSUME NEW i \in Adding', NEW j \in Adding',
                 functors'[i].id.timer = functors'[j].id.timer
          PROVE  i = j
      <3>1. i + 1 = j + 1
        BY <1>1, <1>3, <2>2 DEF QueueInv
      <3>2. QED
        BY <1>3, <3>1
    <2>3. QED
      BY <2>1, <2>2 DEF QueueInv
  <1>6. CASE Head(functors).call = "cancelInLoop"
    <2>1. CancelInLoop(id) /\ UNCHANGED timerfd /\ id \in TimerIds
      BY <1>3, <1>6 DEF RunFunctor, Calls
    <2>2. 1 \notin Adding
      BY <1>3, <1>6
    <2>3. Queued' = Queued
      <3>1. \A i \in Adding : functors[i].id.timer \in Queued'
        BY <1>3, <2>2 DEF Queued
      <3>2. QED
        BY <1>4, <3>1 DEF Queued
    <2>4. QueueInv'
      BY <1>5, <2>1, <2>3, CancelLeavesQueued
    <2> HIDE DEF id
    <2>5. QED
      BY <1>2, <1>3, <2>1, <2>3, <2>4, CancelInLoopInv
  <1>7. CASE Head(functors).call = "addTimerInLoop"
    <2> DEFINE a == id.timer
               S == {a}
    <2>1. /\ Insert(S, timer)
          /\ UNCHANGED <<now, pc, batchNow, expiredTimers, uncalled, ids, timer, numCreated,
                         cancelingTimers_, cancelled>>
      BY <1>2, <1>7 DEF RunFunctor, batch
    <2>2. a \in Queued /\ a \in Timers
      BY <1>1, <1>3, <1>7, QueuedTypes DEF Queued
    <2>3. Queued' = Queued \ {a}
      <3>1. 1 \in Adding
        BY <1>3, <1>7
      <3>2. \A i \in Adding \ {1} : functors[i].id.timer # a
        BY <1>1, <1>3, <3>1 DEF QueueInv
      <3>3. \A i \in Adding' : i + 1 # 1 /\ i + 1 \in Adding /\ functors'[i] = functors[i + 1]
        BY <1>3
      <3>4. a \notin Queued'
        BY <3>2, <3>3 DEF Queued
      <3>5. \A i \in Adding \ {1} : functors[i].id.timer \in Queued'
        BY <1>3 DEF Queued
      <3>6. Queued \ {a} \subseteq Queued'
        BY <1>3, <3>5 DEF Queued
      <3>7. QED
        BY <1>4, <3>4, <3>6
    <2>4. timer \in Heaps /\ S \in SUBSET Timers /\ timer' = timer /\ now' = now
          /\ \A b \in S : now - timer[b].expiraton <= TimeInt
      BY <1>1, <2>1, <2>2 DEF TypeOK, Heaps, LagInv
    <2> HIDE DEF a, id
    <2>5. /\ SetsAgree' /\ TimerfdCovers'
          /\ armed' \in Nat \cup {Never} /\ readable' \in BOOLEAN
          /\ timers_' = timers_ \cup S
          /\ activeTimers_' \subseteq TimerIds
      <3> HIDE DEF S
      <3>1. QED
        BY <1>1, <2>1, <2>4, InsertKeeps
    <2>6. TypeOK'
      BY <1>1, <1>3, <2>1, <2>2, <2>5 DEF TypeOK
    <2>7. OneOwner'
      BY <1>1, <2>1, <2>2, <2>3, <2>5 DEF OneOwner
    <2>8. BatchInv' /\ LagInv' /\ SequenceInv'
      BY <1>1, <2>1, <2>3 DEF BatchInv, LagInv, SequenceInv
    <2>9. QueueInv'
      BY <1>5, <2>1
    <2>10. QED
      BY <2>5, <2>6, <2>7, <2>8, <2>9 DEF TimerQueueInv
  <1>8. QED
    BY <1>3, <1>6, <1>7 DEF Calls

-----------------------------------------------------------------------------

\* The inductive invariant of TimerQueue: what the two sets, the batch, the queue
\* and the timerfd have to do with each other.
THEOREM QueueInvariant == Spec => []TimerQueueInv
  <1>1. Init => TimerQueueInv
    BY InitInv
  <1>2. TimerQueueInv /\ [Next]_vars => TimerQueueInv'
    <2> SUFFICES ASSUME TimerQueueInv, [Next]_vars
                 PROVE  TimerQueueInv'
      OBVIOUS
    <2>1. ASSUME NEW a \in Timers, NEW d \in Delays, NEW n \in Intervals,
                 AddOnLoop(a, now + d, n)
          PROVE  TimerQueueInv'
      BY <2>1, AddOnLoopInv
    <2>2. ASSUME NEW a \in Timers, NEW d \in Delays, NEW n \in Intervals,
                 AddElsewhere(a, now + d, n)
          PROVE  TimerQueueInv'
      BY <2>2, AddElsewhereInv
    <2>3. ASSUME NEW id \in ids, CancelOnLoop(id)
          PROVE  TimerQueueInv'
      BY <2>3, CancelOnLoopInv
    <2>4. ASSUME NEW id \in ids, CancelElsewhere(id)
          PROVE  TimerQueueInv'
      BY <2>4, CancelElsewhereInv
    <2>5. CASE RunFunctor
      BY <2>5, RunFunctorInv
    <2>6. CASE HandleRead
      BY <2>6, HandleReadInv
    <2>7. CASE (\E a \in Timers : CallTimer(a)) \/ CallbackReturns
      BY <2>7, BatchGoesOn
    <2>8. CASE Reset
      BY <2>8, ResetInv
    <2>9. CASE Tick
      BY <2>9, TickInv
    <2>10. CASE UNCHANGED vars
      <3>1. UNCHANGED <<now, armed, readable, timer, numCreated, timers_, activeTimers_,
                        cancelingTimers_, pc, batchNow, expiredTimers, uncalled, functors,
                        ids, cancelled>>
        BY <2>10 DEF vars, timerfd, sets, batch
      <3>2. Adding' = Adding /\ Queued' = Queued
        BY <3>1, QueueUnchanged
      <3>3. QED
        BY <3>1, <3>2 DEF TimerQueueInv, TypeOK, SetsAgree, OneOwner, TimerfdCovers, BatchInv,
             LagInv, QueueInv, SequenceInv, IdOf
    <2>11. QED
      BY <2>1, <2>2, <2>3, <2>4, <2>5, <2>6, <2>7, <2>8, <2>9, <2>10 DEF Next
  <1>3. QED
    BY <1>1, <1>2, PTL DEF Spec

\* Every variable of TimerQueue keeps its type.
THEOREM TypeCorrect == Spec => []TypeOK
  <1>1. TimerQueueInv => TypeOK
    BY DEF TimerQueueInv
  <1>2. QED
    BY <1>1, QueueInvariant, PTL

\* timers_ and activeTimers_ hold the same timers whatever addTimer(), cancel(),
\* getExpired() and reset() do in any order.
THEOREM SetsStayEqual == Spec => []SetsAgree
  <1>1. TimerQueueInv => SetsAgree
    BY DEF TimerQueueInv
  <1>2. QED
    BY <1>1, QueueInvariant, PTL

\* Every Timer has one owner as long as it exists and none afterwards.
THEOREM TimersHaveOneOwner == Spec => []OneOwner
  <1>1. TimerQueueInv => OneOwner
    BY DEF TimerQueueInv
  <1>2. QED
    BY <1>1, QueueInvariant, PTL

\* The timerfd is readable or set early enough for every timer that waits, though
\* it is never read and is set for new earliest timers only.
THEOREM NoTimerIsForgotten == Spec => []TimerfdCovers
  <1>1. TimerQueueInv => TimerfdCovers
    BY DEF TimerQueueInv
  <1>2. QED
    BY <1>1, QueueInvariant, PTL

-----------------------------------------------------------------------------
(* The assertions.                                                          *)

\* An int keeps what fits into it.
LEMMA NarrowIsExact ==
  ASSUME NEW half \in Nat \ {0}, NEW n \in Nat, n < half
  PROVE  Narrow(n, half) = n
  <1> DEFINE m == 2 * half
             k == n + half
  <1>1. m \in Nat \ {0} /\ k \in Nat /\ k < m
    OBVIOUS
  <1>2. k % m = k
    <2> HIDE DEF m, k
    <2>1. QED
      BY <1>1
  <1>3. QED
    BY <1>2 DEF Narrow

\* As long as no sequence exceeds an int, the assertions follow from the invariant:
\* ids name their timers and no key is in timers_ twice.
LEMMA InvariantAsserts ==
  ASSUME TimerQueueInv, numCreated <= SequenceInt
  PROVE  NoAssertFails
  <1>1. TypeOK /\ SetsAgree /\ OneOwner /\ SequenceInv
    BY DEF TimerQueueInv
  <1>2. /\ timer \in Heaps /\ timers_ \subseteq Timers /\ expiredTimers \subseteq Timers
        /\ numCreated \in Nat /\ SequenceInt \in Nat \ {0}
    BY <1>1, TimerQueueAssumption DEF TypeOK, Heaps
  <1>3. \A a \in Timers : IdOf(a).timer = a /\ IdOf(a).sequence = timer[a].sequence
    <2>1. \A a \in Timers : Narrow(timer[a].sequence, SequenceInt) = timer[a].sequence
      <3>1. \A a \in Timers : timer[a].sequence \in Nat /\ timer[a].sequence < SequenceInt
        BY <1>1, <1>2 DEF SequenceInv, Heaps
      <3>2. QED
        BY <1>2, <3>1, NarrowIsExact
    <2>2. QED
      BY <2>1 DEF IdOf, TimerId
  <1>4. CancelFindsTimer
    BY <1>1, <1>2, <1>3 DEF CancelFindsTimer, CancelAsserts, SetsAgree
  <1>5. \A a \in timers_ : IdOf(a) \in activeTimers_
    BY <1>1 DEF SetsAgree
  <1>6. ASSUME NEW a \in Timers, timer[a] # Free, a \notin timers_,
               NEW made \in [sequence : Nat, expiraton : Int, interval : Nat],
               made.sequence = timer[a].sequence
        PROVE  InsertAsserts(a, made)
    <2>1. TimerId(a, made.sequence) \notin activeTimers_
      BY <1>1, <1>2, <1>3, <1>6 DEF SetsAgree, TimerId
    <2>2. \A b \in timers_ : timer[b].sequence # made.sequence
      BY <1>1, <1>2, <1>6 DEF SequenceInv
    <2>3. QED
      BY <2>1, <2>2 DEF InsertAsserts
  <1>7. \A a \in Queued : InsertAsserts(a, timer[a])
    <2>1. \A a \in Queued : a \in Timers /\ timer[a] # Free /\ a \notin timers_
      BY <1>1, QueuedTypes DEF OneOwner
    <2>2. QED
      BY <1>2, <1>6, <2>1 DEF Heaps
  <1>8. \A a \in Repeating : InsertAsserts(a, AfterReset[a])
    <2>1. /\ \A a \in Repeating : a \in Timers /\ timer[a] # Free /\ a \notin timers_
          /\ Repeating \subseteq expiredTimers
      BY <1>1, <1>2 DEF Repeating, OneOwner
    <2>2. batchNow \in Nat
      BY <1>1 DEF TypeOK
    <2>3. \A a \in Repeating :
            /\ AfterReset[a] \in [sequence : Nat, expiraton : Int, interval : Nat]
            /\ AfterReset[a].sequence = timer[a].sequence
      BY <1>2, <2>1, <2>2 DEF AfterReset, Heaps
    <2>4. QED
      BY <1>6, <2>1, <2>3
  <1>9. QED
    BY <1>4, <1>5, <1>7, <1>8 DEF NoAssertFails

\* No assertion of TimerQueue fails before the sequences outgrow the int of
\* TimerId's constructor.
THEOREM AssertionsHold == Spec => [](numCreated <= SequenceInt => NoAssertFails)
  <1>1. TimerQueueInv => (numCreated <= SequenceInt => NoAssertFails)
    BY InvariantAsserts
  <1>2. QED
    BY <1>1, QueueInvariant, PTL

-----------------------------------------------------------------------------
(* TimerQueue implements Alarms, as long as the ids returned fit into an    *)
(* int: a larger sequence would give two timers the same id.                *)

\* The entry of a timer in Due is what it was.
SameAlarm(a) ==
  /\ IdOf(a)' = IdOf(a)
  /\ DueAt(a)' = DueAt(a)
  /\ timer'[a].interval = timer[a].interval

LEMMA DueEntries ==
  /\ DOMAIN Due = {IdOf(a) : a \in Scheduled}
  /\ \A a : IdOf(a).timer = a
  /\ \A a \in Scheduled : Due[IdOf(a)] = [at |-> DueAt(a), every |-> timer[a].interval]
  BY DEF Due, IdOf, TimerId

LEMMA DueTypes ==
  ASSUME TypeOK
  PROVE  /\ Scheduled \subseteq Timers
         /\ \A a \in Timers : DueAt(a) \in Int /\ timer[a].interval \in Nat
  BY QueuedTypes DEF TypeOK, Scheduled, Repeating, DueAt

\* The same timers are scheduled for the same times.
LEMMA DueKept ==
  ASSUME Scheduled' = Scheduled, \A a \in Scheduled : SameAlarm(a)
  PROVE  Due' = Due
  <1>1. DOMAIN Due' = DOMAIN Due
    BY DueEntries DEF SameAlarm, Due
  <1>2. ASSUME NEW id \in DOMAIN Due PROVE Due'[id] = Due[id]
    <2>1. PICK a \in Scheduled : id = IdOf(a)
      BY DueEntries
    <2>2. id.timer = a /\ id \in DOMAIN Due'
      BY <1>1, <2>1, DueEntries
    <2>3. QED
      BY <2>1, <2>2 DEF Due, SameAlarm
  <1>3. Due = [id \in DOMAIN Due |-> Due[id]] /\ Due' = [id \in DOMAIN Due' |-> Due'[id]]
    BY DEF Due
  <1>4. QED
    BY <1>1, <1>2, <1>3

\* All but one of them.
LEMMA DueWithout ==
  ASSUME NEW a, Scheduled' = Scheduled \ {a}, \A b \in Scheduled' : SameAlarm(b)
  PROVE  Due' = Al!Without(IdOf(a))
  <1>1. DOMAIN Due' = DOMAIN Due \ {IdOf(a)}
    <2>1. DOMAIN Due' = {IdOf(b) : b \in Scheduled \ {a}}
      BY DEF SameAlarm, Due
    <2>2. QED
      BY <2>1, DueEntries
  <1>2. ASSUME NEW id \in DOMAIN Due' PROVE Due'[id] = Due[id]
    <2>1. PICK b \in Scheduled' : id = IdOf(b) /\ SameAlarm(b)
      BY DEF Due, SameAlarm
    <2>2. id.timer = b /\ id \in DOMAIN Due
      BY <1>1, <2>1, DueEntries
    <2>3. QED
      BY <2>1, <2>2 DEF Due, SameAlarm
  <1>3. Due' = [id \in DOMAIN Due' |-> Due'[id]]
    BY DEF Due
  <1>4. QED
    BY <1>1, <1>2, <1>3 DEF Al!Without, Al!Restrict

\* One more.
LEMMA DueWith ==
  ASSUME TypeOK, TypeOK', NEW a \in Timers, Scheduled' = Scheduled \cup {a}, a \notin Scheduled,
         \A b \in Scheduled : SameAlarm(b)
  PROVE  /\ Due' \in [DOMAIN Due \cup {IdOf(a)'} -> [at : Int, every : Nat]]
         /\ \A id \in DOMAIN Due : Due'[id] = Due[id]
  <1>1. DOMAIN Due' = DOMAIN Due \cup {IdOf(a)'}
    BY DueEntries DEF SameAlarm, Due
  <1>2. ASSUME NEW id \in DOMAIN Due PROVE Due'[id] = Due[id]
    <2>1. PICK b \in Scheduled : id = IdOf(b)
      BY DueEntries
    <2>2. id.timer = b /\ id \in DOMAIN Due'
      BY <1>1, <2>1, DueEntries
    <2>3. QED
      BY <2>1, <2>2 DEF Due, SameAlarm
  <1>3. ASSUME NEW id \in DOMAIN Due' PROVE Due'[id] \in [at : Int, every : Nat]
    <2>1. PICK b \in Scheduled' : id = IdOf(b)'
      BY DEF Due
    <2>2. id.timer = b
      BY <2>1 DEF IdOf, TimerId
    <2>3. DueAt(b)' \in Int /\ timer'[b].interval \in Nat
      <3>1. b \in Timers
        BY <2>1, DueTypes
      <3>2. QED
        BY <3>1 DEF TypeOK, DueAt
    <2>4. QED
      BY <2>2, <2>3 DEF Due
  <1>4. Due' = [id \in DOMAIN Due' |-> Due'[id]]
    BY DEF Due
  <1>5. QED
    BY <1>1, <1>2, <1>3, <1>4

\* The ids addTimer() has returned.
LEMMA IdsAreNames ==
  ASSUME TypeOK, NamesInv
  PROVE  ids \subseteq [timer : Timers, sequence : 1..(2 * MaxCreated)]
  <1>1. \A id \in ids : id \in TimerIds /\ id.sequence \in 1..(2 * MaxCreated)
    BY TimerQueueAssumption DEF TypeOK, NamesInv
  <1>2. QED
    BY <1>1 DEF TimerIds

\* new Timer gives an id that was never returned.
LEMMA NewId ==
  ASSUME MaxCreated < SequenceInt, TypeOK, NamesInv, NEW a \in Timers,
         numCreated <= MaxCreated
  PROVE  /\ TimerId(a, numCreated) = [timer |-> a, sequence |-> numCreated]
         /\ TimerId(a, numCreated) \notin ids
         /\ numCreated \in 1..MaxCreated
  <1>1. numCreated \in Nat \ {0} /\ SequenceInt \in Nat \ {0} /\ MaxCreated \in Nat
    BY TimerQueueAssumption DEF TypeOK
  <1>2. Narrow(numCreated, SequenceInt) = numCreated
    BY <1>1, NarrowIsExact
  <1>3. TimerId(a, numCreated) = [timer |-> a, sequence |-> numCreated]
    BY <1>2 DEF TimerId
  <1>4. QED
    BY <1>1, <1>3 DEF NamesInv

\* addTimer() gives a new alarm, whichever thread calls it.
LEMMA AddIsAdd ==
  ASSUME MaxCreated < SequenceInt, TimerQueueInv, TimerQueueInv', AlarmInv,
         NEW a \in Timers, NEW when \in Int, NEW n \in Nat, Create(a, when, n),
         UNCHANGED <<now, cancelingTimers_, pc, batchNow, expiredTimers, uncalled, cancelled>>,
         timers_' \cup Queued' = timers_ \cup Queued \cup {a},
         \A i \in DOMAIN functors' : functors'[i].id \in ids'
  PROVE  AlarmInv' /\ [Al!Next]_Al!vars
  <1>1. TypeOK /\ TypeOK' /\ OneOwner /\ SequenceInv /\ NamesInv /\ CancelInv /\ DueInv
    BY DEF TimerQueueInv, AlarmInv
  <1>2. PICK id : id = TimerId(a, numCreated)
    OBVIOUS
  <1>3. /\ timer'[a] = [sequence |-> numCreated, expiraton |-> when, interval |-> n]
        /\ timer[a] = Free
        /\ \A b \in Timers \ {a} : timer'[b] = timer[b]
        /\ ids' = ids \cup {id}
    BY <1>1, <1>2, CreateKeeps
  <1>4. id = [timer |-> a, sequence |-> numCreated] /\ id \notin ids
        /\ numCreated \in 1..MaxCreated /\ numCreated' = numCreated + 1
    BY <1>1, <1>2, NewId DEF Create
  <1>5. IdOf(a)' = id /\ \A b \in Timers \ {a} : IdOf(b)' = IdOf(b)
    BY <1>2, <1>3 DEF IdOf, TimerId
  <1>6. /\ a \notin timers_ \cup Queued /\ a \notin expiredTimers /\ a \notin uncalled
        /\ expiredTimers \subseteq Timers
        /\ timers_ \cup Queued \subseteq Timers
    BY <1>1, <1>3, QueuedTypes DEF OneOwner, TypeOK
  <1>7. Repeating' = Repeating /\ Repeating \subseteq expiredTimers
    BY <1>3, <1>5, <1>6 DEF Repeating
  <1>8. Scheduled' = Scheduled \cup {a} /\ a \notin Scheduled
    BY <1>6, <1>7 DEF Scheduled
  <1>9. \A b \in Scheduled : SameAlarm(b)
    <2>1. \A b \in Scheduled : b \in Timers \ {a}
      BY <1>1, <1>8, DueTypes
    <2>2. QED
      BY <1>3, <1>5, <2>1 DEF SameAlarm, DueAt
  <1>10. /\ Due' \in [DOMAIN Due \cup {id} -> [at : Int, every : Nat]]
         /\ \A j \in DOMAIN Due : Due'[j] = Due[j]
    BY <1>1, <1>5, <1>8, <1>9, DueWith
  <1>11. Al!Add(id)
    BY <1>3, <1>4, <1>10 DEF Al!Add
  <1>12. NamesInv'
    <2>1. \A j \in ids' : j.sequence \in 1..MaxCreated /\ j.sequence < numCreated'
      BY <1>1, <1>3, <1>4 DEF NamesInv
    <2>2. \A b \in Timers : timer'[b] # Free => IdOf(b)' \in ids'
      BY <1>1, <1>3, <1>5 DEF NamesInv
    <2>3. QED
      BY <2>1, <2>2 DEF NamesInv
  <1>13. id \in [timer : Timers, sequence : 1..(2 * MaxCreated)]
    BY <1>4, TimerQueueAssumption
  <1>14. CancelInv'
    <2>1. \A b \in expiredTimers : IdOf(b)' = IdOf(b)
      BY <1>5, <1>6
    <2>2. \A b \in timers_ \cup Queued : IdOf(b)' = IdOf(b)
      BY <1>5, <1>6
    <2>3. IdOf(a)' \notin cancelled
      BY <1>1, <1>4, <1>5 DEF CancelInv
    <2>4. \A b \in timers_' \cup Queued' : IdOf(b)' \notin cancelled'
      BY <1>1, <2>2, <2>3 DEF CancelInv
    <2>5. QED
      BY <1>1, <1>3, <2>1, <2>4 DEF CancelInv
  <1>15. DueInv'
    BY <1>1, <1>3, <1>6 DEF DueInv
  <1>16. QED
    BY <1>11, <1>12, <1>13, <1>14, <1>15 DEF AlarmInv, Al!Next

\* cancelInLoop() cancels an alarm, or finds none; it comes too late for one that has
\* been taken out to be called.
LEMMA CancelIsCancel ==
  ASSUME TimerQueueInv, TimerQueueInv', AlarmInv, NEW id \in ids, CancelInLoop(id),
         UNCHANGED <<now, batch, ids>>, Queued' = Queued,
         \A i \in DOMAIN functors' : functors'[i].id \in ids
  PROVE  AlarmInv' /\ [Al!Next]_Al!vars
  <1>1. TypeOK /\ SetsAgree /\ OneOwner /\ BatchInv /\ NamesInv /\ CancelInv /\ DueInv
    BY DEF TimerQueueInv, AlarmInv
  <1>2. UNCHANGED <<now, pc, batchNow, expiredTimers, uncalled, ids>>
    BY DEF batch
  <1>3. /\ timers_ \subseteq Timers /\ Queued \subseteq Timers /\ expiredTimers \subseteq Timers
        /\ uncalled \subseteq expiredTimers /\ Repeating \subseteq expiredTimers
        /\ timers_ \cap expiredTimers = {} /\ Queued \cap timers_ = {}
        /\ Queued \cap expiredTimers = {}
    BY <1>1, QueuedTypes DEF TypeOK, OneOwner, Repeating
  <1>4. id \in [timer : Timers, sequence : 1..(2 * MaxCreated)]
    BY <1>1, IdsAreNames
  <1>5. CASE id \in activeTimers_
    <2>1. PICK a \in timers_ : id = IdOf(a) /\ id.timer = a
      BY <1>1, <1>5 DEF SetsAgree, IdOf, TimerId
    <2>2. /\ timers_' = timers_ \ {a}
          /\ timer' = [timer EXCEPT ![a] = Free]
          /\ numCreated' = numCreated + 1
          /\ cancelled' = cancelled \cup {id}
          /\ cancelingTimers_' = cancelingTimers_
      BY <1>5, <2>1 DEF CancelInLoop, CancelActive
    <2>3. timer'[a] = Free /\ \A b \in Timers \ {a} : timer'[b] = timer[b] /\ IdOf(b)' = IdOf(b)
      BY <1>1, <1>3, <2>2 DEF TypeOK, IdOf
    <2>4. \A b \in Timers \ {a} : IdOf(b) # id
      BY <2>1 DEF IdOf, TimerId
    <2>5. Repeating' = Repeating
      BY <1>2, <1>3, <2>2, <2>3 DEF Repeating
    <2>6. Scheduled' = Scheduled \ {a}
      BY <1>2, <1>3, <2>2, <2>5 DEF Scheduled
    <2>7. \A b \in Scheduled' : SameAlarm(b)
      <3>1. \A b \in Scheduled' : b \in Timers \ {a}
        BY <1>1, <2>6, DueTypes
      <3>2. QED
        BY <1>2, <2>3, <3>1 DEF SameAlarm, DueAt
    <2>8. Due' = Al!Without(id)
      BY <2>1, <2>6, <2>7, DueWithout
    <2>9. Al!Cancel(id)
      BY <1>2, <2>2, <2>8 DEF Al!Cancel
    <2>10. NamesInv'
      <3>1. numCreated \in Nat
        BY <1>1 DEF TypeOK
      <3>2. \A j \in ids' : j.sequence \in 1..MaxCreated /\ j.sequence < numCreated'
        BY <1>1, <1>2, <2>2, <3>1 DEF NamesInv
      <3>3. QED
        BY <1>1, <1>2, <2>3, <3>2 DEF NamesInv
    <2>11. CancelInv'
      <3>1. \A b \in expiredTimers \cup (timers_ \ {a}) \cup Queued :
              b \in Timers \ {a} /\ IdOf(b)' = IdOf(b) /\ IdOf(b) # id
        BY <1>3, <2>3, <2>4
      <3>2. QED
        BY <1>1, <1>2, <2>2, <3>1 DEF CancelInv
    <2>12. DueInv'
      BY <1>1, <1>2, <1>3, <2>3 DEF DueInv
    <2>13. QED
      BY <1>4, <2>9, <2>10, <2>11, <2>12 DEF AlarmInv, Al!Next
  <1>6. CASE id \notin activeTimers_ /\ pc # "loop"
    <2>1. /\ UNCHANGED <<timer, numCreated, timers_>>
          /\ cancelingTimers_' = cancelingTimers_ \cup {id}
          /\ cancelled' = cancelled \cup ({id} \cap {IdOf(a) : a \in expiredTimers})
      BY <1>6 DEF CancelInLoop, CancelBatch, sets
    <2>2. \A b \in Timers : IdOf(b).timer = b /\ IdOf(b)' = IdOf(b)
      BY <2>1 DEF IdOf, TimerId
    <2>3. NamesInv' /\ DueInv'
      BY <1>1, <1>2, <2>1 DEF NamesInv, DueInv, IdOf
    <2>4. CancelInv'
      <3>1. \A b \in timers_ \cup Queued : IdOf(b) \notin {IdOf(a) : a \in expiredTimers}
        BY <1>3, <2>2
      <3>2. QED
        BY <1>1, <1>2, <1>3, <1>6, <2>1, <2>2, <3>1 DEF CancelInv
    <2>5. Repeating' = {a \in Repeating : IdOf(a) # id}
      BY <1>2, <1>3, <2>1, <2>2 DEF Repeating
    <2>6. \A b \in Timers : SameAlarm(b)
      BY <1>2, <2>1, <2>2 DEF SameAlarm, DueAt
    <2>7. CASE \E a \in expiredTimers : id = IdOf(a)
      <3>1. PICK a \in expiredTimers : id = IdOf(a)
        BY <2>7
      <3>2. cancelled' = cancelled \cup {id}
        BY <2>1, <3>1
      <3>3. Repeating' = Repeating \ {a}
        BY <1>3, <2>2, <2>5, <3>1
      <3>4. CASE a \in uncalled
        <4>1. Scheduled' = Scheduled /\ a \in Scheduled
          BY <1>2, <2>1, <3>3, <3>4 DEF Scheduled
        <4>2. Due' = Due
          <5>1. \A b \in Scheduled : SameAlarm(b)
            BY <1>1, <2>6, DueTypes
          <5>2. QED
            BY <4>1, <5>1, DueKept
        <4>3. id \in DOMAIN Due /\ Due[id].at = timer[a].expiraton
          <5>1. DueAt(a) = timer[a].expiraton
            BY <3>4 DEF DueAt
          <5>2. id \in DOMAIN Due /\ Due[id] = [at |-> DueAt(a), every |-> timer[a].interval]
            BY <3>1, <4>1, DueEntries
          <5>3. QED
            BY <5>1, <5>2
        <4>4. timer[a].expiraton <= now
          <5>1. timer[a].expiraton <= batchNow /\ batchNow <= now
            BY <1>1 DEF DueInv, BatchInv
          <5>2. timer[a].expiraton \in Int /\ batchNow \in Int /\ now \in Int
            BY <1>1, <1>3 DEF TypeOK
          <5>3. QED
            BY <5>1, <5>2
        <4>5. Al!Cancel(id)
          BY <1>2, <3>2, <4>2, <4>3, <4>4 DEF Al!Cancel
        <4>6. QED
          BY <1>4, <2>3, <2>4, <4>5 DEF AlarmInv, Al!Next
      <3>5. CASE a \notin uncalled
        <4>1. Scheduled' = Scheduled \ {a}
          BY <1>2, <1>3, <2>1, <3>1, <3>3, <3>5 DEF Scheduled
        <4>2. \A b \in Scheduled' : SameAlarm(b)
          BY <1>1, <2>6, <4>1, DueTypes
        <4>3. Due' = Al!Without(id)
          BY <3>1, <4>1, <4>2, DueWithout
        <4>4. Al!Cancel(id)
          BY <1>2, <3>2, <4>3 DEF Al!Cancel
        <4>5. QED
          BY <1>4, <2>3, <2>4, <4>4 DEF AlarmInv, Al!Next
      <3>6. QED
        BY <3>4, <3>5
    <2>8. CASE ~\E a \in expiredTimers : id = IdOf(a)
      <3>1. cancelled' = cancelled /\ Repeating' = Repeating
        BY <1>3, <2>1, <2>5, <2>8
      <3>2. Scheduled' = Scheduled
        BY <1>2, <2>1, <3>1 DEF Scheduled
      <3>3. \A b \in Scheduled : SameAlarm(b)
        BY <1>1, <2>6, DueTypes
      <3>4. Due' = Due
        BY <3>2, <3>3, DueKept
      <3>5. QED
        BY <1>2, <2>3, <2>4, <3>1, <3>4 DEF AlarmInv, Al!vars
    <2>9. QED
      BY <2>7, <2>8
  <1>7. CASE id \notin activeTimers_ /\ pc = "loop"
    <2>1. UNCHANGED <<timer, numCreated, timers_, cancelingTimers_, cancelled>>
      BY <1>7 DEF CancelInLoop, sets
    <2>2. AlarmInv'
      BY <1>1, <1>2, <2>1 DEF AlarmInv, NamesInv, CancelInv, DueInv, IdOf
    <2>3. Repeating' = Repeating
      BY <1>2, <2>1 DEF Repeating, IdOf
    <2>4. Scheduled' = Scheduled /\ \A b \in Scheduled : SameAlarm(b)
      BY <1>2, <2>1, <2>3 DEF Scheduled, SameAlarm, DueAt, IdOf
    <2>5. Due' = Due
      BY <2>4, DueKept
    <2>6. QED
      BY <1>2, <2>1, <2>2, <2>5 DEF Al!vars
  <1>8. QED
    BY <1>5, <1>6, <1>7

\* A step after which the same timers are scheduled for the same times is not seen.
LEMMA UnseenStep ==
  ASSUME UNCHANGED <<now, ids, cancelled>>, Scheduled' = Scheduled,
         \A a \in Scheduled : SameAlarm(a)
  PROVE  UNCHANGED Al!vars
  BY DueKept DEF Al!vars

LEMMA RunFunctorIsAlarmStep ==
  ASSUME TimerQueueInv, TimerQueueInv', AlarmInv, RunFunctor
  PROVE  AlarmInv' /\ [Al!Next]_Al!vars
  <1>1. TypeOK /\ OneOwner /\ QueueInv /\ BatchInv /\ NamesInv /\ CancelInv /\ DueInv
    BY DEF TimerQueueInv, AlarmInv
  <1>2. PICK f : f = Head(functors)
    OBVIOUS
  <1>3. /\ functors \in Seq(Calls) /\ functors # <<>> /\ functors' = Tail(functors)
        /\ UNCHANGED <<now, batch, ids>> /\ pc = "loop"
    BY <1>1 DEF RunFunctor, TypeOK
  <1>4. /\ f \in Calls /\ f = functors[1]
        /\ f.call = "addTimerInLoop" <=> 1 \in Adding
        /\ \A i \in Adding' : i + 1 \in Adding /\ functors'[i] = functors[i + 1]
        /\ \A i \in Adding \ {1} : i - 1 \in Adding' /\ functors'[i - 1] = functors[i]
        /\ Adding \subseteq Nat /\ Adding' \subseteq Nat \ {0}
    BY <1>2, <1>3, QueueTail
  <1>5. /\ f.id \in ids
        /\ \A i \in DOMAIN functors' : functors'[i].id \in ids
    <2>1. /\ Len(functors) \in Nat \ {0}
          /\ DOMAIN functors = 1..Len(functors)
          /\ DOMAIN functors' = 1..(Len(functors) - 1)
          /\ \A i \in DOMAIN functors' : functors'[i] = functors[i + 1]
      BY <1>3, HeadTailProperties, LenProperties, EmptySeq
    <2>2. 1 \in DOMAIN functors /\ \A i \in DOMAIN functors' : i + 1 \in DOMAIN functors
      BY <2>1
    <2>3. QED
      BY <1>1, <1>4, <2>1, <2>2 DEF NamesInv
  <1>6. CASE f.call = "cancelInLoop"
    <2>1. CancelInLoop(f.id)
      BY <1>2, <1>6 DEF RunFunctor
    <2>2. Queued' = Queued
      <3>1. 1 \notin Adding
        BY <1>4, <1>6
      <3>2. \A i \in Adding : functors[i].id.timer \in Queued'
        BY <1>4, <3>1 DEF Queued
      <3>3. \A i \in Adding' : functors'[i].id.timer \in Queued
        BY <1>4 DEF Queued
      <3>4. QED
        BY <3>2, <3>3 DEF Queued
    <2>3. QED
      BY <1>3, <1>5, <2>1, <2>2, CancelIsCancel
  <1>7. CASE f.call = "addTimerInLoop"
    <2>1. PICK a : a = f.id.timer
      OBVIOUS
    <2>2. /\ timers_' = timers_ \cup {a}
          /\ UNCHANGED <<timer, numCreated, cancelingTimers_, cancelled>>
          /\ UNCHANGED <<pc, batchNow, expiredTimers, uncalled>>
      BY <1>2, <1>3, <1>7, <2>1 DEF RunFunctor, Insert, batch
    <2>3. a \in Queued
      BY <1>4, <1>7, <2>1 DEF Queued
    <2>4. timers_' \cup Queued' = timers_ \cup Queued
      <3>1. \A i \in Adding' : functors'[i].id.timer \in Queued
        BY <1>4 DEF Queued
      <3>2. \A i \in Adding \ {1} : functors[i].id.timer \in Queued'
        BY <1>4 DEF Queued
      <3>3. Queued \subseteq Queued' \cup {a}
        BY <1>4, <2>1, <3>2 DEF Queued
      <3>4. QED
        BY <2>2, <2>3, <3>1, <3>3 DEF Queued
    <2>5. \A b : IdOf(b)' = IdOf(b)
      BY <2>2 DEF IdOf
    <2>6. AlarmInv'
      BY <1>1, <1>3, <1>5, <2>2, <2>4, <2>5 DEF AlarmInv, NamesInv, CancelInv, DueInv
    <2>7. Repeating' = Repeating
      BY <2>2, <2>5 DEF Repeating
    <2>8. Scheduled' = Scheduled
      BY <2>2, <2>4, <2>7 DEF Scheduled
    <2>9. \A b \in Scheduled : SameAlarm(b)
      BY <2>2, <2>5 DEF SameAlarm, DueAt
    <2>10. QED
      BY <1>3, <2>2, <2>6, <2>8, <2>9, UnseenStep
  <1>8. QED
    BY <1>4, <1>6, <1>7 DEF Calls

LEMMA HandleReadIsUnseen ==
  ASSUME TimerQueueInv, AlarmInv, HandleRead
  PROVE  AlarmInv' /\ UNCHANGED Al!vars
  <1>1. TypeOK /\ OneOwner /\ BatchInv /\ NamesInv /\ CancelInv /\ DueInv
    BY DEF TimerQueueInv, AlarmInv
  <1>2. /\ UNCHANGED <<now, timer, numCreated, cancelingTimers_, functors, ids, cancelled>>
        /\ pc = "loop" /\ pc' = "batch" /\ batchNow' = now
        /\ expiredTimers' = Expired /\ uncalled' = Expired
        /\ timers_' = timers_ \ Expired
    BY DEF HandleRead
  <1>3. /\ Expired \subseteq timers_ /\ \A a \in Expired : timer[a].expiraton <= now
        /\ expiredTimers = {} /\ uncalled = {} /\ cancelingTimers_ = {}
    BY <1>1, <1>2 DEF Expired, BatchInv, CancelInv, TypeOK
  <1>4. Queued' = Queued /\ \A a : IdOf(a)' = IdOf(a)
    BY <1>2, QueueUnchanged DEF IdOf
  <1>5. AlarmInv'
    BY <1>1, <1>2, <1>3, <1>4 DEF AlarmInv, NamesInv, CancelInv, DueInv
  <1>6. Repeating = {} /\ Repeating' \subseteq Expired
    BY <1>2, <1>3 DEF Repeating
  <1>7. Scheduled' = Scheduled
    BY <1>2, <1>3, <1>4, <1>6 DEF Scheduled
  <1>8. \A a \in Scheduled : SameAlarm(a)
    BY <1>2, <1>3, <1>4 DEF SameAlarm, DueAt
  <1>9. QED
    BY <1>2, <1>5, <1>7, <1>8, UnseenStep

\* Calling a timer of the batch runs its alarm: it was due, and it is due again after its
\* interval unless it was cancelled or does not repeat.
LEMMA CallTimerIsRun ==
  ASSUME TimerQueueInv, AlarmInv, NEW a \in Timers, CallTimer(a)
  PROVE  AlarmInv' /\ Al!Run(IdOf(a)) /\ IdOf(a) \in ids
  <1>1. TypeOK /\ OneOwner /\ BatchInv /\ NamesInv /\ CancelInv /\ DueInv
    BY DEF TimerQueueInv, AlarmInv
  <1>2. /\ UNCHANGED <<now, timer, numCreated, timers_, cancelingTimers_, batchNow,
                       expiredTimers, functors, ids, cancelled>>
        /\ pc = "batch" /\ pc' = "callback"
        /\ a \in uncalled /\ uncalled' = uncalled \ {a}
    BY DEF CallTimer, sets
  <1>3. /\ a \in expiredTimers /\ a \notin timers_ /\ a \notin Queued
        /\ timer[a] # Free
        /\ expiredTimers \subseteq Timers
    BY <1>1, <1>2 DEF TypeOK, OneOwner
  <1>4. Queued' = Queued /\ (\A b : IdOf(b)' = IdOf(b)) /\ Repeating' = Repeating
    BY <1>2, QueueUnchanged DEF IdOf, Repeating
  <1>5. AlarmInv'
    BY <1>1, <1>2, <1>4 DEF AlarmInv, NamesInv, CancelInv, DueInv
  <1>6. IdOf(a) \in ids
    BY <1>1, <1>3 DEF NamesInv
  <1>7. /\ timer[a].expiraton \in Int /\ timer[a].interval \in Nat
        /\ batchNow \in Nat /\ now \in Nat /\ batchNow <= now
        /\ timer[a].expiraton <= batchNow
    BY <1>1, <1>3 DEF TypeOK, BatchInv, DueInv
  <1>8. /\ a \in Scheduled /\ IdOf(a) \in DOMAIN Due
        /\ Due[IdOf(a)] = [at |-> timer[a].expiraton, every |-> timer[a].interval]
    <2>1. a \in Scheduled
      BY <1>2 DEF Scheduled
    <2>2. DueAt(a) = timer[a].expiraton
      BY <1>2 DEF DueAt
    <2>3. QED
      BY <2>1, <2>2, DueEntries
  <1>9. a \in Repeating <=> timer[a].interval > 0 /\ IdOf(a) \notin cancelled
    BY <1>1, <1>3 DEF Repeating, CancelInv
  <1>10. \A b \in Scheduled \ {a} : SameAlarm(b)
    BY <1>2, <1>4 DEF SameAlarm, DueAt
  <1>11. CASE a \in Repeating
    <2>1. Scheduled' = Scheduled
      BY <1>2, <1>4, <1>11 DEF Scheduled
    <2>2. DueAt(a)' = batchNow + timer[a].interval
      BY <1>2, <1>3 DEF DueAt
    <2>3. PICK at : at = batchNow + timer[a].interval
      OBVIOUS
    <2>4. at \in (timer[a].expiraton + timer[a].interval)..(now + timer[a].interval)
      BY <1>7, <2>3
    <2>5. Due' = [Due EXCEPT ![IdOf(a)].at = at]
      <3>1. Due'[IdOf(a)] = [at |-> at, every |-> timer[a].interval]
        BY <1>2, <1>4, <1>8, <2>1, <2>2, <2>3 DEF Due, IdOf, TimerId
      <3>2. DOMAIN Due' = DOMAIN Due
        BY <1>4, <2>1 DEF Due
      <3>3. ASSUME NEW id \in DOMAIN Due, id # IdOf(a) PROVE Due'[id] = Due[id]
        <4>1. PICK b \in Scheduled : id = IdOf(b) /\ id.timer = b
          BY DueEntries
        <4>2. b # a
          BY <3>3, <4>1
        <4>3. QED
          BY <1>10, <3>2, <4>1, <4>2 DEF Due, SameAlarm
      <3>4. Due = [id \in DOMAIN Due |-> Due[id]] /\ Due' = [id \in DOMAIN Due' |-> Due'[id]]
        BY DEF Due
      <3>5. [Due[IdOf(a)] EXCEPT !.at = at] = [at |-> at, every |-> timer[a].interval]
        BY <1>8
      <3>6. QED
        BY <1>8, <3>1, <3>2, <3>3, <3>4, <3>5
    <2>6. Al!RunAndRepeat(IdOf(a))
      <3>1. Due[IdOf(a)].at = timer[a].expiraton /\ Due[IdOf(a)].every = timer[a].interval
        BY <1>8
      <3>2. Due[IdOf(a)].every > 0 /\ IdOf(a) \notin cancelled
        BY <1>9, <1>11, <3>1
      <3>3. at \in (Due[IdOf(a)].at + Due[IdOf(a)].every)..(now + Due[IdOf(a)].every)
        BY <2>4, <3>1
      <3>4. QED
        BY <2>5, <3>2, <3>3 DEF Al!RunAndRepeat
    <2>7. QED
      BY <1>2, <1>5, <1>6, <1>7, <1>8, <2>6 DEF Al!Run
  <1>12. CASE a \notin Repeating
    <2>1. Scheduled' = Scheduled \ {a}
      BY <1>2, <1>3, <1>4, <1>12 DEF Scheduled
    <2>2. Due' = Al!Without(IdOf(a))
      BY <1>10, <2>1, DueWithout
    <2>3. Al!RunLast(IdOf(a))
      BY <1>7, <1>8, <1>9, <1>12, <2>2 DEF Al!RunLast
    <2>4. QED
      BY <1>2, <1>5, <1>6, <1>7, <1>8, <2>3 DEF Al!Run
  <1>13. QED
    BY <1>11, <1>12

LEMMA CallbackReturnsIsUnseen ==
  ASSUME AlarmInv, CallbackReturns
  PROVE  AlarmInv' /\ UNCHANGED Al!vars
  <1>1. /\ UNCHANGED <<now, timer, numCreated, timers_, cancelingTimers_, batchNow,
                       expiredTimers, uncalled, functors, ids, cancelled>>
        /\ pc = "callback" /\ pc' = "batch"
    BY DEF CallbackReturns, sets
  <1>2. Queued' = Queued /\ (\A b : IdOf(b)' = IdOf(b)) /\ Repeating' = Repeating
    BY <1>1, QueueUnchanged DEF IdOf, Repeating
  <1>3. Scheduled' = Scheduled /\ \A b \in Scheduled : SameAlarm(b)
    BY <1>1, <1>2 DEF Scheduled, SameAlarm, DueAt
  <1>4. AlarmInv'
    BY <1>1, <1>2 DEF AlarmInv, NamesInv, CancelInv, DueInv
  <1>5. QED
    BY <1>1, <1>3, <1>4, UnseenStep

\* reset() makes the objects say what was scheduled already.
LEMMA ResetIsUnseen ==
  ASSUME TimerQueueInv, AlarmInv, Reset
  PROVE  AlarmInv' /\ UNCHANGED Al!vars
  <1>1. TypeOK /\ OneOwner /\ BatchInv /\ NamesInv /\ CancelInv /\ DueInv
    BY DEF TimerQueueInv, AlarmInv
  <1>2. /\ UNCHANGED <<now, numCreated, uncalled, functors, ids, cancelled>>
        /\ pc' = "loop" /\ batchNow' = 0 /\ uncalled = {} /\ expiredTimers' = {}
        /\ cancelingTimers_' = {} /\ timers_' = timers_ \cup Repeating
        /\ timer' = AfterReset
    BY DEF Reset, Insert
  <1>3. /\ Queued' = Queued
        /\ timers_ \subseteq Timers \ expiredTimers /\ Queued \subseteq Timers \ expiredTimers
        /\ Repeating \subseteq expiredTimers /\ expiredTimers \subseteq Timers
    BY <1>1, <1>2, QueueUnchanged, QueuedTypes DEF OneOwner, TypeOK, Repeating
  <1>4. /\ \A a \in Timers \ expiredTimers : timer'[a] = timer[a]
        /\ \A a \in expiredTimers \ Repeating : timer'[a] = Free
        /\ \A a \in Repeating : /\ timer'[a].expiraton = batchNow + timer[a].interval
                                /\ timer'[a].interval = timer[a].interval
                                /\ timer'[a].sequence = timer[a].sequence
                                /\ timer[a] # Free
    <2>1. timer \in Heaps
      BY <1>1 DEF TypeOK, Heaps
    <2>2. \A a \in Repeating : timer[a] # Free
      BY <1>1, <1>3 DEF OneOwner
    <2>3. QED
      BY <1>2, <1>3, <2>1, <2>2 DEF AfterReset, Heaps
  <1>5. \A a \in (Timers \ expiredTimers) \cup Repeating : IdOf(a)' = IdOf(a)
    BY <1>4 DEF IdOf
  <1>6. Repeating' = {}
    BY <1>2 DEF Repeating
  <1>7. Scheduled = timers_ \cup Queued \cup Repeating /\ Scheduled' = Scheduled
    BY <1>2, <1>3, <1>6 DEF Scheduled
  <1>8. \A a \in Scheduled : SameAlarm(a)
    <2>1. \A a \in timers_ \cup Queued : SameAlarm(a)
      BY <1>2, <1>3, <1>4, <1>5 DEF SameAlarm, DueAt
    <2>2. \A a \in Repeating : SameAlarm(a)
      BY <1>2, <1>3, <1>4, <1>5 DEF SameAlarm, DueAt
    <2>3. QED
      BY <1>7, <2>1, <2>2
  <1>9. NamesInv'
    <2>1. \A a \in Timers : timer'[a] # Free => timer[a] # Free /\ IdOf(a)' = IdOf(a)
      BY <1>4, <1>5
    <2>2. QED
      BY <1>1, <1>2, <2>1 DEF NamesInv
  <1>10. CancelInv'
    <2>1. \A a \in Repeating : IdOf(a) \notin cancelled
      BY <1>1, <1>3 DEF Repeating, CancelInv
    <2>2. \A a \in timers_' \cup Queued' : IdOf(a)' \notin cancelled'
      BY <1>1, <1>2, <1>3, <1>5, <2>1 DEF CancelInv
    <2>3. QED
      BY <1>1, <1>2, <2>2 DEF CancelInv
  <1>11. DueInv'
    BY <1>2 DEF DueInv
  <1>12. QED
    BY <1>2, <1>7, <1>8, <1>9, <1>10, <1>11, UnseenStep DEF AlarmInv

LEMMA TickIsTick ==
  ASSUME AlarmInv, Tick
  PROVE  AlarmInv' /\ Al!Tick
  <1>1. /\ now' = now + 1
        /\ UNCHANGED <<timer, numCreated, timers_, cancelingTimers_, pc, batchNow,
                       expiredTimers, uncalled, functors, ids, cancelled>>
    BY DEF Tick, sets, batch
  <1>2. Queued' = Queued /\ (\A b : IdOf(b)' = IdOf(b)) /\ Repeating' = Repeating
    BY <1>1, QueueUnchanged DEF IdOf, Repeating
  <1>3. Scheduled' = Scheduled /\ \A b \in Scheduled : SameAlarm(b)
    BY <1>1, <1>2 DEF Scheduled, SameAlarm, DueAt
  <1>4. Due' = Due
    BY <1>3, DueKept
  <1>5. AlarmInv'
    BY <1>1, <1>2 DEF AlarmInv, NamesInv, CancelInv, DueInv
  <1>6. QED
    BY <1>1, <1>4, <1>5 DEF Al!Tick

-----------------------------------------------------------------------------

LEMMA StepIsAlarmStep ==
  ASSUME MaxCreated < SequenceInt, TimerQueueInv, TimerQueueInv', AlarmInv, [Next]_vars
  PROVE  AlarmInv' /\ [Al!Next]_Al!vars
  <1>1. TypeOK /\ NamesInv /\ now \in Nat
    BY DEF TimerQueueInv, AlarmInv, TypeOK
  <1>2. ASSUME NEW a \in Timers, NEW d \in Delays, NEW n \in Intervals,
               AddOnLoop(a, now + d, n) \/ AddElsewhere(a, now + d, n)
        PROVE  AlarmInv' /\ [Al!Next]_Al!vars
    <2>1. PICK when \in Int : when = now + d
      BY <1>1, TimerQueueAssumption
    <2>2. n \in Nat
      BY TimerQueueAssumption
    <2>3. CASE AddOnLoop(a, when, n)
      <3>1. /\ Create(a, when, n)
            /\ UNCHANGED <<now, cancelingTimers_, pc, batchNow, expiredTimers, uncalled,
                           functors, cancelled>>
            /\ timers_' = timers_ \cup {a}
        BY <2>3 DEF AddOnLoop, batch, Insert
      <3>2. Queued' = Queued
        BY <3>1, QueueUnchanged
      <3>3. \A i \in DOMAIN functors' : functors'[i].id \in ids'
        BY <1>1, <3>1 DEF Create, NamesInv
      <3>4. QED
        BY <2>2, <3>1, <3>2, <3>3, AddIsAdd
    <2>4. CASE AddElsewhere(a, when, n)
      <3>1. PICK f : f = [call |-> "addTimerInLoop", id |-> TimerId(a, numCreated)]
        OBVIOUS
      <3>2. /\ Create(a, when, n)
            /\ UNCHANGED <<now, cancelingTimers_, pc, batchNow, expiredTimers, uncalled,
                           timers_, cancelled>>
            /\ functors' = Append(functors, f)
        BY <2>4, <3>1 DEF AddElsewhere, Queue, batch, sets
      <3>3. f \in Calls /\ functors \in Seq(Calls) /\ f.id.timer = a
            /\ f.call = "addTimerInLoop" /\ f.id = TimerId(a, numCreated)
        BY <1>1, <3>1, IdTypes DEF TypeOK, Calls, TimerId
      <3>4. /\ Adding' = Adding \cup {Len(functors) + 1}
            /\ Len(functors) + 1 \notin Adding
            /\ \A i \in Adding : functors'[i] = functors[i]
            /\ functors'[Len(functors) + 1] = f
        BY <3>2, <3>3, QueueAppend
      <3>5. Queued' = Queued \cup {a}
        BY <3>3, <3>4 DEF Queued
      <3>6. \A i \in DOMAIN functors' : functors'[i].id \in ids'
        <4>1. /\ DOMAIN functors' = DOMAIN functors \cup {Len(functors) + 1}
              /\ \A i \in DOMAIN functors : functors'[i] = functors[i]
          BY <3>2, <3>3, AppendProperties, LenProperties
        <4>2. f.id \in ids' /\ ids \subseteq ids'
          BY <3>2, <3>3 DEF Create
        <4>3. QED
          BY <1>1, <3>4, <4>1, <4>2 DEF NamesInv
      <3>7. QED
        BY <2>2, <3>2, <3>5, <3>6, AddIsAdd
    <2>5. QED
      BY <1>2, <2>1, <2>3, <2>4
  <1>3. ASSUME NEW id \in ids, CancelOnLoop(id)
        PROVE  AlarmInv' /\ [Al!Next]_Al!vars
    <2>1. CancelInLoop(id) /\ UNCHANGED <<now, timerfd, batch, functors, ids>>
      BY <1>3 DEF CancelOnLoop
    <2>2. Queued' = Queued /\ \A i \in DOMAIN functors' : functors'[i].id \in ids
      BY <1>1, <2>1, QueueUnchanged DEF NamesInv
    <2>3. QED
      BY <2>1, <2>2, CancelIsCancel
  <1>4. ASSUME NEW id \in ids, CancelElsewhere(id)
        PROVE  AlarmInv' /\ [Al!Next]_Al!vars
    <2>1. PICK f : f = [call |-> "cancelInLoop", id |-> id]
      OBVIOUS
    <2>2. /\ UNCHANGED <<now, timer, numCreated, timers_, cancelingTimers_, pc, batchNow,
                         expiredTimers, uncalled, ids, cancelled>>
          /\ functors' = Append(functors, f)
          /\ f \in Calls /\ f.call # "addTimerInLoop" /\ f.id = id
          /\ functors \in Seq(Calls)
      BY <1>1, <1>4, <2>1 DEF CancelElsewhere, Queue, sets, batch, TypeOK, Calls
    <2>3. Adding' = Adding /\ \A i \in Adding : functors'[i] = functors[i]
      BY <2>2, QueueAppend
    <2>4. Queued' = Queued
      BY <2>3 DEF Queued
    <2>5. \A i \in DOMAIN functors' : functors'[i].id \in ids'
      <3>1. /\ DOMAIN functors' = DOMAIN functors \cup {Len(functors) + 1}
            /\ \A i \in DOMAIN functors : functors'[i] = functors[i]
            /\ functors'[Len(functors) + 1] = f
        BY <2>2, AppendProperties, LenProperties
      <3>2. QED
        BY <1>1, <2>2, <3>1 DEF NamesInv
    <2>6. (\A b : IdOf(b)' = IdOf(b)) /\ Repeating' = Repeating
      BY <2>2 DEF IdOf, Repeating
    <2>7. AlarmInv'
      BY <2>2, <2>4, <2>5, <2>6 DEF AlarmInv, NamesInv, CancelInv, DueInv
    <2>8. Scheduled' = Scheduled /\ \A b \in Scheduled : SameAlarm(b)
      BY <2>2, <2>4, <2>6 DEF Scheduled, SameAlarm, DueAt
    <2>9. QED
      BY <2>2, <2>7, <2>8, UnseenStep
  <1>5. CASE RunFunctor
    BY <1>5, RunFunctorIsAlarmStep
  <1>6. CASE HandleRead
    BY <1>6, HandleReadIsUnseen
  <1>7. ASSUME NEW a \in Timers, CallTimer(a)
        PROVE  AlarmInv' /\ [Al!Next]_Al!vars
    <2>1. AlarmInv' /\ Al!Run(IdOf(a)) /\ IdOf(a) \in ids
      BY <1>7, CallTimerIsRun
    <2>2. IdOf(a) \in [timer : Timers, sequence : 1..(2 * MaxCreated)]
      BY <1>1, <2>1, IdsAreNames
    <2>3. QED
      BY <2>1, <2>2 DEF Al!Next
  <1>8. CASE CallbackReturns
    BY <1>8, CallbackReturnsIsUnseen
  <1>9. CASE Reset
    BY <1>9, ResetIsUnseen
  <1>10. CASE Tick
    BY <1>10, TickIsTick DEF Al!Next
  <1>11. CASE UNCHANGED vars
    <2>1. UNCHANGED <<now, timer, numCreated, timers_, cancelingTimers_, pc, batchNow,
                      expiredTimers, uncalled, functors, ids, cancelled>>
      BY <1>11 DEF vars, sets, batch
    <2>2. Queued' = Queued /\ (\A b : IdOf(b)' = IdOf(b)) /\ Repeating' = Repeating
      BY <2>1, QueueUnchanged DEF IdOf, Repeating
    <2>3. Scheduled' = Scheduled /\ \A b \in Scheduled : SameAlarm(b)
      BY <2>1, <2>2 DEF Scheduled, SameAlarm, DueAt
    <2>4. AlarmInv'
      BY <2>1, <2>2 DEF AlarmInv, NamesInv, CancelInv, DueInv
    <2>5. QED
      BY <2>1, <2>3, <2>4, UnseenStep
  <1>12. QED
    BY <1>2, <1>3, <1>4, <1>5, <1>6, <1>7, <1>8, <1>9, <1>10, <1>11 DEF Next

LEMMA InitIsAlarmInit ==
  ASSUME Init
  PROVE  AlarmInv /\ Al!Init
  <1>1. Queued = {} /\ Scheduled = {} /\ DOMAIN functors = {}
    BY EmptySeq, LenProperties DEF Init, Queued, Adding, Scheduled, Repeating
  <1>2. AlarmInv
    BY <1>1 DEF Init, AlarmInv, NamesInv, CancelInv, DueInv
  <1>3. Due = <<>>
    <2>1. DOMAIN Due = {}
      BY <1>1, DueEntries
    <2>2. Due = [id \in {} |-> {}]
      BY <2>1 DEF Due
    <2>3. <<>> = [id \in {} |-> {}]
      OBVIOUS
    <2>4. QED
      BY <2>2, <2>3
  <1>4. QED
    BY <1>2, <1>3 DEF Init, Al!Init

\* Until the sequences outgrow the int of TimerId, no timer runs early, twice, or again
\* after a cancel() that found it, and a repeating timer keeps its interval: every step of
\* TimerQueue is one of Alarms, or cannot be seen.
THEOREM TimersAreAlarms ==
  ASSUME MaxCreated < SequenceInt
  PROVE  Spec => ImplementsAlarmsSafely
  <1>1. Init => AlarmInv /\ Al!Init
    BY InitIsAlarmInit
  <1>2. TimerQueueInv /\ TimerQueueInv' /\ AlarmInv /\ [Next]_vars
          => AlarmInv' /\ [Al!Next]_Al!vars
    BY StepIsAlarmStep
  <1>3. QED
    BY <1>1, <1>2, QueueInvariant, PTL DEF Spec, Al!SafeSpec, ImplementsAlarmsSafely

=============================================================================
