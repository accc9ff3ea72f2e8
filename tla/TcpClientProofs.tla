--------------------------- MODULE TcpClientProofs ---------------------------
(****************************************************************************)
(* Proofs about TcpClient and its Connector for any delays, any names of    *)
(* Channels and timers and any bound on the application's calls.            *)
(****************************************************************************)
EXTENDS TcpClient, SequenceTheorems, FiniteSetTheorems, TLAPS

-----------------------------------------------------------------------------
(* Names and delays.                                                        *)

LEMMA FreeName ==
  ASSUME NEW names, names # {}
  PROVE  OneOf(names) \in names
  BY DEF OneOf

\* There is a name for a new Channel while the Poller points to the last one at most.
LEMMA FreeChannel ==
  ASSUME TypeOK, watched \subseteq {channel_}
  PROVE  OneOf(Channels \ (watched \cup {channel_})) \in Channels
  <1>1. Channels \ (watched \cup {channel_}) # {}
    BY TcpClientAssumption DEF TypeOK, None
  <1>2. QED
    BY <1>1, FreeName

\* The delay stays between the first and the longest.
LEMMA DelayInRange ==
  ASSUME retryDelayMs_ \in InitRetryDelayMs..MaxRetryDelayMs
  PROVE  NextDelay \in InitRetryDelayMs..MaxRetryDelayMs
  BY TcpClientAssumption DEF NextDelay

-----------------------------------------------------------------------------
(* The two queues of functors.                                              *)

LEMMA Functors ==
  /\ Bind("startInLoop") \in Functor /\ Bind("startInLoop").call = "startInLoop"
  /\ Bind("resetChannel") \in Functor /\ Bind("resetChannel").call = "resetChannel"
  /\ \A id \in TimerIds \cup {None} :
       /\ [call |-> "cancel", id |-> id] \in Functor
       /\ [call |-> "cancel", id |-> id].call = "cancel"
  BY DEF Functor, Bind

\* Where a call is in a queue.
Calls(queue, call) == {i \in DOMAIN queue : queue[i].call = call}

LEMMA CallPushed ==
  ASSUME NEW queue \in Seq(Functor), NEW f \in Functor, NEW call
  PROVE  /\ Append(queue, f) \in Seq(Functor)
         /\ f.call # call => Calls(Append(queue, f), call) = Calls(queue, call)
         /\ f.call = call => /\ Calls(Append(queue, f), call) # {}
                             /\ Calls(queue, call) = {} =>
                                  \A i, j \in Calls(Append(queue, f), call) : i = j
  <1>1. PICK q : q = Append(queue, f)
    OBVIOUS
  <1>2. PICK n \in Nat : n = Len(queue)
    BY LenProperties
  <1>3. /\ q \in Seq(Functor)
        /\ Len(q) = n + 1
        /\ \A i \in 1..n : q[i] = queue[i]
        /\ q[n + 1] = f
    BY <1>1, <1>2, AppendProperties
  <1>4. DOMAIN queue = 1..n /\ DOMAIN q = 1..(n + 1)
    BY <1>2, <1>3, LenProperties
  <1>5. DOMAIN q = DOMAIN queue \cup {n + 1} /\ n + 1 \notin DOMAIN queue
    BY <1>4
  <1>6. Calls(q, call) = IF f.call = call THEN Calls(queue, call) \cup {n + 1}
                         ELSE Calls(queue, call)
    BY <1>3, <1>4, <1>5 DEF Calls
  <1>7. QED
    BY <1>1, <1>3, <1>6

LEMMA CallPopped ==
  ASSUME NEW queue \in Seq(Functor), queue # <<>>, NEW call
  PROVE  /\ Tail(queue) \in Seq(Functor)
         /\ Head(queue) \in Functor
         /\ Calls(queue, Head(queue).call) # {}
         /\ Head(queue).call # call => (Calls(Tail(queue), call) = {} <=> Calls(queue, call) = {})
         /\ (\A i, j \in Calls(queue, call) : i = j) =>
              /\ \A i, j \in Calls(Tail(queue), call) : i = j
              /\ Head(queue).call = call => Calls(Tail(queue), call) = {}
  <1>1. PICK q : q = Tail(queue)
    OBVIOUS
  <1>2. PICK n \in Nat : n = Len(queue) /\ n # 0
    BY LenProperties, EmptySeq
  <1>3. /\ q \in Seq(Functor)
        /\ Len(q) = n - 1
        /\ \A i \in 1..Len(q) : q[i] = queue[i + 1]
    BY <1>1, <1>2, HeadTailProperties
  <1>4. DOMAIN queue = 1..n /\ DOMAIN q = 1..(n - 1)
    BY <1>2, <1>3, LenProperties
  <1>5. Head(queue) = queue[1] /\ queue[1] \in Functor /\ 1 \in DOMAIN queue
    BY <1>2, <1>4, ElementOfSeq
  <1>6. \A i \in DOMAIN q : i + 1 \in DOMAIN queue /\ i + 1 # 1 /\ q[i] = queue[i + 1]
    BY <1>2, <1>3, <1>4
  <1>7. \A i \in DOMAIN queue : i # 1 => i - 1 \in DOMAIN q /\ q[i - 1] = queue[i]
    BY <1>2, <1>3, <1>4
  <1>8. \A i \in Calls(q, call) : i + 1 \in Calls(queue, call) /\ i + 1 # 1 /\ i \in Int
    BY <1>4, <1>6 DEF Calls
  <1>9. \A i \in Calls(queue, call) : i # 1 => i - 1 \in Calls(q, call)
    BY <1>7 DEF Calls
  <1>10. 1 \in Calls(queue, call) <=> Head(queue).call = call
    BY <1>5 DEF Calls
  <1>11. Calls(queue, Head(queue).call) # {}
    BY <1>5 DEF Calls
  <1>12. Head(queue).call # call => (Calls(q, call) = {} <=> Calls(queue, call) = {})
    BY <1>8, <1>9, <1>10
  <1>13. (\A i, j \in Calls(queue, call) : i = j) =>
              /\ \A i, j \in Calls(q, call) : i = j
              /\ Head(queue).call = call => Calls(q, call) = {}
    BY <1>8, <1>10
  <1>14. QED
    BY <1>1, <1>3, <1>5, <1>11, <1>12, <1>13

LEMMA AsCalls ==
  /\ \A call : Queued(call) = Calls(functors, call) /\ Batched(call) = Calls(batch, call)
  /\ \A call : Queued(call)' = Calls(functors', call) /\ Batched(call)' = Calls(batch', call)
  BY DEF Queued, Batched, Calls

\* The queues as they were.
LEMMA Kept ==
  ASSUME FunctorsInv, UNCHANGED <<functors, batch>>
  PROVE  FunctorsInv' /\ StartWaits' = StartWaits /\ ResetWaits' = ResetWaits
  BY DEF FunctorsInv, StartWaits, ResetWaits, Queued, Batched

\* A functor is queued that does not wait already, or is a cancel.
LEMMA Pushed ==
  ASSUME TypeOK, FunctorsInv, NEW f \in Functor,
         functors' = Append(functors, f), UNCHANGED batch,
         f.call = "startInLoop" => ~StartWaits,
         f.call = "resetChannel" => ~ResetWaits
  PROVE  /\ FunctorsInv'
         /\ StartWaits' <=> StartWaits \/ f.call = "startInLoop"
         /\ ResetWaits' <=> ResetWaits \/ f.call = "resetChannel"
  <1>1. functors \in Seq(Functor)
    BY DEF TypeOK
  <1>2. ASSUME NEW call \in {"startInLoop", "resetChannel"}
        PROVE  /\ f.call # call => Queued(call)' = Queued(call)
               /\ f.call = call => /\ Queued(call)' # {}
                                   /\ Queued(call) = {} => \A i, j \in Queued(call)' : i = j
               /\ Batched(call)' = Batched(call)
    <2>1. /\ f.call # call => Calls(Append(functors, f), call) = Calls(functors, call)
          /\ f.call = call => /\ Calls(Append(functors, f), call) # {}
                              /\ Calls(functors, call) = {} =>
                                   \A i, j \in Calls(Append(functors, f), call) : i = j
      BY ONLY <1>1, f \in Functor, CallPushed
    <2>2. Queued(call)' = Calls(Append(functors, f), call) /\ Queued(call) = Calls(functors, call)
      BY AsCalls
    <2>3. QED
      BY <2>1, <2>2 DEF Batched
  <1>3. StartWaits' <=> StartWaits \/ f.call = "startInLoop"
    BY <1>2 DEF StartWaits
  <1>4. ResetWaits' <=> ResetWaits \/ f.call = "resetChannel"
    BY <1>2 DEF ResetWaits
  <1>5. ASSUME NEW call \in {"startInLoop", "resetChannel"}
        PROVE  (/\ \A i, j \in Queued(call) : i = j
                /\ \A i, j \in Batched(call) : i = j
                /\ Queued(call) = {} \/ Batched(call) = {})'
    <2>1. f.call = call => Queued(call) = {} /\ Batched(call) = {}
      BY <1>5 DEF StartWaits, ResetWaits
    <2>2. QED
      BY <1>2, <2>1 DEF FunctorsInv
  <1>6. QED
    BY <1>3, <1>4, <1>5 DEF FunctorsInv

\* The functors that were pending become the batch.
LEMMA Swapped ==
  ASSUME FunctorsInv, batch = <<>>, batch' = functors, functors' = <<>>
  PROVE  FunctorsInv' /\ StartWaits' = StartWaits /\ ResetWaits' = ResetWaits
  <1>1. \A call : /\ Batched(call) = {} /\ Queued(call)' = {}
                  /\ Batched(call)' = Queued(call)
    BY DEF Queued, Batched
  <1>2. QED
    BY <1>1 DEF FunctorsInv, StartWaits, ResetWaits

\* The first functor of the batch was called.
LEMMA Popped ==
  ASSUME TypeOK, FunctorsInv, batch # <<>>, batch' = Tail(batch), UNCHANGED functors
  PROVE  /\ FunctorsInv'
         /\ Head(batch).call = "startInLoop" => StartWaits /\ ~StartWaits'
         /\ Head(batch).call # "startInLoop" => StartWaits' = StartWaits
         /\ Head(batch).call = "resetChannel" => ResetWaits /\ ~ResetWaits'
         /\ Head(batch).call # "resetChannel" => ResetWaits' = ResetWaits
  <1>1. batch \in Seq(Functor)
    BY DEF TypeOK
  <1>2. ASSUME NEW call \in {"startInLoop", "resetChannel"}
        PROVE  /\ Head(batch).call = call => Batched(call) # {} /\ Batched(call)' = {}
               /\ Head(batch).call # call => (Batched(call)' = {} <=> Batched(call) = {})
               /\ \A i, j \in Batched(call)' : i = j
               /\ Queued(call)' = Queued(call)
    BY <1>1, CallPopped, AsCalls DEF FunctorsInv
  <1>3. \A call \in {"startInLoop", "resetChannel"} : Head(batch).call = call => Queued(call) = {}
    BY <1>2 DEF FunctorsInv
  <1>4. FunctorsInv'
    BY <1>2, <1>3 DEF FunctorsInv
  <1>5. /\ Head(batch).call = "startInLoop" => StartWaits /\ ~StartWaits'
        /\ Head(batch).call # "startInLoop" => StartWaits' = StartWaits
    BY <1>2, <1>3 DEF StartWaits
  <1>6. /\ Head(batch).call = "resetChannel" => ResetWaits /\ ~ResetWaits'
        /\ Head(batch).call # "resetChannel" => ResetWaits' = ResetWaits
    BY <1>2, <1>3 DEF ResetWaits
  <1>7. QED
    BY <1>4, <1>5, <1>6

-----------------------------------------------------------------------------
(* Types.                                                                   *)

LEMMA InitType == Init => TypeOK
  <1>1. InitRetryDelayMs \in InitRetryDelayMs..MaxRetryDelayMs
    BY TcpClientAssumption
  <1>2. <<>> \in Seq(Functor)
    BY EmptySeq
  <1>3. QED
    BY <1>1, <1>2 DEF Init, TypeOK, States, Continuations, ThreadPcs

\* A failed assertion changes nothing else.
LEMMA Failed ==
  ASSUME NEW assertion \in Assertions, Fail(assertion)
  PROVE  /\ aborted' = assertion
         /\ UNCHANGED <<retry_, connect_, connection_, wanted, state_, retryDelayMs_, channel_>>
         /\ UNCHANGED <<timerId_, watched, timers, ready, functors, batch, next>>
         /\ UNCHANGED <<threadPc, cancelId, hasty, stopped, gaveUp>>
  BY DEF Fail, client, connector, registry, queues, thread, history

LEMMA FailedType ==
  ASSUME TypeOK, NEW assertion \in Assertions, Fail(assertion)
  PROVE  TypeOK'
  BY Failed DEF TypeOK

\* The queues keep their type.
LEMMA QueuesType ==
  ASSUME TypeOK
  PROVE  /\ \A f \in Functor : Append(functors, f) \in Seq(Functor)
         /\ batch # <<>> => Tail(batch) \in Seq(Functor) /\ Head(batch) \in Functor
         /\ <<>> \in Seq(Functor)
  BY CallPushed, CallPopped, EmptySeq DEF TypeOK

\* The steps of the loop that are part of an attempt, or between two of them.
LEMMA AttemptType ==
  ASSUME TypeOK, Attempt \/ RunAfter \/ NewConnection \/ Restart
  PROVE  TypeOK'
  <1>1. CASE Connecting
    <2>1. channel_' \in Channels
      BY <1>1, FreeChannel DEF Connecting, Sane
    <2>2. QED
      BY <1>1, <2>1 DEF Connecting, TypeOK, States, Continuations, client, queues, thread, history
  <1>2. CASE ConnectRetries
    BY <1>2 DEF ConnectRetries, retry, TypeOK, States, Continuations, client, registry, queues,
       thread, history
  <1>3. CASE ConnectGivesUp
    BY <1>3 DEF ConnectGivesUp, TypeOK, Continuations, client, connector, registry, queues, thread
  <1>4. CASE RunAfter
    <2>1. timerId_' \in TimerIds
      <3>1. OneOf(FreshTimers) \in FreshTimers
        BY <1>4, FreeName DEF RunAfter
      <3>2. QED
        BY <1>4, <3>1 DEF RunAfter, FreshTimers
    <2>2. retryDelayMs_' \in InitRetryDelayMs..MaxRetryDelayMs
      BY <1>4, DelayInRange DEF RunAfter, TypeOK
    <2>3. QED
      BY <1>4, <2>1, <2>2 DEF RunAfter, TypeOK, Continuations, client, queues, thread, history
  <1>5. CASE NewConnection
    BY <1>5 DEF NewConnection, TypeOK, Continuations, connector, registry, queues, thread, history
  <1>6. CASE Restart
    <2>1. InitRetryDelayMs \in InitRetryDelayMs..MaxRetryDelayMs
      BY TcpClientAssumption
    <2>2. QED
      BY <1>6, <2>1 DEF Restart, TypeOK, States, Continuations, client, registry, queues, thread,
         history
  <1>7. QED
    BY <1>1, <1>2, <1>3, <1>4, <1>5, <1>6 DEF Attempt

\* The handlers of events.
LEMMA EventType ==
  ASSUME TypeOK, HandleEvent
  PROVE  TypeOK'
  <1>1. CASE \E assertion \in Assertions : Fail(assertion)
    BY <1>1, FailedType
  <1>2. CASE HandleTimer
    <2>1. CASE Fail("Connector.cc:14")
      BY <2>1, FailedType DEF Assertions
    <2>2. CASE ~Fail("Connector.cc:14")
      BY <1>2, <2>2 DEF HandleTimer, startInLoop, TypeOK, Continuations, client, connector, queues,
         thread, history
    <2>3. QED
      BY <2>1, <2>2
  <1>3. CASE HandleNoTimer
    BY <1>3 DEF HandleNoTimer, TypeOK, client, connector, registry, queues, thread, history
  <1>4. CASE removeAndResetChannel /\ (HandleError \/ HandleWriteFails \/ HandleWriteConnects)
    <2>1. functors' \in Seq(Functor)
      BY <1>4, QueuesType, Functors DEF removeAndResetChannel, queueInLoop
    <2>2. CASE Fail("Connector.cc:144")
      BY <2>2, FailedType DEF Assertions
    <2>3. CASE ~Fail("Connector.cc:144")
      BY <1>4, <2>1, <2>3 DEF HandleError, HandleWriteFails, HandleWriteConnects,
         removeAndResetChannel, retry, TypeOK, States, Continuations, client, thread, history
    <2>4. QED
      BY <2>2, <2>3
  <1>5. CASE HandleWriteIdle
    <2>1. CASE Fail("Connector.cc:137")
      BY <2>1, FailedType DEF Assertions
    <2>2. CASE ~Fail("Connector.cc:137")
      BY <1>5, <2>2 DEF HandleWriteIdle, TypeOK, client, connector, registry, queues, thread, history
    <2>3. QED
      BY <2>1, <2>2
  <1>6. CASE RemoveConnection
    <2>1. CASE Fail("TcpConnection.cc:148")
      BY <2>1, FailedType DEF Assertions
    <2>2. CASE ~Fail("TcpConnection.cc:148")
      BY <1>6, <2>2 DEF RemoveConnection, retryAndConnect, TypeOK, Continuations, connector,
         registry, queues, thread, history
    <2>3. QED
      BY <2>1, <2>2
  <1>7. QED
    BY <1>1, <1>2, <1>3, <1>4, <1>5, <1>6
    DEF HandleEvent, HandleError, HandleWriteFails, HandleWriteConnects, Assertions

\* The loop's functors.
LEMMA FunctorType ==
  ASSUME TypeOK, SwapPending \/ StartInLoop \/ ResetChannel \/ CancelInLoop
  PROVE  TypeOK'
  <1>1. CASE SwapPending
    BY <1>1, QueuesType DEF SwapPending, TypeOK, client, connector, registry, thread, history
  <1>2. CASE StartInLoop
    <2>1. CASE Fail("Connector.cc:14")
      BY <2>1, FailedType DEF Assertions
    <2>2. CASE ~Fail("Connector.cc:14")
      BY <1>2, <2>2, QueuesType DEF StartInLoop, NextFunctor, startInLoop, TypeOK, Continuations,
         client, connector, registry, thread, history
    <2>3. QED
      BY <2>1, <2>2
  <1>3. CASE ResetChannel
    BY <1>3, QueuesType DEF ResetChannel, NextFunctor, TypeOK, client, registry, thread, history
  <1>4. CASE CancelInLoop
    BY <1>4, QueuesType DEF CancelInLoop, NextFunctor, TypeOK, client, connector, thread, history
  <1>5. QED
    BY <1>1, <1>2, <1>3, <1>4

\* The calls of the application.
LEMMA CallType ==
  ASSUME TypeOK, ConnectOnLoop \/ StopOnLoop \/ ThreadStep \/ Connect \/ Stop \/ Disconnect
  PROVE  TypeOK'
  <1>1. CASE ConnectOnLoop
    BY <1>1 DEF ConnectOnLoop, AtRest, Sane, TypeOK, Continuations, Assertions, None, registry, queues, thread
  <1>2. CASE StopOnLoop
    BY <1>2 DEF StopOnLoop, TypeOK, queues, thread
  <1>3. CASE Start \/ StopConnector \/ ReadTimer \/ ShutdownConnection
    BY <1>3 DEF Start, StopConnector, ReadTimer, ShutdownConnection, Goto, TypeOK, ThreadPcs,
       client, connector, registry, queues, history
  <1>4. CASE QueueStart
    <2>1. functors' \in Seq(Functor)
      BY <1>4, QueuesType, Functors DEF QueueStart, queueInLoop
    <2>2. QED
      BY <1>4, <2>1 DEF QueueStart, Goto, TypeOK, ThreadPcs, client, connector, registry, history
  <1>5. CASE QueueCancel
    <2>1. functors' \in Seq(Functor)
      BY <1>5, QueuesType, Functors DEF QueueCancel, queueInLoop, TypeOK
    <2>2. QED
      BY <1>5, <2>1 DEF QueueCancel, Goto, TypeOK, ThreadPcs, client, connector, registry, history
  <1>6. CASE Connect \/ Stop \/ Disconnect
    BY <1>6 DEF Connect, Stop, Disconnect, Goto, TypeOK, ThreadPcs, connector, registry, queues,
       history
  <1>7. QED
    BY <1>1, <1>2, <1>3, <1>4, <1>5, <1>6 DEF ThreadStep

LEMMA TypeStep == TypeOK /\ [Next]_vars => TypeOK'
  <1> SUFFICES ASSUME TypeOK, [Next]_vars PROVE TypeOK'
    OBVIOUS
  <1>1. CASE LoopStep
    BY <1>1, AttemptType, EventType, FunctorType DEF LoopStep
  <1>2. ASSUME NEW events \in SUBSET Events, Poll(events) PROVE TypeOK'
    BY <1>2 DEF Poll, TypeOK, client, connector, registry, queues, thread, history
  <1>3. CASE ConnectOnLoop \/ StopOnLoop \/ ThreadStep \/ Connect \/ Stop \/ Disconnect
    BY <1>3, CallType
  <1>4. CASE UNCHANGED vars
    BY <1>4 DEF vars, TypeOK, client, connector, registry, queues, thread, history
  <1>5. QED
    BY <1>1, <1>2, <1>3, <1>4 DEF Next

-----------------------------------------------------------------------------
(* stop().                                                                  *)

LEMMA StopStep == StopInv /\ [Next]_vars => StopInv'
  <1> SUFFICES ASSUME StopInv, [Next]_vars, stopped' PROVE StopInv'
    BY DEF StopInv
  <1>1. CASE StopOnLoop \/ StopConnector
    BY <1>1 DEF StopOnLoop, StopConnector, Goto, AtRest, StopInv, client, thread, None
  <1>2. CASE ~StopOnLoop /\ ~StopConnector
    <2>1. stopped
      BY <1>2 DEF Next, LoopStep, Attempt, Connecting, ConnectRetries, ConnectGivesUp, RunAfter,
         NewConnection, Restart, HandleEvent, HandleTimer, HandleNoTimer, HandleError,
         HandleWriteFails, HandleWriteConnects, HandleWriteIdle, RemoveConnection, Fail,
         SwapPending, StartInLoop, ResetChannel, CancelInLoop, Poll, ConnectOnLoop, ThreadStep,
         Start, QueueStart, ReadTimer, QueueCancel, ShutdownConnection, Connect, Stop, Disconnect,
         vars, history
    <2>2. /\ ~connect_ /\ ~wanted
          /\ next \notin {"connect", "newConnection", "restart"} /\ threadPc # "start"
      BY <2>1 DEF StopInv
    <2>3. connect_' = connect_ \/ connect_' = FALSE
      BY <1>2, <2>2 DEF Next, LoopStep, Attempt, Connecting, ConnectRetries, ConnectGivesUp,
         RunAfter, NewConnection, Restart, HandleEvent, HandleTimer, HandleNoTimer, HandleError,
         HandleWriteFails, HandleWriteConnects, HandleWriteIdle, RemoveConnection, Fail,
         SwapPending, StartInLoop, ResetChannel, CancelInLoop, Poll, ConnectOnLoop, ThreadStep,
         Start, QueueStart, ReadTimer, QueueCancel, ShutdownConnection, Connect, Stop, Disconnect,
         Goto, vars, client
    <2>4. wanted' = wanted \/ wanted' = FALSE
      BY <1>2, <2>2 DEF Next, LoopStep, Attempt, Connecting, ConnectRetries, ConnectGivesUp,
         RunAfter, NewConnection, Restart, HandleEvent, HandleTimer, HandleNoTimer, HandleError,
         HandleWriteFails, HandleWriteConnects, HandleWriteIdle, RemoveConnection, Fail,
         SwapPending, StartInLoop, ResetChannel, CancelInLoop, Poll, ConnectOnLoop, ThreadStep,
         Start, QueueStart, ReadTimer, QueueCancel, ShutdownConnection, Connect, Stop, Disconnect,
         Goto, vars, connector
    <2>5. threadPc' # "start"
      BY <1>2, <2>2 DEF Next, LoopStep, Attempt, Connecting, ConnectRetries, ConnectGivesUp,
         RunAfter, NewConnection, Restart, HandleEvent, HandleTimer, HandleNoTimer, HandleError,
         HandleWriteFails, HandleWriteConnects, HandleWriteIdle, RemoveConnection, Fail,
         SwapPending, StartInLoop, ResetChannel, CancelInLoop, Poll, ConnectOnLoop, ThreadStep,
         Start, QueueStart, ReadTimer, QueueCancel, ShutdownConnection, Connect, Stop, Disconnect,
         Goto, vars, thread
    <2>6. next' \notin {"connect", "newConnection", "restart"}
      BY <1>2, <2>2 DEF Next, LoopStep, Attempt, Connecting, ConnectRetries, ConnectGivesUp,
         RunAfter, NewConnection, Restart, HandleEvent, HandleTimer, HandleNoTimer, HandleError,
         HandleWriteFails, HandleWriteConnects, HandleWriteIdle, RemoveConnection, Fail,
         SwapPending, StartInLoop, ResetChannel, CancelInLoop, Poll, ConnectOnLoop, ThreadStep,
         Start, QueueStart, ReadTimer, QueueCancel, ShutdownConnection, Connect, Stop, Disconnect,
         retry, startInLoop, retryAndConnect, vars, None
    <2>7. QED
      BY <2>2, <2>3, <2>4, <2>5, <2>6 DEF StopInv
  <1>3. QED
    BY <1>1, <1>2

-----------------------------------------------------------------------------
(* The attempts, as long as no connect() was hasty.                         *)

\* One attempt at a time: AttemptInv without the assertions.
Orderly == FunctorsInv /\ OneInv /\ ChannelInv /\ StateInv /\ ReadyInv

\* What is under way is counted: one thing, or nothing.
LEMMA Counted ==
  ASSUME TypeOK, Orderly
  PROVE  /\ UnderWay <= 1
         /\ UnderWay = 0 => /\ watched = {} /\ timers = {} /\ ~StartWaits /\ ~Calling
                            /\ next = None /\ connection_ = None
  <1>1. ASSUME NEW S, \A a, b \in S : a = b
        PROVE  Cardinality(S) = IF S = {} THEN 0 ELSE 1
    <2>1. CASE S = {}
      BY <2>1, FS_EmptySet
    <2>2. CASE S # {}
      <3>1. PICK a \in S : S = {a}
        BY <1>1, <2>2
      <3>2. QED
        BY <2>2, <3>1, FS_Singleton
    <2>3. QED
      BY <2>1, <2>2
  <1>2. /\ Cardinality(watched) = IF watched = {} THEN 0 ELSE 1
        /\ Cardinality(timers) = IF timers = {} THEN 0 ELSE 1
    BY <1>1 DEF Orderly, OneInv
  <1>3. /\ Cardinality(Queued("startInLoop")) = IF Queued("startInLoop") = {} THEN 0 ELSE 1
        /\ Cardinality(Batched("startInLoop")) = IF Batched("startInLoop") = {} THEN 0 ELSE 1
        /\ Queued("startInLoop") = {} \/ Batched("startInLoop") = {}
    BY <1>1 DEF Orderly, FunctorsInv
  <1>4. PICK w \in {0, 1}, t \in {0, 1}, q \in {0, 1}, b \in {0, 1} :
          /\ w = Cardinality(watched) /\ (w = 0 <=> watched = {})
          /\ t = Cardinality(timers) /\ (t = 0 <=> timers = {})
          /\ q = Cardinality(Queued("startInLoop")) /\ (q = 0 <=> Queued("startInLoop") = {})
          /\ b = Cardinality(Batched("startInLoop")) /\ (b = 0 <=> Batched("startInLoop") = {})
    BY <1>2, <1>3
  <1>5. PICK c \in {0, 1}, n \in {0, 1}, k \in {0, 1} :
          /\ c = (IF threadPc \in {"start", "queueStart"} THEN 1 ELSE 0) /\ (c = 0 <=> ~Calling)
          /\ n = (IF next # None THEN 1 ELSE 0) /\ (n = 0 <=> next = None)
          /\ k = (IF connection_ # None THEN 1 ELSE 0) /\ (k = 0 <=> connection_ = None)
    BY DEF Calling
  <1>6. UnderWay = w + t + q + b + c + n + k
    BY <1>4, <1>5 DEF UnderWay
  <1>7. /\ w = 1 => t = 0 /\ q = 0 /\ b = 0 /\ c = 0 /\ n = 0 /\ k = 0
        /\ t = 1 => q = 0 /\ b = 0 /\ c = 0 /\ n = 0 /\ k = 0
        /\ q = 1 => b = 0 /\ c = 0 /\ n = 0 /\ k = 0
        /\ b = 1 => c = 0 /\ n = 0 /\ k = 0
        /\ c = 1 => n = 0 /\ k = 0
        /\ n = 1 => k = 0
    BY <1>3, <1>4, <1>5 DEF Orderly, OneInv, StartWaits
  <1>8. /\ UnderWay <= 1
        /\ UnderWay = 0 => w = 0 /\ t = 0 /\ q = 0 /\ b = 0 /\ c = 0 /\ n = 0 /\ k = 0
    BY ONLY <1>6, <1>7, w \in {0, 1}, t \in {0, 1}, q \in {0, 1}, b \in {0, 1}, c \in {0, 1},
            n \in {0, 1}, k \in {0, 1}
  <1>9. QED
    BY <1>4, <1>5, <1>8 DEF StartWaits

\* An attempt that is not hasty begins when nothing is under way.
LEMMA QuietStart ==
  ASSUME TypeOK, Orderly, Quiet
  PROVE  /\ watched = {} /\ timers = {} /\ ~StartWaits /\ ~Calling /\ next = None
         /\ connection_ = None /\ ~ResetWaits /\ channel_ = None /\ state_ = "kDisconnected"
         /\ ready \cap {"error", "write"} = {}
  <1>1. /\ watched = {} /\ timers = {} /\ ~StartWaits /\ ~Calling /\ next = None
        /\ connection_ = None
    BY Counted DEF Quiet
  <1>2. channel_ = None /\ state_ = "kDisconnected" /\ ~ResetWaits
    BY DEF Quiet, Orderly, ChannelInv
  <1>3. ready \cap {"error", "write"} = {}
    BY <1>1, <1>2 DEF Orderly, ReadyInv
  <1>4. QED
    BY <1>1, <1>2, <1>3

\* A step that begins nothing: it may only take away timers and events.
LEMMA Undisturbed ==
  ASSUME Orderly, FunctorsInv', StartWaits' = StartWaits, ResetWaits' = ResetWaits,
         UNCHANGED <<state_, channel_, watched, next>>,
         connection_' = None <=> connection_ = None,
         Calling' <=> Calling,
         timers' \subseteq timers, ready' \subseteq ready
  PROVE  Orderly'
  <1>1. OneInv'
    BY DEF Orderly, OneInv
  <1>2. ChannelInv'
    BY DEF Orderly, ChannelInv
  <1>3. StateInv'
    BY DEF Orderly, StateInv
  <1>4. ReadyInv'
    BY DEF Orderly, ReadyInv
  <1>5. QED
    BY <1>1, <1>2, <1>3, <1>4 DEF Orderly

\* ::connect and what its result leads to.
LEMMA AttemptOrderly ==
  ASSUME TypeOK, Orderly, Attempt \/ RunAfter \/ NewConnection \/ Restart
  PROVE  Orderly'
  <1>1. /\ next # None
        /\ UNCHANGED <<functors, batch, ready, threadPc>>
        /\ FunctorsInv' /\ StartWaits' = StartWaits /\ ResetWaits' = ResetWaits
        /\ Calling' = Calling
    <2>1. next # None /\ UNCHANGED <<functors, batch, ready, threadPc>>
      BY DEF Attempt, Connecting, ConnectRetries, ConnectGivesUp, RunAfter, NewConnection, Restart,
         None, queues, thread
    <2>2. QED
      BY <2>1, Kept DEF Orderly, Calling
  <1>2. watched = {} /\ timers = {} /\ ~StartWaits /\ ~Calling /\ connection_ = None
    BY <1>1 DEF Orderly, OneInv
  <1>3. CASE Connecting
    <2>1. /\ channel_' \in Channels /\ channel_' # None
          /\ watched' = {channel_'}
          /\ state_' = "kConnecting" /\ next' = None /\ next = "connect"
          /\ UNCHANGED <<connection_, timers>>
      BY <1>2, <1>3, FreeChannel, TcpClientAssumption DEF Connecting, Sane, client, None
    <2>2. ~ResetWaits /\ channel_ = None
      BY <1>2, <2>1 DEF Orderly, ChannelInv
    <2>3. ready \cap {"error", "write"} = {}
      BY <1>2, <2>2 DEF Orderly, ReadyInv
    <2>4. OneInv'
      BY <1>1, <1>2, <2>1 DEF OneInv
    <2>5. ChannelInv'
      BY <1>1, <2>1, <2>2 DEF ChannelInv
    <2>6. StateInv'
      BY <1>1, <1>2, <2>1 DEF StateInv, None
    <2>7. ReadyInv'
      BY <1>1, <2>1, <2>3 DEF ReadyInv
    <2>8. QED
      BY <1>1, <2>4, <2>5, <2>6, <2>7 DEF Orderly
  <1>4. CASE ConnectRetries \/ ConnectGivesUp
    <2>1. /\ next' \in {None, "runAfter"} /\ next = "connect"
          /\ state_' = "kDisconnected"
          /\ UNCHANGED <<channel_, watched, timers, connection_>>
      BY <1>4 DEF ConnectRetries, ConnectGivesUp, retry, client, connector, registry, Orderly, StateInv
    <2>2. OneInv' /\ ChannelInv' /\ StateInv' /\ ReadyInv'
      BY <1>1, <1>2, <2>1 DEF Orderly, OneInv, ChannelInv, StateInv, ReadyInv, None
    <2>3. QED
      BY <1>1, <2>2 DEF Orderly
  <1>5. CASE RunAfter
    <2>1. /\ next' = None /\ next = "runAfter"
          /\ timers' = timers \cup {timerId_'}
          /\ UNCHANGED <<channel_, watched, state_, connection_>>
      BY <1>5 DEF RunAfter, client
    <2>2. OneInv' /\ ChannelInv' /\ StateInv' /\ ReadyInv'
      BY <1>1, <1>2, <2>1 DEF Orderly, OneInv, ChannelInv, StateInv, ReadyInv, None
    <2>3. QED
      BY <1>1, <2>2 DEF Orderly
  <1>6. CASE NewConnection
    <2>1. /\ next' = None
          /\ UNCHANGED <<channel_, watched, timers, state_>>
      BY <1>6 DEF NewConnection, connector, registry
    <2>2. OneInv' /\ ChannelInv' /\ StateInv' /\ ReadyInv'
      BY <1>1, <1>2, <2>1 DEF Orderly, OneInv, ChannelInv, StateInv, ReadyInv, None
    <2>3. QED
      BY <1>1, <2>2 DEF Orderly
  <1>7. CASE Restart
    <2>1. /\ next' = "connect" /\ next = "restart"
          /\ state_' = "kDisconnected"
          /\ UNCHANGED <<channel_, watched, timers, connection_>>
      BY <1>7 DEF Restart, client, registry
    <2>2. OneInv' /\ ChannelInv' /\ StateInv' /\ ReadyInv'
      BY <1>1, <1>2, <2>1 DEF Orderly, OneInv, ChannelInv, StateInv, ReadyInv, None
    <2>3. QED
      BY <1>1, <2>2 DEF Orderly
  <1>8. QED
    BY <1>3, <1>4, <1>5, <1>6, <1>7 DEF Attempt

\* The socket of an attempt leaves the Poller, and resetChannel() is queued.
LEMMA RemoveOrderly ==
  ASSUME TypeOK, Orderly, AtRest, state_ = "kConnecting", removeAndResetChannel,
         UNCHANGED <<channel_, timers, connection_, batch, threadPc>>,
         \/ state_' = "kDisconnected" /\ next' \in {None, "runAfter"} /\ ready' \subseteq {"write"}
         \/ state_' = "kConnected" /\ next' \in {None, "newConnection"} /\ ready' = {}
  PROVE  Orderly'
  <1>1. watched = {channel_} /\ channel_ # None /\ ~ResetWaits
    BY TcpClientAssumption DEF Orderly, StateInv, ChannelInv, TypeOK, None
  <1>2. watched' = {} /\ functors' = Append(functors, Bind("resetChannel"))
    BY <1>1 DEF removeAndResetChannel, queueInLoop
  <1>3. /\ FunctorsInv' /\ StartWaits' = StartWaits /\ ResetWaits'
        /\ Calling' = Calling
    <2>1. FunctorsInv
      BY DEF Orderly
    <2>2. /\ FunctorsInv'
          /\ StartWaits' <=> StartWaits \/ Bind("resetChannel").call = "startInLoop"
          /\ ResetWaits' <=> ResetWaits \/ Bind("resetChannel").call = "resetChannel"
      BY <1>1, <1>2, <2>1, Functors, Pushed
    <2>3. QED
      BY <2>2, Functors DEF StartWaits, Calling
  <1>4. timers = {} /\ ~StartWaits /\ ~Calling /\ connection_ = None
    BY <1>1 DEF Orderly, OneInv
  <1>5. OneInv' /\ ChannelInv'
    BY <1>1, <1>2, <1>3, <1>4 DEF OneInv, ChannelInv, None
  <1>6. StateInv' /\ ReadyInv'
    BY <1>1, <1>2, <1>3, <1>4 DEF StateInv, ReadyInv, None
  <1>7. QED
    BY <1>3, <1>5, <1>6 DEF Orderly

\* The retry timer finds kDisconnected and the last Channel destroyed.
LEMMA TimerOrderly ==
  ASSUME TypeOK, Orderly, HandleTimer
  PROVE  Orderly' /\ aborted' = aborted
  <1>1. "timer" \in ready /\ timers # {}
    BY DEF HandleTimer
  <1>2. state_ = "kDisconnected"
    BY <1>1 DEF Orderly, StateInv
  <1>3. PICK id \in timers :
          /\ timers' = timers \ {id}
          /\ ready' = ready \ {"timer"}
          /\ startInLoop
          /\ UNCHANGED <<client, connector, watched, queues, thread, history, aborted>>
    BY <1>2 DEF HandleTimer
  <1>4. /\ next' \in {None, "connect"}
        /\ UNCHANGED <<channel_, state_, connection_, watched, functors, batch, threadPc, aborted>>
    BY <1>3 DEF startInLoop, client, connector, queues, thread
  <1>5. watched = {} /\ timers' = {} /\ ~StartWaits /\ ~Calling /\ connection_ = None
    BY <1>1, <1>3 DEF Orderly, OneInv
  <1>6. ~ResetWaits
    BY <1>1 DEF Orderly, ChannelInv
  <1>7. /\ FunctorsInv' /\ StartWaits' = StartWaits /\ ResetWaits' = ResetWaits
        /\ Calling' = Calling
    BY <1>4, Kept DEF Orderly, Calling
  <1>8. OneInv' /\ ChannelInv'
    BY <1>4, <1>5, <1>6, <1>7 DEF Orderly, OneInv, ChannelInv
  <1>9. StateInv' /\ ReadyInv'
    BY <1>2, <1>3, <1>4, <1>5, <1>7 DEF Orderly, StateInv, ReadyInv
  <1>10. QED
    BY <1>4, <1>7, <1>8, <1>9 DEF Orderly

\* The handlers of the socket find kConnecting, or what handleError() has left.
LEMMA SocketOrderly ==
  ASSUME TypeOK, Orderly, HandleError \/ HandleWriteFails \/ HandleWriteConnects \/ HandleWriteIdle
  PROVE  Orderly' /\ aborted' = aborted
  <1>1. CASE HandleError
    <2>1. state_ = "kConnecting" /\ ready \subseteq {"error", "write"}
      BY <1>1 DEF HandleError, Orderly, StateInv, ReadyInv
    <2>2. /\ AtRest /\ removeAndResetChannel /\ state_' = "kDisconnected"
          /\ next' \in {None, "runAfter"} /\ ready' \subseteq {"write"}
          /\ UNCHANGED <<channel_, timers, connection_, batch, threadPc, aborted>>
      BY <1>1, <2>1 DEF HandleError, Fail, retry, client, thread
    <2>3. QED
      BY <2>1, <2>2, RemoveOrderly
  <1>2. CASE HandleWriteFails \/ HandleWriteConnects
    <2>1. state_ = "kConnecting" /\ ready' = {}
      <3>1. ready \subseteq {"error", "write"} /\ "error" \notin ready
        BY <1>2 DEF HandleWriteFails, HandleWriteConnects, WriteReady, Orderly, ReadyInv
      <3>2. QED
        BY <1>2, <3>1 DEF HandleWriteFails, HandleWriteConnects
    <2>2. /\ AtRest /\ removeAndResetChannel
          /\ \/ state_' = "kDisconnected" /\ next' \in {None, "runAfter"}
             \/ state_' = "kConnected" /\ next' \in {None, "newConnection"}
          /\ UNCHANGED <<channel_, timers, connection_, batch, threadPc, aborted>>
      BY <1>2 DEF HandleWriteFails, HandleWriteConnects, WriteReady, retry, client, thread
    <2>3. QED
      BY <2>1, <2>2, RemoveOrderly
  <1>3. CASE HandleWriteIdle
    <2>1. state_ # "kConnected"
      BY <1>3 DEF HandleWriteIdle, WriteReady, Orderly, StateInv, ReadyInv
    <2>2. /\ ready' = ready \ {"write"}
          /\ UNCHANGED <<channel_, state_, connection_, watched, timers, functors, batch, next>>
          /\ UNCHANGED <<threadPc, aborted>>
      BY <1>3, <2>1 DEF HandleWriteIdle, client, connector, registry, queues, thread
    <2>3. FunctorsInv' /\ StartWaits' = StartWaits /\ ResetWaits' = ResetWaits
      BY <2>2, Kept DEF Orderly
    <2>4. QED
      BY <2>2, <2>3, Undisturbed DEF Calling
  <1>4. QED
    BY <1>1, <1>2, <1>3

\* The connection is closed: it is made again, or not.
LEMMA CloseOrderly ==
  ASSUME TypeOK, Orderly, RemoveConnection
  PROVE  Orderly' /\ aborted' \in {aborted, "TcpConnection.cc:148"}
  <1>1. CASE Fail("TcpConnection.cc:148")
    <2>1. /\ aborted' = "TcpConnection.cc:148"
          /\ UNCHANGED <<channel_, state_, connection_, watched, timers, functors, batch, next>>
          /\ UNCHANGED <<threadPc, ready>>
      BY <1>1, Failed DEF Assertions
    <2>2. FunctorsInv' /\ StartWaits' = StartWaits /\ ResetWaits' = ResetWaits
      BY <2>1, Kept DEF Orderly
    <2>3. QED
      BY <2>1, <2>2, Undisturbed DEF Calling
  <1>2. CASE ~Fail("TcpConnection.cc:148")
    <2>1. /\ "close" \in ready /\ connection_ = "up" /\ next = None
          /\ connection_' = None /\ ready' = ready \ {"close"}
          /\ next' \in {None, "restart"}
          /\ UNCHANGED <<channel_, state_, watched, timers, functors, batch, threadPc, aborted>>
      BY <1>2 DEF RemoveConnection, AtRest, retryAndConnect, connector, registry, queues, thread
    <2>2. watched = {} /\ timers = {} /\ ~StartWaits /\ ~Calling
      BY <2>1 DEF Orderly, OneInv, None
    <2>3. ~ResetWaits
      BY <2>1 DEF Orderly, ChannelInv
    <2>4. /\ FunctorsInv' /\ StartWaits' = StartWaits /\ ResetWaits' = ResetWaits
          /\ Calling' = Calling
      BY <2>1, Kept DEF Orderly, Calling
    <2>5. OneInv' /\ ChannelInv'
      BY <2>1, <2>2, <2>3, <2>4 DEF Orderly, OneInv, ChannelInv
    <2>6. StateInv' /\ ReadyInv'
      BY <2>1, <2>2, <2>3, <2>4 DEF Orderly, StateInv, ReadyInv, None
    <2>7. QED
      BY <2>1, <2>4, <2>5, <2>6 DEF Orderly
  <1>3. QED
    BY <1>1, <1>2

\* ::poll reports what is under way, a socket's events or a timer or a close.
LEMMA PollOrderly ==
  ASSUME TypeOK, Orderly, NEW events \in SUBSET Events, Poll(events)
  PROVE  Orderly' /\ aborted' = aborted
  <1>1. /\ functors = <<>> /\ batch = <<>> /\ ready' = events
        /\ events \cap {"error", "write"} # {} => watched # {}
        /\ "timer" \in events => timers # {}
        /\ "close" \in events => connection_ # None
        /\ UNCHANGED <<channel_, state_, connection_, watched, timers, functors, batch, next>>
        /\ UNCHANGED <<threadPc, aborted>>
    BY DEF Poll, client, connector, registry, queues, thread
  <1>2. ~ResetWaits
    BY <1>1 DEF ResetWaits, Queued, Batched
  <1>3. /\ FunctorsInv' /\ StartWaits' = StartWaits /\ ResetWaits' = ResetWaits
        /\ Calling' = Calling
    BY <1>1, Kept DEF Orderly, Calling
  <1>4. OneInv' /\ ChannelInv' /\ StateInv'
    BY <1>1, <1>2, <1>3 DEF Orderly, OneInv, ChannelInv, StateInv
  <1>5. events \cap {"error", "write"} # {} => events \subseteq {"error", "write"}
    <2>1. events \cap {"error", "write"} # {} => "timer" \notin events /\ "close" \notin events
      BY <1>1 DEF Orderly, OneInv
    <2>2. QED
      BY <2>1 DEF Events
  <1>6. ReadyInv'
    BY <1>1, <1>5 DEF ReadyInv
  <1>7. QED
    BY <1>1, <1>3, <1>4, <1>6 DEF Orderly

\* The functors: startInLoop() finds kDisconnected, resetChannel() the Channel of its
\* attempt, no longer watched.
LEMMA FunctorOrderly ==
  ASSUME TypeOK, Orderly, SwapPending \/ StartInLoop \/ ResetChannel \/ CancelInLoop
  PROVE  Orderly' /\ aborted' = aborted
  <1>1. CASE SwapPending
    <2>1. /\ batch = <<>> /\ batch' = functors /\ functors' = <<>>
          /\ UNCHANGED <<channel_, state_, connection_, watched, timers, next, ready, threadPc, aborted>>
      BY <1>1 DEF SwapPending, client, connector, registry, thread
    <2>2. FunctorsInv' /\ StartWaits' = StartWaits /\ ResetWaits' = ResetWaits
      BY <2>1, Swapped DEF Orderly
    <2>3. QED
      BY <2>1, <2>2, Undisturbed DEF Calling
  <1>2. CASE StartInLoop
    <2>1. /\ batch # <<>> /\ Head(batch).call = "startInLoop"
          /\ ready = {} /\ next = None
      BY <1>2 DEF StartInLoop, NextFunctor, AtRest
    <2>2. StartWaits
      <3>1. batch \in Seq(Functor)
        BY DEF TypeOK
      <3>2. Calls(batch, "startInLoop") # {}
        BY <2>1, <3>1, CallPopped
      <3>3. QED
        BY <3>2, AsCalls DEF StartWaits
    <2>3. state_ = "kDisconnected"
      BY <2>2 DEF Orderly, StateInv
    <2>4. /\ next' \in {None, "connect"} /\ batch' = Tail(batch)
          /\ UNCHANGED <<channel_, state_, connection_, watched, timers, functors, ready, threadPc, aborted>>
      BY <1>2, <2>3 DEF StartInLoop, startInLoop, client, connector, registry, thread
    <2>5. FunctorsInv' /\ ~StartWaits' /\ ResetWaits' = ResetWaits
      BY <2>1, <2>4, Popped DEF Orderly
    <2>6. /\ watched = {} /\ timers = {} /\ ~Calling /\ connection_ = None
          /\ ~ResetWaits /\ Calling' = Calling
      BY <2>2, <2>4 DEF Orderly, OneInv, ChannelInv, Calling
    <2>7. OneInv' /\ ChannelInv'
      BY <2>4, <2>5, <2>6 DEF Orderly, OneInv, ChannelInv
    <2>8. StateInv' /\ ReadyInv'
      BY <2>1, <2>3, <2>4, <2>5, <2>6 DEF Orderly, StateInv, ReadyInv
    <2>9. QED
      BY <2>4, <2>5, <2>7, <2>8 DEF Orderly
  <1>3. CASE ResetChannel
    <2>1. /\ batch # <<>> /\ Head(batch).call = "resetChannel"
          /\ ready = {} /\ channel_' = None /\ batch' = Tail(batch)
          /\ UNCHANGED <<state_, connection_, watched, timers, functors, ready, next, threadPc, aborted>>
      BY <1>3 DEF ResetChannel, NextFunctor, client, registry, thread
    <2>2. FunctorsInv' /\ StartWaits' = StartWaits /\ ResetWaits /\ ~ResetWaits'
      BY <2>1, Popped DEF Orderly
    <2>3. watched = {} /\ Calling' = Calling
      BY <2>1, <2>2 DEF Orderly, ChannelInv, Calling
    <2>4. OneInv' /\ ChannelInv'
      BY <2>1, <2>2, <2>3 DEF Orderly, OneInv, ChannelInv
    <2>5. StateInv' /\ ReadyInv'
      BY <2>1, <2>2, <2>3 DEF Orderly, StateInv, ReadyInv
    <2>6. QED
      BY <2>1, <2>2, <2>4, <2>5 DEF Orderly
  <1>4. CASE CancelInLoop
    <2>1. /\ batch # <<>> /\ Head(batch).call = "cancel" /\ batch' = Tail(batch)
          /\ timers' \subseteq timers
          /\ UNCHANGED <<channel_, state_, connection_, watched, functors, next, ready, threadPc, aborted>>
      BY <1>4 DEF CancelInLoop, NextFunctor, client, connector, thread
    <2>2. FunctorsInv' /\ StartWaits' = StartWaits /\ ResetWaits' = ResetWaits
      BY <2>1, Popped DEF Orderly
    <2>3. QED
      BY <2>1, <2>2, Undisturbed DEF Calling
  <1>5. QED
    BY <1>1, <1>2, <1>3, <1>4

\* A connect() that is not hasty.
LEMMA ConnectOrderly ==
  ASSUME TypeOK, Orderly, ConnectOnLoop \/ Connect, ~hasty'
  PROVE  Orderly' /\ aborted' = aborted
  <1>1. Quiet
    BY DEF ConnectOnLoop, Connect, TypeOK
  <1>2. /\ watched = {} /\ timers = {} /\ ~StartWaits /\ ~Calling /\ next = None
        /\ connection_ = None /\ ~ResetWaits /\ channel_ = None /\ state_ = "kDisconnected"
        /\ ready \cap {"error", "write"} = {}
    BY <1>1, QuietStart
  <1>3. CASE ConnectOnLoop
    <2>1. /\ next' = "connect"
          /\ UNCHANGED <<channel_, state_, connection_, watched, timers, functors, batch, ready>>
          /\ UNCHANGED <<threadPc, aborted>>
      BY <1>2, <1>3 DEF ConnectOnLoop, registry, queues, thread
    <2>2. /\ FunctorsInv' /\ StartWaits' = StartWaits /\ ResetWaits' = ResetWaits
          /\ Calling' = Calling
      BY <2>1, Kept DEF Orderly, Calling
    <2>3. OneInv' /\ ChannelInv'
      BY <1>2, <2>1, <2>2 DEF OneInv, ChannelInv
    <2>4. StateInv' /\ ReadyInv'
      BY <1>2, <2>1, <2>2 DEF StateInv, ReadyInv
    <2>5. QED
      BY <2>1, <2>2, <2>3, <2>4 DEF Orderly
  <1>4. CASE Connect
    <2>1. UNCHANGED <<channel_, state_, connection_, watched, timers, functors, batch, ready, next, aborted>>
      BY <1>4 DEF Connect, connector, registry, queues
    <2>2. FunctorsInv' /\ StartWaits' = StartWaits /\ ResetWaits' = ResetWaits
      BY <2>1, Kept DEF Orderly
    <2>3. OneInv' /\ ChannelInv'
      BY <1>2, <2>1, <2>2 DEF OneInv, ChannelInv
    <2>4. StateInv' /\ ReadyInv'
      BY <1>2, <2>1, <2>2 DEF StateInv, ReadyInv
    <2>5. QED
      BY <2>1, <2>2, <2>3, <2>4 DEF Orderly
  <1>5. QED
    BY <1>3, <1>4

\* The other calls, statement by statement.
LEMMA CallOrderly ==
  ASSUME TypeOK, Orderly, StopOnLoop \/ ThreadStep \/ Stop \/ Disconnect
  PROVE  Orderly' /\ aborted' = aborted
  <1>1. CASE QueueStart
    <2>1. /\ threadPc = "queueStart" /\ threadPc' = "idle"
          /\ functors' = Append(functors, Bind("startInLoop"))
          /\ UNCHANGED <<channel_, state_, connection_, watched, timers, batch, ready, next, aborted>>
      BY <1>1 DEF QueueStart, Goto, queueInLoop, client, connector, registry
    <2>2. Calling /\ ~Calling'
      BY <2>1 DEF Calling
    <2>3. watched = {} /\ timers = {} /\ ~StartWaits /\ next = None /\ connection_ = None /\ ~ResetWaits
      BY <2>2 DEF Orderly, OneInv, ChannelInv
    <2>4. FunctorsInv' /\ StartWaits' /\ ~ResetWaits'
      BY <2>1, <2>3, Functors, Pushed DEF Orderly
    <2>5. OneInv' /\ ChannelInv'
      BY <2>1, <2>2, <2>3, <2>4 DEF Orderly, OneInv, ChannelInv
    <2>6. StateInv' /\ ReadyInv'
      BY <2>1, <2>2, <2>3, <2>4 DEF Orderly, StateInv, ReadyInv
    <2>7. QED
      BY <2>1, <2>4, <2>5, <2>6 DEF Orderly
  <1>2. CASE QueueCancel
    <2>1. /\ threadPc = "cancel" /\ threadPc' = "idle"
          /\ functors' = Append(functors, [call |-> "cancel", id |-> cancelId])
          /\ UNCHANGED <<channel_, state_, connection_, watched, timers, batch, ready, next, aborted>>
      BY <1>2 DEF QueueCancel, Goto, queueInLoop, client, connector, registry
    <2>2. PICK f \in Functor : f = [call |-> "cancel", id |-> cancelId] /\ f.call = "cancel"
      BY Functors DEF TypeOK
    <2>3. FunctorsInv' /\ StartWaits' = StartWaits /\ ResetWaits' = ResetWaits
      BY <2>1, <2>2, Pushed DEF Orderly, StartWaits, ResetWaits
    <2>4. QED
      BY <2>1, <2>3, Undisturbed DEF Calling
  <1>3. CASE StopOnLoop \/ Start \/ StopConnector \/ ReadTimer \/ ShutdownConnection \/ Stop \/ Disconnect
    <2>1. /\ UNCHANGED <<channel_, state_, watched, functors, batch, next, ready, aborted>>
          /\ connection_' = None <=> connection_ = None
          /\ timers' \subseteq timers
          /\ Calling' = Calling
      BY <1>3 DEF StopOnLoop, Start, StopConnector, ReadTimer, ShutdownConnection, Stop, Disconnect,
         Goto, Calling, client, connector, registry, queues, thread, None
    <2>2. FunctorsInv' /\ StartWaits' = StartWaits /\ ResetWaits' = ResetWaits
      BY <2>1, Kept DEF Orderly
    <2>3. QED
      BY <2>1, <2>2, Undisturbed
  <1>4. QED
    BY <1>1, <1>2, <1>3 DEF ThreadStep

\* hasty stays once it is set.
LEMMA HastyStays == TypeOK /\ [Next]_vars => (hasty => hasty')
  BY DEF Next, LoopStep, Attempt, Connecting, ConnectRetries, ConnectGivesUp, RunAfter,
     NewConnection, Restart, HandleEvent, HandleTimer, HandleNoTimer, HandleError,
     HandleWriteFails, HandleWriteConnects, HandleWriteIdle, RemoveConnection, Fail,
     SwapPending, StartInLoop, ResetChannel, CancelInLoop, Poll, ConnectOnLoop, StopOnLoop, ThreadStep,
     Start, QueueStart, StopConnector, ReadTimer, QueueCancel, ShutdownConnection, Connect, Stop,
     Disconnect, vars, history

LEMMA OrderlyStep ==
  ASSUME TypeOK, Orderly, [Next]_vars, ~hasty'
  PROVE  Orderly' /\ aborted' \in {aborted, "TcpConnection.cc:148"}
  <1>1. CASE Attempt \/ RunAfter \/ NewConnection \/ Restart
    <2>1. aborted' = aborted
      BY <1>1 DEF Attempt, Connecting, ConnectRetries, ConnectGivesUp, RunAfter, NewConnection, Restart
    <2>2. QED
      BY <1>1, <2>1, AttemptOrderly
  <1>2. CASE HandleNoTimer \/ UNCHANGED vars
    <2>1. /\ ready' \subseteq ready
          /\ UNCHANGED <<channel_, state_, connection_, watched, timers, functors, batch, next>>
          /\ UNCHANGED <<threadPc, aborted>>
      BY <1>2 DEF HandleNoTimer, vars, client, connector, registry, queues, thread
    <2>2. FunctorsInv' /\ StartWaits' = StartWaits /\ ResetWaits' = ResetWaits
      BY <2>1, Kept DEF Orderly
    <2>3. QED
      BY <2>1, <2>2, Undisturbed DEF Calling
  <1>3. CASE HandleEvent /\ ~HandleNoTimer
    BY <1>3, TimerOrderly, SocketOrderly, CloseOrderly DEF HandleEvent
  <1>4. CASE SwapPending \/ StartInLoop \/ ResetChannel \/ CancelInLoop
    BY <1>4, FunctorOrderly
  <1>5. CASE \E events \in SUBSET Events : Poll(events)
    BY <1>5, PollOrderly
  <1>6. CASE ConnectOnLoop \/ Connect
    BY <1>6, ConnectOrderly
  <1>7. CASE StopOnLoop \/ ThreadStep \/ Stop \/ Disconnect
    BY <1>7, CallOrderly
  <1>8. QED
    BY <1>1, <1>2, <1>3, <1>4, <1>5, <1>6, <1>7 DEF Next, LoopStep

LEMMA InitInv == Init => ClientInv
  <1> SUFFICES ASSUME Init PROVE ClientInv
    OBVIOUS
  <1>1. TypeOK
    BY InitType
  <1>2. ~StartWaits /\ ~ResetWaits /\ FunctorsInv
    BY DEF Init, StartWaits, ResetWaits, FunctorsInv, Queued, Batched
  <1>3. OneInv /\ ChannelInv /\ StateInv /\ ReadyInv
    BY <1>2 DEF Init, OneInv, ChannelInv, StateInv, ReadyInv, Calling, None
  <1>4. StopInv /\ AssertionsHold
    BY DEF Init, StopInv, AssertionsHold, None
  <1>5. QED
    BY <1>1, <1>2, <1>3, <1>4 DEF ClientInv, AttemptInv

LEMMA StepInv == ClientInv /\ [Next]_vars => ClientInv'
  <1> SUFFICES ASSUME ClientInv, [Next]_vars PROVE ClientInv'
    OBVIOUS
  <1>1. TypeOK' /\ StopInv'
    BY TypeStep, StopStep DEF ClientInv
  <1>2. ASSUME ~hasty'
        PROVE  (FunctorsInv /\ OneInv /\ ChannelInv /\ StateInv /\ ReadyInv /\ AssertionsHold)'
    <2>1. TypeOK /\ ~hasty
      BY <1>2, HastyStays DEF ClientInv
    <2>2. Orderly /\ AssertionsHold
      BY <2>1 DEF ClientInv, AttemptInv, Orderly
    <2>3. Orderly' /\ aborted' \in {aborted, "TcpConnection.cc:148"}
      BY <1>2, <2>1, <2>2, OrderlyStep
    <2>4. AssertionsHold'
      BY <2>1, <2>2, <2>3 DEF AssertionsHold
    <2>5. QED
      BY <2>3, <2>4 DEF Orderly
  <1>3. QED
    BY <1>1, <1>2 DEF ClientInv, AttemptInv

LEMMA Invariance == Spec => []ClientInv
  BY InitInv, StepInv, PTL DEF Spec

-----------------------------------------------------------------------------
(* The theorems.                                                            *)

\* Every variable keeps its type; above all the retry delay stays between the first delay
\* and the longest, and a functor or a timer is one of those the code knows.
THEOREM TypeCorrect == Spec => []TypeOK
  BY Invariance, PTL DEF ClientInv

\* Unless connect() was hasty there is one attempt, one timer or one connection at a time,
\* whatever stop(), disconnect(), failures, retries and closes come in between.
THEOREM OneAtATime == Spec => []OneAttempt
  <1>1. ClientInv => OneAttempt
    BY Counted DEF ClientInv, AttemptInv, Orderly, OneAttempt
  <1>2. QED
    BY <1>1, Invariance, PTL

\* Unless connect() was hasty startInLoop(), handleWrite() and handleError() find the state
\* they assert.
THEOREM ConnectorAssertionsHold == Spec => []AssertionsHold
  <1>1. ClientInv => AssertionsHold
    BY DEF ClientInv, AttemptInv, AssertionsHold
  <1>2. QED
    BY <1>1, Invariance, PTL

\* Unless connect() was hasty the Poller never points to a Channel that resetChannel() has
\* destroyed: the functor of one attempt never destroys the Channel of the next.
THEOREM WatchedChannelLives == Spec => []ChannelOutlivesWatch
  <1>1. ClientInv => ChannelOutlivesWatch
    BY DEF ClientInv, AttemptInv, ChannelInv, ChannelOutlivesWatch
  <1>2. QED
    BY <1>1, Invariance, PTL

\* After a stop() that took effect no socket is opened and no connection made until the
\* next connect(), hasty or not.
THEOREM StopIsFinal == Spec => StopHolds
  <1>1. ClientInv => (stopped => ~Connecting /\ ~NewConnection)
    BY DEF ClientInv, StopInv, Connecting, NewConnection
  <1>2. QED
    BY <1>1, Invariance, PTL DEF StopHolds

=============================================================================
