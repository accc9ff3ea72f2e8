------------------------------ MODULE TcpClient ------------------------------
(****************************************************************************)
(* reactor/s13/TcpClient and its Connector: attempts to connect, retries    *)
(* with a growing delay, the connection that comes of it, and the           *)
(* reconnection after it was closed.  One loop does the work; connect(),    *)
(* stop() and disconnect() are called on its thread or on another one.      *)
(*                                                                          *)
(* The loop is a round of ::poll: the events that were ready are handled,   *)
(* then the functors that were pending are called.  Where the code tests an *)
(* atomic flag and acts on it, the other thread may come between, and the   *)
(* two are separate steps (next).  A failing assertion ends a behaviour, as *)
(* does a Channel that is destroyed while the Poller points to it.          *)
(****************************************************************************)
EXTENDS Naturals, Sequences, FiniteSets, Functions

CONSTANTS
  InitRetryDelayMs, MaxRetryDelayMs,
  Channels,      \* names for the Connector's Channel objects
  TimerIds,      \* names for its timers, used again when nobody knows them
  MaxFunctors    \* bound on the functors an application's calls queue

ASSUME TcpClientAssumption ==
  /\ InitRetryDelayMs \in Nat \ {0}
  /\ MaxRetryDelayMs \in Nat
  /\ InitRetryDelayMs <= MaxRetryDelayMs
  /\ MaxFunctors \in Nat
  /\ Channels # {} /\ \A ch \in Channels : Channels \ {ch} # {}   \* a new one is not the last one
  /\ "none" \notin Channels \cup TimerIds

None == "none"

VARIABLES
  retry_, connect_,                       \* TcpClient
  connection_,                            \* None, "up", or "shut" by our shutdown()
  wanted, state_, retryDelayMs_, channel_, timerId_,  \* Connector; wanted is its connect_
  watched, timers,                        \* Channels in the Poller, timers in the TimerQueue
  ready, functors, batch, next,           \* the loop
  threadPc, cancelId,                     \* the other thread, and the timer stop() cancels
  hasty, stopped, gaveUp,                 \* history, see below
  aborted                                 \* the assertion that failed

client == <<retry_, connect_, connection_>>
connector == <<wanted, state_, retryDelayMs_, channel_, timerId_>>
registry == <<watched, timers>>
queues == <<functors, batch>>
thread == <<threadPc, cancelId>>
history == <<hasty, stopped, gaveUp>>
vars == <<client, connector, registry, ready, queues, next, thread, history, aborted>>

States == {"kDisconnected", "kConnecting", "kConnected"}
Events == {"error", "write", "timer", "close"}
Functor == [call : {"startInLoop", "resetChannel"}, id : {None}]
           \cup [call : {"cancel"}, id : TimerIds \cup {None}]
Bind(call) == [call |-> call, id |-> None]

\* What the loop's thread does next, the flag before it being tested: nothing of
\* the kind, connect(), runAfter(), newConnectionCallback_, restart().
Continuations == {None, "connect", "runAfter", "newConnection", "restart"}

\* Between the statements of connect(), of stop() and of disconnect().
ThreadPcs == {"idle", "start", "queueStart", "stop", "readTimer", "cancel", "shutdown"}

Assertions == {"Connector.cc:14", "Connector.cc:137", "Connector.cc:144",
               "TcpConnection.cc:148"}

TypeOK ==
  /\ retry_ \in BOOLEAN /\ connect_ \in BOOLEAN
  /\ connection_ \in {None, "up", "shut"}
  /\ wanted \in BOOLEAN
  /\ state_ \in States
  /\ retryDelayMs_ \in InitRetryDelayMs..MaxRetryDelayMs
  /\ channel_ \in Channels \cup {None}
  /\ timerId_ \in TimerIds \cup {None}
  /\ watched \subseteq Channels
  /\ timers \subseteq TimerIds
  /\ ready \subseteq Events
  /\ functors \in Seq(Functor) /\ batch \in Seq(Functor)
  /\ next \in Continuations
  /\ threadPc \in ThreadPcs
  /\ cancelId \in TimerIds \cup {None}
  /\ hasty \in BOOLEAN /\ stopped \in BOOLEAN /\ gaveUp \in BOOLEAN
  /\ aborted \in Assertions \cup {None}

\* enableRetry() is called before connect() or not at all.
Init ==
  /\ retry_ \in BOOLEAN /\ connect_ = FALSE /\ connection_ = None
  /\ wanted = FALSE /\ state_ = "kDisconnected" /\ retryDelayMs_ = InitRetryDelayMs
  /\ channel_ = None /\ timerId_ = None
  /\ watched = {} /\ timers = {}
  /\ ready = {} /\ functors = <<>> /\ batch = <<>> /\ next = None
  /\ threadPc = "idle" /\ cancelId = None
  /\ hasty = FALSE /\ stopped = FALSE /\ gaveUp = FALSE
  /\ aborted = None

-----------------------------------------------------------------------------
(* Helpers.                                                                 *)

\* The Poller has no pointer to a destroyed Channel, and no assertion failed.
Sane == aborted = None /\ watched \subseteq {channel_}

\* The loop's thread begins something new.
AtRest == Sane /\ next = None

queueInLoop(functor) == functors' = Append(functors, functor)

Fail(assertion) ==
  /\ aborted' = assertion
  /\ UNCHANGED <<client, connector, registry, ready, queues, next, thread, history>>

Queued(call) == {i \in DOMAIN functors : functors[i].call = call}
Batched(call) == {i \in DOMAIN batch : batch[i].call = call}

\* What is under way to a connection: a watched socket, a timer, a functor queued or
\* about to be, a step of the loop's thread, or the connection itself.
UnderWay ==
  Cardinality(watched) + Cardinality(timers)
    + Cardinality(Queued("startInLoop")) + Cardinality(Batched("startInLoop"))
    + (IF threadPc \in {"start", "queueStart"} THEN 1 ELSE 0)
    + (IF next # None THEN 1 ELSE 0)
    + (IF connection_ # None THEN 1 ELSE 0)

\* connect() finds nothing of an earlier connect() still under way, no stop() in the
\* middle, and a Connector that is back in its initial state, its last Channel
\* destroyed.
Quiet ==
  /\ UnderWay = 0
  /\ threadPc \notin {"stop", "readTimer"}
  /\ state_ = "kDisconnected"
  /\ channel_ = None

\* The timer ids that are neither pending nor known to anybody.
FreshTimers ==
  TimerIds \ (timers \cup {timerId_, cancelId} \cup {f.id : f \in Range(functors \o batch)})

\* Any name that is free will do.
OneOf(names) == CHOOSE name \in names : TRUE

\* std::min(retryDelayMs_ * 2, kMaxRetryDelayMs)
NextDelay == IF 2 * retryDelayMs_ < MaxRetryDelayMs THEN 2 * retryDelayMs_ ELSE MaxRetryDelayMs

-----------------------------------------------------------------------------
(* Connector, on the loop's thread.                                         *)

\* startInLoop() up to the test of connect_, in a state it does not assert.
startInLoop == next' = IF wanted THEN "connect" ELSE None

\* Mutant: a failed attempt leaves state_ alone.
RetryKeepsState ==
  /\ next' = IF wanted THEN "runAfter" ELSE None
  /\ UNCHANGED state_

\* retry() up to the test of connect_; the socket is closed.
retry ==
  /\ state_' = "kDisconnected"
  /\ next' = IF wanted THEN "runAfter" ELSE None

\* Mutant: the Channel stays in the Poller.
ResetChannelOnly ==
  /\ queueInLoop(Bind("resetChannel"))
  /\ UNCHANGED watched

removeAndResetChannel ==
  /\ watched' = watched \ {channel_}
  /\ queueInLoop(Bind("resetChannel"))

\* connect() when ::connect has begun or done it (0, EINPROGRESS, ...): connecting().
Connecting ==
  /\ Sane /\ next = "connect"
  /\ channel_' = OneOf(Channels \ (watched \cup {channel_}))
  /\ watched' = watched \cup {channel_'}
  /\ state_' = "kConnecting"
  /\ next' = None
  /\ UNCHANGED <<client, wanted, retryDelayMs_, timerId_, timers, ready, queues, thread,
                 history, aborted>>

\* ... when it failed in a way that may pass (ECONNREFUSED, ...): retry().
ConnectRetries ==
  /\ Sane /\ next = "connect"
  /\ retry
  /\ UNCHANGED <<client, wanted, retryDelayMs_, channel_, timerId_, registry, ready,
                 queues, thread, history, aborted>>

\* ... and when it failed otherwise: the socket is closed, and that is all.
ConnectGivesUp ==
  /\ Sane /\ next = "connect"
  /\ next' = None
  /\ gaveUp' = TRUE
  /\ UNCHANGED <<client, connector, registry, ready, queues, thread, hasty, stopped, aborted>>

\* The rest of retry().
RunAfter ==
  /\ Sane /\ next = "runAfter"
  /\ FreshTimers # {}
  /\ timerId_' = OneOf(FreshTimers)
  /\ timers' = timers \cup {timerId_'}
  /\ retryDelayMs_' = NextDelay
  /\ next' = None
  /\ UNCHANGED <<client, wanted, state_, channel_, watched, ready, queues, thread, history,
                 aborted>>

\* A retry timer runs startInLoop().
HandleTimer ==
  /\ AtRest /\ "timer" \in ready
  /\ \E id \in timers :
       \/ /\ state_ # "kDisconnected"
          /\ Fail("Connector.cc:14")
       \/ /\ state_ = "kDisconnected"
          /\ timers' = timers \ {id}
          /\ ready' = ready \ {"timer"}
          /\ startInLoop
          /\ UNCHANGED <<client, connector, watched, queues, thread, history, aborted>>

\* The timer was cancelled after ::poll.
HandleNoTimer ==
  /\ AtRest /\ "timer" \in ready /\ timers = {}
  /\ ready' = ready \ {"timer"}
  /\ UNCHANGED <<client, connector, registry, queues, next, thread, history, aborted>>

\* Channel::handleEvent() calls handleError() first, and handleWrite() after it.
HandleError ==
  /\ AtRest /\ "error" \in ready
  /\ \/ /\ state_ # "kConnecting"
        /\ Fail("Connector.cc:144")
     \/ /\ state_ = "kConnecting"
        /\ removeAndResetChannel
        /\ retry
        /\ ready' = ready \ {"error"}
        /\ UNCHANGED <<client, wanted, retryDelayMs_, channel_, timerId_, timers, batch,
                       thread, history, aborted>>

WriteReady == AtRest /\ "write" \in ready /\ "error" \notin ready

\* handleWrite(): SO_ERROR is set, or the socket is connected to itself.
HandleWriteFails ==
  /\ WriteReady /\ state_ = "kConnecting"
  /\ removeAndResetChannel
  /\ retry
  /\ ready' = ready \ {"write"}
  /\ UNCHANGED <<client, wanted, retryDelayMs_, channel_, timerId_, timers, batch, thread,
                 history, aborted>>

\* handleWrite(): connected, up to the test of connect_.  Not wanted any more the
\* socket is closed.
HandleWriteConnects ==
  /\ WriteReady /\ state_ = "kConnecting"
  /\ removeAndResetChannel
  /\ state_' = "kConnected"
  /\ next' = IF wanted THEN "newConnection" ELSE None
  /\ ready' = ready \ {"write"}
  /\ UNCHANGED <<client, wanted, retryDelayMs_, channel_, timerId_, timers, batch, thread,
                 history, aborted>>

\* handleWrite() after a handleError() for the same event, or not expected.
HandleWriteIdle ==
  /\ WriteReady
  /\ \/ /\ state_ = "kConnected"
        /\ Fail("Connector.cc:137")
     \/ /\ state_ = "kDisconnected"
        /\ ready' = ready \ {"write"}
        /\ UNCHANGED <<client, connector, registry, queues, next, thread, history, aborted>>

-----------------------------------------------------------------------------
(* TcpClient, on the loop's thread.                                         *)

\* newConnection().
NewConnection ==
  /\ Sane /\ next = "newConnection"
  /\ connection_' = "up"
  /\ next' = None
  /\ UNCHANGED <<retry_, connect_, connector, registry, ready, queues, thread, history,
                 aborted>>

\* Mutant: reconnect whenever retry_ is set.
RemoveConnectionRetries == next' = IF retry_ THEN "restart" ELSE None

\* Mutant: a closed connection is not made again.
NeverReconnect == next' = None

\* The end of removeConnection(): retry_ && connect_.
retryAndConnect == next' = IF retry_ /\ connect_ THEN "restart" ELSE None

\* handleClose() of the connection and removeConnection(), up to the test; the
\* functor connectDistroyed() touches nothing here.
RemoveConnection ==
  /\ AtRest /\ "close" \in ready
  /\ \/ /\ connection_ = "shut"
        /\ Fail("TcpConnection.cc:148")
     \/ /\ connection_ = "up"
        /\ connection_' = None
        /\ retryAndConnect
        /\ ready' = ready \ {"close"}
        /\ UNCHANGED <<retry_, connect_, connector, registry, queues, thread, history, aborted>>

\* restart(), up to the test in startInLoop().
Restart ==
  /\ Sane /\ next = "restart"
  /\ retryDelayMs_' = InitRetryDelayMs
  /\ wanted' = TRUE
  /\ state_' = "kDisconnected"
  /\ next' = "connect"
  /\ UNCHANGED <<client, channel_, timerId_, registry, ready, queues, thread, history, aborted>>

-----------------------------------------------------------------------------
(* The loop.                                                                *)

\* ::poll reports what can be ready: the watched socket, a timer, the connection.
Poll(events) ==
  /\ AtRest /\ ready = {} /\ batch = <<>> /\ functors = <<>>
  /\ events # {} /\ events \subseteq Events
  /\ events \cap {"error", "write"} # {} => watched # {}
  /\ "timer" \in events => timers # {}
  /\ "close" \in events => connection_ # None
  /\ ready' = events
  /\ UNCHANGED <<client, connector, registry, queues, next, thread, history, aborted>>

\* The end of a round; a pending functor ends ::poll, so it comes before a new one.
SwapPending ==
  /\ AtRest /\ ready = {} /\ batch = <<>> /\ functors # <<>>
  /\ batch' = functors
  /\ functors' = <<>>
  /\ UNCHANGED <<client, connector, registry, ready, next, thread, history, aborted>>

NextFunctor(call) ==
  /\ AtRest /\ ready = {} /\ batch # <<>>
  /\ Head(batch).call = call

StartInLoop ==
  /\ NextFunctor("startInLoop")
  /\ \/ /\ state_ # "kDisconnected"
        /\ Fail("Connector.cc:14")
     \/ /\ state_ = "kDisconnected"
        /\ startInLoop
        /\ batch' = Tail(batch)
        /\ UNCHANGED <<client, connector, registry, ready, functors, thread, history, aborted>>

\* resetChannel() destroys the Channel that is there now.
ResetChannel ==
  /\ NextFunctor("resetChannel")
  /\ channel_' = None
  /\ batch' = Tail(batch)
  /\ UNCHANGED <<client, wanted, state_, retryDelayMs_, timerId_, registry, ready, functors,
                 next, thread, history, aborted>>

CancelInLoop ==
  /\ NextFunctor("cancel")
  /\ timers' = timers \ {Head(batch).id}
  /\ batch' = Tail(batch)
  /\ UNCHANGED <<client, connector, watched, ready, functors, next, thread, history, aborted>>

-----------------------------------------------------------------------------
\* The bound on the application's calls: few functors wait, and none is made after a
\* hasty connect(), see below.
MayCall == Len(functors \o batch) < MaxFunctors /\ ~hasty

(* The application: on the loop's thread, in a callback or before loop(),   *)
(* where every call is carried out at once ...                              *)

ConnectOnLoop ==
  /\ AtRest
  /\ MayCall
  /\ connect_' = TRUE /\ wanted' = TRUE
  /\ hasty' = (hasty \/ ~Quiet) /\ stopped' = FALSE /\ gaveUp' = FALSE
  /\ \/ /\ state_ # "kDisconnected"
        /\ aborted' = "Connector.cc:14"
        /\ UNCHANGED next
     \/ /\ state_ = "kDisconnected"
        /\ next' = "connect"
        /\ UNCHANGED aborted
  /\ UNCHANGED <<retry_, connection_, state_, retryDelayMs_, channel_, timerId_, registry,
                 ready, queues, thread>>

StopOnLoop ==
  /\ AtRest
  /\ MayCall
  /\ connect_' = FALSE /\ wanted' = FALSE
  /\ timers' = timers \ {timerId_}
  /\ stopped' = (threadPc # "start")
  /\ UNCHANGED <<retry_, connection_, state_, retryDelayMs_, channel_, timerId_, watched,
                 ready, queues, next, thread, hasty, gaveUp, aborted>>

(* ... and on another thread, statement by statement.                       *)

Goto(from, to) == Sane /\ threadPc = from /\ threadPc' = to

\* connect(): the flag of TcpClient ...
Connect ==
  /\ Goto("idle", "start")
  /\ MayCall
  /\ connect_' = TRUE
  /\ hasty' = (hasty \/ ~Quiet) /\ stopped' = FALSE /\ gaveUp' = FALSE
  /\ UNCHANGED <<retry_, connection_, connector, registry, ready, queues, next, cancelId,
                 aborted>>

\* ... the flag of Connector::start() ...
Start ==
  /\ Goto("start", "queueStart")
  /\ wanted' = TRUE
  /\ UNCHANGED <<client, state_, retryDelayMs_, channel_, timerId_, registry, ready, queues,
                 next, cancelId, history, aborted>>

\* ... and the functor.
QueueStart ==
  /\ Goto("queueStart", "idle")
  /\ queueInLoop(Bind("startInLoop"))
  /\ UNCHANGED <<client, connector, registry, ready, batch, next, cancelId, history, aborted>>

\* stop(): the flag of TcpClient ...
Stop ==
  /\ Goto("idle", "stop")
  /\ MayCall
  /\ connect_' = FALSE
  /\ UNCHANGED <<retry_, connection_, connector, registry, ready, queues, next, cancelId,
                 history, aborted>>

\* ... the flag of Connector::stop(), too late for what the loop's thread has
\* tested already ...
StopConnector ==
  /\ Goto("stop", "readTimer")
  /\ wanted' = FALSE
  /\ stopped' = (~connect_ /\ next \notin {"connect", "newConnection", "restart"})
  /\ UNCHANGED <<client, state_, retryDelayMs_, channel_, timerId_, registry, ready, queues,
                 next, cancelId, hasty, gaveUp, aborted>>

\* ... the timer it knows of ...
ReadTimer ==
  /\ Goto("readTimer", "cancel")
  /\ cancelId' = timerId_
  /\ UNCHANGED <<client, connector, registry, ready, queues, next, history, aborted>>

\* ... and the functor that cancels it.
QueueCancel ==
  /\ Goto("cancel", "idle")
  /\ queueInLoop([call |-> "cancel", id |-> cancelId])
  /\ cancelId' = None
  /\ UNCHANGED <<client, connector, registry, ready, batch, next, history, aborted>>

\* disconnect(): the flag ...
Disconnect ==
  /\ Goto("idle", "shutdown")
  /\ MayCall
  /\ connect_' = FALSE
  /\ UNCHANGED <<retry_, connection_, connector, registry, ready, queues, next, cancelId,
                 history, aborted>>

\* ... and, under the mutex, shutdown() of the connection there is.
ShutdownConnection ==
  /\ Goto("shutdown", "idle")
  /\ connection_' = IF connection_ = "up" THEN "shut" ELSE connection_
  /\ UNCHANGED <<retry_, connect_, connector, registry, ready, queues, next, cancelId,
                 history, aborted>>

-----------------------------------------------------------------------------

Attempt == Connecting \/ ConnectRetries \/ ConnectGivesUp

HandleEvent ==
  \/ HandleTimer
  \/ HandleNoTimer
  \/ HandleError
  \/ HandleWriteFails
  \/ HandleWriteConnects
  \/ HandleWriteIdle
  \/ RemoveConnection

LoopStep ==
  \/ Attempt
  \/ RunAfter
  \/ NewConnection
  \/ Restart
  \/ HandleEvent
  \/ SwapPending
  \/ StartInLoop
  \/ ResetChannel
  \/ CancelInLoop

ThreadStep ==
  \/ Start
  \/ QueueStart
  \/ StopConnector
  \/ ReadTimer
  \/ QueueCancel
  \/ ShutdownConnection

Next ==
  \/ LoopStep
  \/ \E events \in SUBSET Events : Poll(events)
  \/ ConnectOnLoop
  \/ StopOnLoop
  \/ ThreadStep
  \/ Connect
  \/ Stop
  \/ Disconnect

Spec == Init /\ [][Next]_vars

(* Both threads keep running, a timer goes off, and an attempt to connect   *)
(* is answered in the end; of infinitely many attempts not all fail, so     *)
(* that the server can be reached.  Nobody owes a close of the connection.  *)
Fairness ==
  /\ WF_vars(LoopStep)
  /\ WF_vars(ThreadStep)
  /\ SF_vars(\E events \in SUBSET Events : "timer" \in events /\ Poll(events))
  /\ SF_vars(\E events \in SUBSET (Events \ {"error"}) : "write" \in events /\ Poll(events))
  /\ SF_vars(Connecting)
  /\ SF_vars(HandleWriteConnects)

FairSpec == Spec /\ Fairness

-----------------------------------------------------------------------------
(* Properties.  History: hasty, connect() was called while something of an  *)
(* earlier one was under way or the Connector was not back in               *)
(* kDisconnected; stopped, a stop() took effect and no connect() came       *)
(* since; gaveUp, ::connect failed in a way that is not retried.            *)

\* Unless connect() was hasty, the Connector's assertions hold: whatever stop(),
\* disconnect(), failures and timers do, startInLoop() finds kDisconnected and the
\* handlers find the state they expect.
AssertionsHold ==
  ~hasty => aborted \notin {"Connector.cc:14", "Connector.cc:137", "Connector.cc:144"}

\* Unless connect() was hasty, there is one thing at a time under way: never two
\* sockets, two timers, or a timer or a socket besides the connection.
OneAttempt == ~hasty => UnderWay <= 1

\* Unless connect() was hasty, no Channel is destroyed while the Poller points to
\* it: the resetChannel() that was queued for one attempt never hits the next.
ChannelOutlivesWatch == ~hasty => watched \subseteq {channel_}

\* After a stop() that took effect nothing is begun any more: no attempt and no
\* connection.
StopHolds == [][stopped /\ stopped' => ~Connecting /\ ~NewConnection]_vars

\* A connect() leads to a connection: retries go on until one succeeds, and with
\* enableRetry() after a close as well.  It ends early only by stop() or disconnect(),
\* by an error that is not retried, by a failed assertion, or by being hasty.
KeepsTrying ==
  connect_ ~> \/ connection_ # None
              \/ ~connect_
              \/ gaveUp
              \/ hasty
              \/ aborted # None
              \/ ~retry_ /\ state_ = "kConnected"

-----------------------------------------------------------------------------
(* What makes the invariants inductive.                                     *)

StartWaits == Queued("startInLoop") # {} \/ Batched("startInLoop") # {}
ResetWaits == Queued("resetChannel") # {} \/ Batched("resetChannel") # {}

\* connect() is about to queue startInLoop().
Calling == threadPc \in {"start", "queueStart"}

\* Neither of the two functors waits twice.
FunctorsInv ==
  \A call \in {"startInLoop", "resetChannel"} :
    /\ \A i, j \in Queued(call) : i = j
    /\ \A i, j \in Batched(call) : i = j
    /\ Queued(call) = {} \/ Batched(call) = {}

\* Of what may be under way each thing excludes the others.
OneInv ==
  /\ \A a, b \in watched : a = b
  /\ \A a, b \in timers : a = b
  /\ watched # {} => timers = {} /\ ~StartWaits /\ ~Calling /\ next = None /\ connection_ = None
  /\ timers # {} => ~StartWaits /\ ~Calling /\ next = None /\ connection_ = None
  /\ StartWaits => ~Calling /\ next = None /\ connection_ = None
  /\ Calling => next = None /\ connection_ = None
  /\ next # None => connection_ = None

\* A Channel is watched or waits for its resetChannel(); until that ran nothing that
\* leads to another Channel can happen.
ChannelInv ==
  /\ watched # {} => watched = {channel_} /\ ~ResetWaits
  /\ channel_ # None => watched # {} \/ ResetWaits
  /\ ResetWaits => /\ channel_ # None
                   /\ ready \subseteq {"write"}
                   /\ next \notin {"connect", "restart"}
                   /\ ~StartWaits /\ ~Calling

\* state_ against what is under way.
StateInv ==
  /\ state_ = "kConnecting" <=> watched # {}
  /\ timers # {} \/ StartWaits \/ Calling \/ next \in {"connect", "runAfter"}
       => state_ = "kDisconnected"

\* The events of a socket come alone, and handleWrite() after handleError() finds that the
\* attempt has failed.
ReadyInv ==
  /\ "error" \in ready => watched # {}
  /\ "write" \in ready => watched # {} \/ (ResetWaits /\ state_ = "kDisconnected")
  /\ ready \cap {"error", "write"} # {} => ready \subseteq {"error", "write"}

\* After a stop() neither flag is set and nothing is begun that has tested one before.
StopInv ==
  stopped => /\ ~connect_ /\ ~wanted
             /\ next \notin {"connect", "newConnection", "restart"}
             /\ threadPc # "start"

\* The assertions of Connector and the attempt it is at.
AttemptInv ==
  ~hasty => /\ FunctorsInv
            /\ OneInv
            /\ ChannelInv
            /\ StateInv
            /\ ReadyInv
            /\ AssertionsHold

ClientInv ==
  /\ TypeOK
  /\ StopInv
  /\ AttemptInv

=============================================================================
