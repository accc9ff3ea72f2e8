------------------------------ MODULE TcpServer ------------------------------
(****************************************************************************)
(* reactor/s13/TcpServer with its Acceptor and its EventLoopThreadPool: the *)
(* base loop accepts connections and keeps the map of them, each connection *)
(* lives on one loop of the pool, and the TcpConnectionPtrs in the map and  *)
(* in the functors of the loops decide when an object is destroyed and its  *)
(* descriptor closed and free to be used again.                             *)
(*                                                                          *)
(* A loop alternates between handling events and calling a batch of         *)
(* functors, the functors of a batch being destroyed together when all were *)
(* called.  What happens inside one connection is TcpConnection's; here it  *)
(* is established, closed by its peer, once for an event, and destroyed.    *)
(* The event that Channel::handleEvent() closes twice is in TcpConnection.  *)
(****************************************************************************)
EXTENDS Integers, Sequences, FiniteSets, Functions

CONSTANTS
  MaxThreads,   \* setThreadNum() is called with any number up to this
  MaxClients,   \* clients that ever connect
  Fds           \* the descriptors the process may still open

ASSUME TcpServerAssumption ==
  /\ MaxThreads \in Nat
  /\ MaxClients \in Nat
  /\ Fds \subseteq Nat

Base == 0                        \* loop_
IOLoops == 1..MaxThreads
Loops == {Base} \cup IOLoops
ConnIds == 1..MaxClients
None == 0                        \* no connection

VARIABLES
  numThreads_, loops_, next_,    \* EventLoopThreadPool
  listenning_,                   \* Acceptor
  nextConnId_, connectionMap_,   \* TcpServer; a connection is its number
  fd, home, phase, alive,        \* the TcpConnections: descriptor, loop, how far, not destroyed
  pending, batch, spent,         \* the loops: functors queued, in the batch, called in it
  handling,                      \* the connection whose handleEvent() runs
  inUse, dropped,                \* descriptors: open, and those handleRead() forgot
  clients, backlog, gone         \* the peers: connected so far, not accepted, closed

pool  == <<numThreads_, loops_, next_>>
conns == <<fd, home, phase, alive>>
queues == <<pending, batch, spent>>
peers == <<clients, backlog, gone>>
vars == <<pool, listenning_, nextConnId_, connectionMap_, conns, queues, handling,
          inUse, dropped, peers>>

\* "new": constructed; "up": established, its channel in the Poller; "closed": after
\* handleClose(); "down": after connectDistroyed(), its channel out of the Poller.
Phases == {"none", "new", "up", "closed", "down"}

Functor == [call : {"connectEstablished", "removeConnectionInLoop", "connectDistroyed"},
            conn : ConnIds]

TypeOK ==
  /\ numThreads_ \in 0..MaxThreads
  /\ loops_ \in Seq(IOLoops)
  /\ next_ \in Nat
  /\ listenning_ \in BOOLEAN
  /\ nextConnId_ \in 1..(MaxClients + 1)
  /\ connectionMap_ \subseteq ConnIds
  /\ fd \in [ConnIds -> Fds \cup {-1}]
  /\ home \in [ConnIds -> Loops]
  /\ phase \in [ConnIds -> Phases]
  /\ alive \subseteq ConnIds
  /\ pending \in [Loops -> Seq(Functor)]
  /\ batch \in [Loops -> Seq(Functor)]
  /\ spent \in [Loops -> SUBSET ConnIds]
  /\ handling \in [Loops -> ConnIds \cup {None}]
  /\ inUse \subseteq Fds
  /\ dropped \subseteq inUse
  /\ clients \in 0..MaxClients
  /\ backlog \in 0..MaxClients
  /\ gone \subseteq ConnIds

Init ==
  /\ numThreads_ \in 0..MaxThreads /\ loops_ = <<>> /\ next_ = 0
  /\ listenning_ = FALSE
  /\ nextConnId_ = 1 /\ connectionMap_ = {}
  /\ fd = [c \in ConnIds |-> -1] /\ home = [c \in ConnIds |-> Base]
  /\ phase = [c \in ConnIds |-> "none"] /\ alive = {}
  /\ pending = [l \in Loops |-> <<>>] /\ batch = [l \in Loops |-> <<>>]
  /\ spent = [l \in Loops |-> {}] /\ handling = [l \in Loops |-> None]
  /\ inUse = {} /\ dropped = {}
  /\ clients = 0 /\ backlog = 0 /\ gone = {}

-----------------------------------------------------------------------------
(* Helpers.                                                                 *)

\* The loop is between two events, not in doPendingFunctors().
Dispatching(l) == batch[l] = <<>> /\ spent[l] = {} /\ handling[l] = None

Bind(call, c) == [call |-> call, conn |-> c]

\* queueInLoop(), the loop of the caller or another.
queueInLoop(l, functor) == pending' = [pending EXCEPT ![l] = Append(@, functor)]

\* The connections a TcpConnectionPtr somewhere refers to.
Held(map, inPending, inBatch, called) ==
  map \cup UNION {called[l] \cup {f.conn : f \in Range(inPending[l] \o inBatch[l])} : l \in Loops}

\* Mutant: the last loop is never reached.
NextWrapsEarly == IF next_ + 2 >= Len(loops_) THEN 0 ELSE next_ + 1

\* next_++ and its reset.
NextIndex == IF next_ + 1 >= Len(loops_) THEN 0 ELSE next_ + 1

\* getNextLoop(): the base loop when the pool has no threads.
NextLoop == IF loops_ = <<>> THEN Base ELSE loops_[next_ + 1]
AdvanceNext == next_' = IF loops_ = <<>> THEN next_ ELSE NextIndex

-----------------------------------------------------------------------------
(* The base loop's thread.                                                  *)

\* start() with EventLoopThreadPool::start(), whose startLoop()s return running
\* loops, and Acceptor::listen().  A second start() changes nothing.
Start ==
  /\ ~listenning_
  /\ loops_' = [i \in 1..numThreads_ |-> i]
  /\ listenning_' = TRUE
  /\ UNCHANGED <<numThreads_, next_, nextConnId_, connectionMap_, conns, queues, handling,
                 inUse, dropped, peers>>

\* The listening socket is readable and accept() finds a free descriptor, the
\* least as always; it fails and is called again, as long as there is none.
Accepts(newFd) ==
  /\ listenning_
  /\ Dispatching(Base)
  /\ backlog > 0
  /\ newFd \in Fds \ inUse
  /\ \A other \in Fds \ inUse : newFd <= other
  /\ inUse' = inUse \cup {newFd}
  /\ backlog' = backlog - 1
  /\ UNCHANGED <<clients, gone>>

\* Acceptor::handleRead() with TcpServer::newConnection(): on the base loop itself
\* runInLoop(connectEstablished) is a call.
NewConnection ==
  \E newFd \in Fds \ {0} :
    LET c == nextConnId_  l == NextLoop
    IN  /\ Accepts(newFd)
        /\ nextConnId_' = nextConnId_ + 1
        /\ AdvanceNext
        /\ connectionMap_' = connectionMap_ \cup {c}
        /\ fd' = [fd EXCEPT ![c] = newFd]
        /\ home' = [home EXCEPT ![c] = l]
        /\ alive' = alive \cup {c}
        /\ phase' = [phase EXCEPT ![c] = IF l = Base THEN "up" ELSE "new"]
        /\ IF l = Base THEN UNCHANGED pending
                       ELSE queueInLoop(l, Bind("connectEstablished", c))
        /\ UNCHANGED <<numThreads_, loops_, listenning_, batch, spent, handling, dropped>>

\* Acceptor::handleRead() takes descriptor 0 for a failure: it is neither given to
\* newConnection() nor closed.
DropConnection ==
  /\ Accepts(0)
  /\ dropped' = dropped \cup {0}
  /\ UNCHANGED <<pool, listenning_, nextConnId_, connectionMap_, conns, queues, handling>>

-----------------------------------------------------------------------------
(* The loops.                                                               *)

\* Mutant: the entry stays in the map.
EraseNothing(c) ==
  /\ UNCHANGED connectionMap_
  /\ queueInLoop(home[c], Bind("connectDistroyed", c))

\* Mutant: connectDistroyed() is forgotten.
EraseOnly(c) ==
  /\ connectionMap_' = connectionMap_ \ {c}
  /\ UNCHANGED pending

\* removeConnectionInLoop().
removeConnectionInLoop(c) ==
  /\ connectionMap_' = connectionMap_ \ {c}
  /\ queueInLoop(home[c], Bind("connectDistroyed", c))

\* removeConnection(): runInLoop() is a call on the base loop.
removeConnection(c) ==
  IF home[c] = Base
  THEN removeConnectionInLoop(c)
  ELSE /\ queueInLoop(Base, Bind("removeConnectionInLoop", c))
       /\ UNCHANGED connectionMap_

\* handleEvent() of a connection whose peer is gone, up to the return of
\* handleClose() with its closeCallback_.
HandleClose(c) ==
  LET l == home[c]
  IN  /\ c \in gone
      /\ phase[c] = "up"
      /\ Dispatching(l)
      /\ phase' = [phase EXCEPT ![c] = "closed"]
      /\ handling' = [handling EXCEPT ![l] = c]
      /\ removeConnection(c)
      /\ UNCHANGED <<pool, listenning_, nextConnId_, fd, home, alive, batch, spent, inUse,
                     dropped, peers>>

HandleEventReturns(l) ==
  /\ handling[l] # None
  /\ handling' = [handling EXCEPT ![l] = None]
  /\ UNCHANGED <<pool, listenning_, nextConnId_, connectionMap_, conns, queues, inUse,
                 dropped, peers>>

\* doPendingFunctors() swaps.
SwapPending(l) ==
  /\ Dispatching(l)
  /\ pending[l] # <<>>
  /\ batch' = [batch EXCEPT ![l] = pending[l]]
  /\ pending' = [pending EXCEPT ![l] = <<>>]
  /\ UNCHANGED <<pool, listenning_, nextConnId_, connectionMap_, conns, spent, handling,
                 inUse, dropped, peers>>

\* One functor is called and stays in the vector.
CallFunctor(l) ==
  LET c == Head(batch[l]).conn  call == Head(batch[l]).call
  IN  /\ batch[l] # <<>>
      /\ batch' = [batch EXCEPT ![l] = Tail(@)]
      /\ spent' = [spent EXCEPT ![l] = @ \cup {c}]
      /\ \/ /\ call = "connectEstablished"
            /\ phase' = [phase EXCEPT ![c] = "up"]
            /\ UNCHANGED <<connectionMap_, pending>>
         \/ /\ call = "removeConnectionInLoop"
            /\ removeConnectionInLoop(c)
            /\ UNCHANGED phase
         \/ /\ call = "connectDistroyed"
            /\ phase' = [phase EXCEPT ![c] = "down"]
            /\ UNCHANGED <<connectionMap_, pending>>
      /\ UNCHANGED <<pool, listenning_, nextConnId_, fd, home, alive, handling, inUse,
                     dropped, peers>>

\* Mutant: ~Socket() does not close.
BatchEndsLeaking(l) ==
  /\ batch[l] = <<>>
  /\ spent[l] # {}
  /\ spent' = [spent EXCEPT ![l] = {}]
  /\ alive' = alive \cap Held(connectionMap_, pending, batch, spent')
  /\ UNCHANGED <<pool, listenning_, nextConnId_, connectionMap_, fd, home, phase, pending,
                 batch, handling, inUse, dropped, peers>>

\* The vector of functors is destroyed, and with it every connection nothing refers
\* to any more: ~TcpConnection(), ~Socket().
BatchEnds(l) ==
  /\ batch[l] = <<>>
  /\ spent[l] # {}
  /\ spent' = [spent EXCEPT ![l] = {}]
  /\ alive' = alive \cap Held(connectionMap_, pending, batch, spent')
  /\ inUse' = inUse \ {fd[c] : c \in alive \ alive'}
  /\ UNCHANGED <<pool, listenning_, nextConnId_, connectionMap_, fd, home, phase, pending,
                 batch, handling, dropped, peers>>

-----------------------------------------------------------------------------
(* The clients.                                                             *)

ClientConnects ==
  /\ listenning_
  /\ clients < MaxClients
  /\ clients' = clients + 1
  /\ backlog' = backlog + 1
  /\ UNCHANGED <<pool, listenning_, nextConnId_, connectionMap_, conns, queues, handling,
                 inUse, dropped, gone>>

ClientCloses(c) ==
  /\ c \in alive \ gone
  /\ gone' = gone \cup {c}
  /\ UNCHANGED <<pool, listenning_, nextConnId_, connectionMap_, conns, queues, handling,
                 inUse, dropped, clients, backlog>>

-----------------------------------------------------------------------------

Next ==
  \/ Start
  \/ NewConnection
  \/ DropConnection
  \/ \E c \in ConnIds : HandleClose(c)
  \/ \E l \in Loops :
       \/ HandleEventReturns(l)
       \/ SwapPending(l)
       \/ CallFunctor(l)
       \/ BatchEnds(l)
  \/ ClientConnects
  \/ \E c \in ConnIds : ClientCloses(c)

Spec == Init /\ [][Next]_vars

(* Every loop keeps running: in each round it handles every channel that is *)
(* ready, the listening one included, and then takes its functors.  Nothing *)
(* is owed by the clients.                                                  *)
Fairness ==
  /\ SF_vars(NewConnection \/ DropConnection)
  /\ \A c \in ConnIds : SF_vars(HandleClose(c))
  /\ \A l \in Loops :
       /\ WF_vars(HandleEventReturns(l) \/ CallFunctor(l) \/ BatchEnds(l))
       /\ SF_vars(SwapPending(l))

FairSpec == Spec /\ Fairness

-----------------------------------------------------------------------------
(* Properties.                                                              *)

\* A connection object outlives everything that uses it by a raw pointer: its
\* channel in a Poller, and the handleEvent() that is inside it.  The last pointer
\* may be dropped by either of two loops.
AliveWhileUsed ==
  /\ \A c \in ConnIds : phase[c] \in {"new", "up", "closed"} => c \in alive
  /\ \A l \in Loops : handling[l] # None => handling[l] \in alive

\* Each open descriptor belongs to one live connection, or is the 0 that was
\* dropped: none leaks, and none that a Poller still watches can be given out again.
DescriptorsAccounted ==
  /\ inUse = {fd[c] : c \in alive} \cup dropped
  /\ \A c, d \in alive : c # d => fd[c] # fd[d]

\* connectionMap_ holds the connections whose removal has not been carried out:
\* removeConnectionInLoop() finds what it erases (the assertion at TcpServer.cc:73),
\* where handleEvent() calls handleClose() once for an event, and nothing that is down
\* stays in the map.
MapAgrees ==
  LET removals == {f \in UNION {Range(pending[l] \o batch[l]) : l \in Loops} :
                     f.call = "removeConnectionInLoop"}
  IN  connectionMap_ = {c \in ConnIds : phase[c] \in {"new", "up"}} \cup {f.conn : f \in removals}

\* The I/O loops get equal shares of the connections, to within one; without I/O
\* loops the base loop has them all.
SharesAreEqual ==
  LET Share(l) == Cardinality({c \in 1..(nextConnId_ - 1) : home[c] = l})
      serving == IF loops_ = <<>> THEN {Base} ELSE Range(loops_)
  IN  \A c \in 1..(nextConnId_ - 1) : home[c] \in serving
      /\ \A k, l \in serving : Share(k) <= Share(l) + 1

\* A connection whose peer closes is destroyed in the end and its descriptor closed,
\* even when the close comes before the connection is established on its loop.
ClosedConnectionsEnd == \A c \in ConnIds : c \in gone ~> c \notin alive

\* No client waits for ever, even when descriptors run out: if every client closes in
\* the end, accept() succeeds for those that wait.
WaitingClientsAreAccepted ==
  (\A c \in ConnIds : WF_vars(ClientCloses(c))) => (backlog > 0 ~> backlog = 0)

-----------------------------------------------------------------------------
(* What makes the invariants inductive.                                     *)

\* Start() fills the pool once; next_ is an index of loops_.
PoolInv ==
  /\ loops_ = IF listenning_ THEN [i \in 1..numThreads_ |-> i] ELSE <<>>
  /\ loops_ # <<>> => next_ < Len(loops_)
  /\ ~listenning_ => nextConnId_ = 1 /\ next_ = 0
  /\ nextConnId_ - 1 + backlog <= clients

\* The functors a loop has not called; in the batch and in the queue each is once.
Waiting(l) == Range(pending[l]) \cup Range(batch[l])

NoRepeats(s) == \A i, j \in DOMAIN s : i # j => s[i] # s[j]

OnceInv ==
  \A l \in Loops :
    /\ NoRepeats(pending[l])
    /\ NoRepeats(batch[l])
    /\ Range(pending[l]) \cap Range(batch[l]) = {}

\* The functors for a connection.
Est(c) == Bind("connectEstablished", c)
Rem(c) == Bind("removeConnectionInLoop", c)
Dis(c) == Bind("connectDistroyed", c)

\* The connections are numbered in order; whose life has a step to come has the functor
\* for it waiting, on its loop, and no other.
ConnInv(c) ==
  /\ phase[c] = "none" <=> c >= nextConnId_
  /\ c \in alive => phase[c] # "none"
  /\ phase[c] = "new" => home[c] # Base /\ Est(c) \in Waiting(home[c])
  /\ phase[c] = "closed" => Rem(c) \in Waiting(Base) \/ Dis(c) \in Waiting(home[c])
  /\ c \in connectionMap_ <=> phase[c] \in {"new", "up"} \/ Rem(c) \in Waiting(Base)
  /\ \A l \in Loops :
       /\ Est(c) \in Waiting(l) => l = home[c] /\ phase[c] = "new"
       /\ Rem(c) \in Waiting(l) =>
            l = Base /\ home[c] # Base /\ phase[c] = "closed" /\ Dis(c) \notin Waiting(home[c])
       /\ Dis(c) \in Waiting(l) => l = home[c] /\ phase[c] = "closed"

\* A loop calls no functors while it is inside a handleEvent().
HandlingInv ==
  \A l \in Loops : handling[l] # None =>
    /\ home[handling[l]] = l
    /\ phase[handling[l]] = "closed"
    /\ batch[l] = <<>>

\* The connections that exist are the ones that are pointed to; none has the number 0
\* descriptor that was dropped.
HeldInv == alive = Held(connectionMap_, pending, batch, spent)

FdInv == dropped \subseteq {0} /\ \A c \in alive : fd[c] # 0

\* The loops before next_ are one connection ahead of the others.
ConnectionsOn(l) == {c \in 1..(nextConnId_ - 1) : home[c] = l}

ShareInv ==
  IF loops_ = <<>>
  THEN \A c \in 1..(nextConnId_ - 1) : home[c] = Base
  ELSE /\ \A c \in 1..(nextConnId_ - 1) : home[c] \in 1..numThreads_
       /\ \E q \in Nat : \A l \in 1..numThreads_ :
            Cardinality(ConnectionsOn(l)) = IF l <= next_ THEN q + 1 ELSE q

ServerInv ==
  /\ TypeOK
  /\ PoolInv
  /\ OnceInv
  /\ \A c \in ConnIds : ConnInv(c)
  /\ HandlingInv
  /\ HeldInv
  /\ FdInv
  /\ DescriptorsAccounted

=============================================================================
