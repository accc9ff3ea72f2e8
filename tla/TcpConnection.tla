---------------------------- MODULE TcpConnection ----------------------------
(****************************************************************************)
(* reactor/s13/TcpConnection, one connection of a TcpServer, from the       *)
(* functor that establishes it to the one that destroys it: its loop's      *)
(* thread, other threads that call send() and shutdown(), the server's own  *)
(* loop, which forgets the connection, and the peer.                        *)
(*                                                                          *)
(* The loop is its task queue (TaskQueue) plus the events of this           *)
(* connection's channel, any combination of flags that ::poll may report;   *)
(* Channel::handleEvent() calls up to four handlers for one event.          *)
(* Application code runs on the loop's thread in the callbacks and on the   *)
(* other threads; every thread keeps its TcpConnectionPtr.  The Makefile    *)
(* keeps assertions: one that fails aborts the process, which is where a    *)
(* behaviour ends.                                                          *)
(****************************************************************************)
EXTENDS Naturals, Sequences, FiniteSets, SequencesExt

CONSTANTS
  Threads,    \* application threads other than the loop's
  Messages,   \* each is sent at most once: the bound on send() calls
  Length      \* bytes in a message

ASSUME TcpConnectionAssumption == Length \in Nat \ {0}

VARIABLES
  state_,
  events, muted, registered,   \* channel_: events_, its pollfd, its place in the Poller
  outputBuffer_,
  sent, wrShut, peer,          \* the socket: bytes taken, shutdownWrite(), the other end
  functors, revents, inCallback, \* the loop: queue, what is left of handleEvent() to run,
                               \* in application code
  hungUp,                      \* history: the event was a hang-up without POLLIN that brought
                               \* another read event, so that handleClose() and then
                               \* handleRead() are called for it
  sameLoop, inMap, removing,   \* the server: whether its loop is the connection's, in
                               \* connectionMap_, how often removeConnectionInLoop is queued
  threadPc,
  unsent, accepted, told,      \* the application: messages to send, those sendInLoop()
                               \* took, what connectionCallback_ said last
  aborted                      \* the assertion that failed

channel == <<events, muted, registered>>
socket  == <<sent, wrShut, peer>>
loop    == <<functors, revents, hungUp, inCallback>>
server  == <<sameLoop, inMap, removing>>
app     == <<unsent, accepted, told>>
vars == <<state_, channel, outputBuffer_, socket, loop, server, threadPc, app, aborted>>

StateE == {"kConncting", "kConnected", "kDisConnecting", "kDisConnected"}
Assertions == {"TcpConnection.cc:63", "TcpConnection.cc:74", "TcpConnection.cc:148",
               "Poller.cc:68", "TcpServer.cc:73"}
None == "none"

\* What ::poll reports.  POLLPRI is handled as POLLRDHUP is, POLLNVAL as POLLERR.
Flags == {"POLLIN", "POLLRDHUP", "POLLHUP", "POLLERR", "POLLOUT"}

\* The calls of handleEvent() and those that come before each: closeCallback_,
\* errorCallback_, readCallback_, writeCallback_.
Calls == {"close", "error", "read", "write"}
Before == [close |-> {}, error |-> {"close"}, read |-> {"close", "error"},
           write |-> {"close", "error", "read"}]

Bytes == Messages \X (1..Length)
BytesOf(m) == [i \in 1..Length |-> <<m, i>>]
Functor == [call : {"connectEstablished", "shutdownInLoop", "writeComplete",
                    "connectDistroyed"}, msg : {None}]
           \cup [call : {"sendInLoop"}, msg : Messages]
Bind(call) == [call |-> call, msg |-> None]

\* A thread is idle or between two statements of send() or shutdown().
ThreadPc == [at : {"idle", "setState", "shutdown"}, msg : {None}]
            \cup [at : {"send"}, msg : Messages]
At(where) == [at |-> where, msg |-> None]

TypeOK ==
  /\ state_ \in StateE
  /\ events \subseteq {"read", "write"}
  /\ muted \in BOOLEAN
  /\ registered \in {"no", "yes", "removed"}
  /\ outputBuffer_ \in Seq(Bytes)
  /\ sent \in Seq(Bytes)
  /\ wrShut \in BOOLEAN
  /\ peer \in {"open", "fin", "reset", "gone"}
  /\ functors \in Seq(Functor)
  /\ revents \subseteq Calls
  /\ inCallback \in BOOLEAN
  /\ hungUp \in BOOLEAN
  /\ sameLoop \in BOOLEAN
  /\ inMap \in BOOLEAN
  /\ removing \in Nat
  /\ threadPc \in [Threads -> ThreadPc]
  /\ unsent \subseteq Messages
  /\ accepted \in Seq(Messages)
  /\ told \in {"nothing", "up", "down"}
  /\ aborted \in Assertions \cup {None}

\* The constructor, and newConnection() up to its last statement: state_ is not
\* initialized, so it is whatever the memory held.
Init ==
  /\ state_ \in StateE
  /\ events = {} /\ muted = FALSE /\ registered = "no"
  /\ outputBuffer_ = <<>>
  /\ sent = <<>> /\ wrShut = FALSE /\ peer = "open"
  /\ functors = <<Bind("connectEstablished")>> /\ revents = {} /\ inCallback = FALSE
  /\ hungUp = FALSE
  /\ sameLoop \in BOOLEAN /\ inMap = TRUE /\ removing = 0
  /\ threadPc = [th \in Threads |-> At("idle")]
  /\ unsent = Messages /\ accepted = <<>> /\ told = "nothing"
  /\ aborted = None

-----------------------------------------------------------------------------
(* Helpers.                                                                 *)

connected == state_ = "kConnected"
isWriting == "write" \in events

\* The loop's thread is between two things: nothing else interrupts a handler.
AtRest == revents = {} /\ ~inCallback /\ aborted = None
InCallback == inCallback /\ aborted = None

\* An assertion fails: the process is gone.
Abort(assertion) ==
  /\ aborted' = assertion
  /\ UNCHANGED <<state_, channel, outputBuffer_, loop, server, threadPc, told>>

\* ::write may take bytes.
CanWrite == ~wrShut /\ peer \in {"open", "fin"}

\* disableAll(): nothing is asked for any more and the pollfd becomes negative.
disableAll == events' = {} /\ muted' = TRUE

\* Mutant: output is buffered and nobody asks for POLLOUT.
EnableNothing == UNCHANGED events

enableWriting == events' = events \cup {"write"}

\* Mutant: POLLOUT stays on when the output is gone.
DisableWritingNever == UNCHANGED events

disableWriting == events' = events \ {"write"}

\* Mutant: the bytes ::write took are buffered as well.
RestOf(m, k) == BytesOf(m)

\* What sendInLoop() keeps of a message ::write took k bytes of.
Rest(m, k) == SubSeq(BytesOf(m), k + 1, Length)

\* sendInLoop() tries ::write only when nothing is waiting.
WritesDirectly == ~isWriting /\ outputBuffer_ = <<>>

\* sendInLoop(): write at once if nothing is waiting; a message ::write takes whole
\* ends in writeCompleteCallback_, of another the rest is buffered and POLLOUT
\* enabled.  A failed ::write takes nothing.  enableWriting() on a channel that
\* was removed fails the assertion of updateChannel().
sendInLoop(m) ==
  \E k \in IF WritesDirectly /\ CanWrite THEN 0..Length ELSE {0} :
    /\ accepted' = Append(accepted, m)
    /\ sent' = sent \o SubSeq(BytesOf(m), 1, k)
    /\ \/ /\ k = Length
          /\ inCallback' = TRUE
          /\ UNCHANGED <<events, outputBuffer_, aborted>>
       \/ /\ k < Length
          /\ registered = "yes"
          /\ enableWriting
          /\ outputBuffer_' = outputBuffer_ \o Rest(m, k)
          /\ UNCHANGED <<inCallback, aborted>>
       \/ /\ k < Length
          /\ registered = "removed"
          /\ aborted' = "Poller.cc:68"
          /\ UNCHANGED <<events, outputBuffer_, inCallback>>
    /\ UNCHANGED <<state_, muted, registered, wrShut, peer, revents, hungUp, server, threadPc, told>>

\* Mutant: the write side is shut down with output waiting.
ShutdownAtOnce == wrShut' = TRUE

\* Mutant: the shutdown() that came while output was waiting is forgotten.
ShutdownForgotten == UNCHANGED wrShut

\* The end of handleWrite(), its output gone and disableWriting() done: the
\* shutdownInLoop() that had to wait.
shutdownIfDisConnecting == wrShut' = (wrShut \/ state_ = "kDisConnecting")

\* shutdownInLoop(): not while output is waiting.
shutdownInLoop == wrShut' = (wrShut \/ ~isWriting)

\* removeConnectionInLoop() on the server's loop.
removeConnectionInLoop ==
  \/ /\ inMap
     /\ inMap' = FALSE
     /\ functors' = Append(functors, Bind("connectDistroyed"))
     /\ UNCHANGED aborted
  \/ /\ ~inMap
     /\ aborted' = "TcpServer.cc:73"
     /\ UNCHANGED <<inMap, functors>>

\* closeCallback_ is TcpServer::removeConnection: at once on the same loop, else a
\* functor of the server's loop.
removeConnection ==
  \/ /\ sameLoop
     /\ removeConnectionInLoop
     /\ UNCHANGED removing
  \/ /\ ~sameLoop
     /\ removing' = removing + 1
     /\ UNCHANGED <<functors, inMap, aborted>>

\* handleClose(), called for one of the two reasons; the event is not over.  state_
\* stays as it is.
handleClose(call) ==
  /\ \/ /\ ~connected
        /\ Abort("TcpConnection.cc:148")
     \/ /\ connected
        /\ disableAll
        /\ revents' = revents \ {call}
        /\ removeConnection
        /\ UNCHANGED <<state_, sameLoop, registered, outputBuffer_, hungUp, inCallback,
                       threadPc, told>>
  /\ UNCHANGED <<socket, unsent, accepted>>

-----------------------------------------------------------------------------
(* The functors of the connection's loop.                                   *)

NextFunctor(call) ==
  /\ AtRest
  /\ functors # <<>>
  /\ Head(functors).call = call

Done == functors' = Tail(functors)

ConnectEstablished ==
  /\ NextFunctor("connectEstablished")
  /\ \/ /\ connected
        /\ Abort("TcpConnection.cc:63")
        /\ UNCHANGED <<socket, unsent, accepted>>
     \/ /\ ~connected
        /\ Done
        /\ state_' = "kConnected"
        /\ events' = events \cup {"read"}
        /\ registered' = "yes"
        /\ told' = "up"
        /\ inCallback' = TRUE
        /\ UNCHANGED <<muted, outputBuffer_, socket, revents, hungUp, server, threadPc,
                       unsent, accepted, aborted>>

\* Mutant: the channel is left in the Poller.
UnregisterNothing == registered

Unregister == "removed"

ConnectDistroyed ==
  /\ NextFunctor("connectDistroyed")
  /\ \/ /\ ~connected
        /\ Abort("TcpConnection.cc:74")
        /\ UNCHANGED <<socket, unsent, accepted>>
     \/ /\ connected
        /\ Done
        /\ state_' = "kDisConnected"
        /\ disableAll
        /\ told' = "down"
        /\ registered' = Unregister
        /\ UNCHANGED <<outputBuffer_, socket, revents, hungUp, inCallback, server, threadPc,
                       unsent, accepted, aborted>>

SendInLoop ==
  /\ NextFunctor("sendInLoop")
  /\ Done
  /\ sendInLoop(Head(functors).msg)
  /\ UNCHANGED unsent

ShutdownInLoop ==
  /\ NextFunctor("shutdownInLoop")
  /\ Done
  /\ shutdownInLoop
  /\ UNCHANGED <<state_, channel, outputBuffer_, sent, peer, revents, hungUp, inCallback,
                 server, threadPc, app, aborted>>

WriteComplete ==
  /\ NextFunctor("writeComplete")
  /\ Done
  /\ inCallback' = TRUE
  /\ UNCHANGED <<state_, channel, outputBuffer_, socket, revents, hungUp, server, threadPc,
                 app, aborted>>

-----------------------------------------------------------------------------
(* The events of the channel.                                               *)

\* Mutant: a hang-up closes although there is something to read first.
HangsUpAtOnce(ready) == "POLLHUP" \in ready

HangsUp(ready) == "POLLHUP" \in ready /\ "POLLIN" \notin ready

\* The calls handleEvent() makes for these flags.  The flags do not change meanwhile,
\* whatever the handlers do to the channel.
CallsFor(ready) ==
  {call \in Calls :
     CASE call = "close" -> HangsUp(ready)
       [] call = "error" -> "POLLERR" \in ready
       [] call = "read"  -> ready \cap {"POLLIN", "POLLRDHUP"} # {}
       [] call = "write" -> "POLLOUT" \in ready}

\* ::poll reports the channel, if its descriptor is not muted, for what was asked, and
\* for what it reports unasked: a hang-up and an error.
Poll(ready) ==
  /\ AtRest
  /\ registered = "yes" /\ ~muted
  /\ ready # {}
  /\ ready \cap {"POLLIN", "POLLRDHUP"} # {} => "read" \in events
  /\ "POLLOUT" \in ready => isWriting
  /\ ready \cap {"POLLRDHUP", "POLLHUP"} # {} => peer # "open"
  /\ "POLLERR" \in ready => peer = "reset"
  /\ revents' = CallsFor(ready)
  /\ hungUp' = (ready \cap {"POLLIN", "POLLRDHUP", "POLLHUP"} = {"POLLRDHUP", "POLLHUP"})
  /\ UNCHANGED <<state_, channel, outputBuffer_, socket, functors, inCallback, server,
                 threadPc, app, aborted>>

Handling(call) ==
  /\ call \in revents
  /\ revents \cap Before[call] = {}
  /\ ~inCallback
  /\ aborted = None

\* POLLHUP without POLLIN: handleClose(), before anything else of the event.
HandleHangUp == Handling("close") /\ handleClose("close")

\* handleError(): getsockopt() takes the error of the socket, which is logged.
HandleError ==
  /\ Handling("error")
  /\ revents' = revents \ {"error"}
  /\ peer' = IF peer = "reset" THEN "gone" ELSE peer
  /\ UNCHANGED <<state_, channel, outputBuffer_, sent, wrShut, functors, hungUp, inCallback,
                 server, threadPc, app, aborted>>

\* handleRead(), n > 0: messageCallback_.  What the peer sent before it closed, or
\* before it was reset, is read first.
HandleMessage ==
  /\ Handling("read")
  /\ revents' = revents \ {"read"}
  /\ inCallback' = TRUE
  /\ UNCHANGED <<state_, channel, outputBuffer_, socket, functors, hungUp, server, threadPc,
                 app, aborted>>

\* handleRead(), n < 0: the error of a reset is read once, and logged.
HandleReadError ==
  /\ Handling("read")
  /\ peer = "reset"
  /\ peer' = "gone"
  /\ revents' = revents \ {"read"}
  /\ UNCHANGED <<state_, channel, outputBuffer_, sent, wrShut, functors, hungUp, inCallback,
                 server, threadPc, app, aborted>>

\* handleRead(), n = 0: after a reset too, when a ::write has taken the error.
HandleClose == Handling("read") /\ peer # "open" /\ handleClose("read")

\* handleWrite(): writes first and looks at isWriting() afterwards.
HandleWrite ==
  /\ Handling("write")
  /\ revents' = {}
  /\ \E k \in IF CanWrite THEN 1..Len(outputBuffer_) ELSE {0} :
       /\ sent' = sent \o SubSeq(outputBuffer_, 1, k)
       /\ \/ /\ isWriting /\ k = Len(outputBuffer_)
             /\ outputBuffer_' = <<>>
             /\ disableWriting
             /\ functors' = Append(functors, Bind("writeComplete"))
             /\ shutdownIfDisConnecting
          \/ /\ isWriting /\ k < Len(outputBuffer_)
             /\ outputBuffer_' = SubSeq(outputBuffer_, k + 1, Len(outputBuffer_))
             /\ UNCHANGED <<events, functors, wrShut>>
          \/ /\ ~isWriting
             /\ UNCHANGED <<outputBuffer_, events, functors, wrShut>>
  /\ UNCHANGED <<state_, muted, registered, peer, hungUp, inCallback, server, threadPc,
                 app, aborted>>

-----------------------------------------------------------------------------
(* Application code on the loop's thread, inside a callback.                *)

CallbackSends(m) ==
  /\ InCallback
  /\ m \in unsent
  /\ connected
  /\ unsent' = unsent \ {m}
  /\ sendInLoop(m)
  /\ UNCHANGED functors

CallbackShutsDown ==
  /\ InCallback
  /\ connected
  /\ state_' = "kDisConnecting"
  /\ shutdownInLoop
  /\ UNCHANGED <<channel, outputBuffer_, sent, peer, loop, server, threadPc, app, aborted>>

CallbackReturns ==
  /\ InCallback
  /\ inCallback' = FALSE
  /\ UNCHANGED <<state_, channel, outputBuffer_, socket, functors, revents, hungUp, server,
                 threadPc, app, aborted>>

-----------------------------------------------------------------------------
(* Application code on the other threads, which know the connection from    *)
(* its first connectionCallback_ on.                                        *)

ThreadAt(th, where) == aborted = None /\ threadPc[th].at = where

Goto(th, pc) == threadPc' = [threadPc EXCEPT ![th] = pc]

\* send(): connected() ...
ThreadSends(th, m) ==
  /\ told # "nothing"
  /\ ThreadAt(th, "idle")
  /\ m \in unsent
  /\ connected
  /\ unsent' = unsent \ {m}
  /\ Goto(th, [at |-> "send", msg |-> m])
  /\ UNCHANGED <<state_, channel, outputBuffer_, socket, loop, server, accepted, told, aborted>>

\* ... and then the functor.
ThreadQueuesSend(th) ==
  /\ ThreadAt(th, "send")
  /\ functors' = Append(functors, [call |-> "sendInLoop", msg |-> threadPc[th].msg])
  /\ Goto(th, At("idle"))
  /\ UNCHANGED <<state_, channel, outputBuffer_, socket, revents, hungUp, inCallback, server,
                 app, aborted>>

\* shutdown(): connected(), setState() and the functor, three statements.
ThreadShutsDown(th) ==
  /\ told # "nothing"
  /\ ThreadAt(th, "idle")
  /\ connected
  /\ Goto(th, At("setState"))
  /\ UNCHANGED <<state_, channel, outputBuffer_, socket, loop, server, app, aborted>>

ThreadSetsState(th) ==
  /\ ThreadAt(th, "setState")
  /\ state_' = "kDisConnecting"
  /\ Goto(th, At("shutdown"))
  /\ UNCHANGED <<channel, outputBuffer_, socket, loop, server, app, aborted>>

ThreadQueuesShutdown(th) ==
  /\ ThreadAt(th, "shutdown")
  /\ functors' = Append(functors, Bind("shutdownInLoop"))
  /\ Goto(th, At("idle"))
  /\ UNCHANGED <<state_, channel, outputBuffer_, socket, revents, hungUp, inCallback, server,
                 app, aborted>>

-----------------------------------------------------------------------------
(* The server's loop, when it is another one, and the peer.                 *)

BaseLoopRemoves ==
  /\ aborted = None
  /\ removing > 0
  /\ removing' = removing - 1
  /\ removeConnectionInLoop
  /\ UNCHANGED <<state_, sameLoop, channel, outputBuffer_, socket, revents, hungUp,
                 inCallback, threadPc, app>>

PeerCloses ==
  /\ aborted = None
  /\ peer = "open"
  /\ peer' \in {"fin", "reset"}
  /\ UNCHANGED <<state_, channel, outputBuffer_, sent, wrShut, loop, server, threadPc,
                 app, aborted>>

-----------------------------------------------------------------------------

RunFunctor ==
  \/ ConnectEstablished
  \/ ConnectDistroyed
  \/ SendInLoop
  \/ ShutdownInLoop
  \/ WriteComplete

HandleEvent ==
  \/ HandleHangUp
  \/ HandleError
  \/ HandleReadError
  \/ HandleClose
  \/ HandleWrite

ThreadStep(th) ==
  \/ ThreadQueuesSend(th)
  \/ ThreadSetsState(th)
  \/ ThreadQueuesShutdown(th)

Next ==
  \/ RunFunctor
  \/ \E ready \in SUBSET Flags : Poll(ready)
  \/ HandleMessage
  \/ HandleEvent
  \/ \E m \in Messages : CallbackSends(m)
  \/ CallbackShutsDown
  \/ CallbackReturns
  \/ \E th \in Threads :
       \/ \E m \in Messages : ThreadSends(th, m)
       \/ ThreadShutsDown(th)
       \/ ThreadStep(th)
  \/ BaseLoopRemoves
  \/ PeerCloses

Spec == Init /\ [][Next]_vars

(* Threads and loops keep running and callbacks return.  The loop calls its *)
(* functors after every ::poll, so a stream of events cannot put them off.  *)
(* The peer keeps reading, so that the socket is writable again and again;  *)
(* what it sent before a close is finite, so that the close is read in the  *)
(* end.  The peer owes no close.                                            *)
CloseIsPolled ==
  /\ peer # "open"
  /\ \E ready \in SUBSET Flags :
       ready \cap {"POLLIN", "POLLRDHUP", "POLLHUP"} # {} /\ Poll(ready)

Fairness ==
  /\ SF_vars(RunFunctor)
  /\ SF_vars(\E ready \in SUBSET Flags : "POLLOUT" \in ready /\ Poll(ready))
  /\ SF_vars(CloseIsPolled)
  /\ WF_vars(HandleMessage \/ HandleEvent)
  /\ SF_vars(HandleClose)
  /\ WF_vars(CallbackReturns)
  /\ WF_vars(BaseLoopRemoves)
  /\ \A th \in Threads : WF_vars(ThreadStep(th))

FairSpec == Spec /\ Fairness

-----------------------------------------------------------------------------
(* Properties.                                                              *)

\* The bytes of the messages sendInLoop() took, one message after the other.
Stream == [j \in 1..(Len(accepted) * Length) |->
             <<accepted[((j - 1) \div Length) + 1], ((j - 1) % Length) + 1>>]

\* What the peer gets is, byte for byte, the messages in the order sendInLoop()
\* took them, cut off somewhere; until the close is handled what is missing is
\* in outputBuffer_.
StreamInOrder ==
  /\ IsPrefix(sent, Stream)
  /\ ~muted /\ aborted = None => sent \o outputBuffer_ = Stream

\* POLLOUT is asked for exactly while there is output: no busy loop with nothing
\* to write and no output that is forgotten.
WritingWhileBuffered ==
  registered = "yes" /\ ~muted => (isWriting <=> outputBuffer_ # <<>>)

\* Until the close is handled, shutdown() does not cut off bytes sendInLoop() has taken.
ShutdownAfterDrain ==
  [][wrShut' /\ ~wrShut /\ ~muted => outputBuffer_' = <<>>]_vars

\* Where connectDistroyed() is in the queue.
Destroying == {i \in DOMAIN functors : functors[i].call = "connectDistroyed"}

\* connectDistroyed() is queued once and runs once, after the server has forgotten the
\* connection: one of the three is true at a time, whatever the events were and whichever
\* loops the two run on.  Nothing of it begins before handleClose(), and after it the
\* server's loop has its removal to do or has done it.  The removal is queued once, too,
\* but for a hang-up without POLLIN that brings another read event: handleEvent() then
\* calls handleClose() and handleRead(), and handleClose() leaves state_ alone, so that
\* the second close passes its assertion and queues another removal.
TornDownOnce ==
  /\ Cardinality(Destroying) + (IF told = "down" THEN 1 ELSE 0) + (IF inMap THEN 1 ELSE 0) = 1
  /\ IF muted THEN inMap => removing > 0 ELSE inMap /\ removing = 0
  /\ ~hungUp => removing = IF muted /\ inMap THEN 1 ELSE 0

\* Messages are delivered only between the two connectionCallback_s, whatever ::poll
\* reports together.  They are not delivered once closeCallback_ was called either, but
\* for the one event in which handleEvent() calls it before readCallback_.
NoMessageAfterClose ==
  [][HandleMessage => told = "up" /\ (~hungUp => inMap /\ removing = 0)]_vars

\* A shutdown() in the end half-closes the connection, unless the close of the
\* peer is handled first (or fails its assertion).
ShutdownCompletes ==
  (told = "up" /\ state_ = "kDisConnecting") ~> (wrShut \/ muted \/ aborted # None)

\* Buffered output leaves, unless the write side is shut or the peer is gone.
OutputDrains ==
  outputBuffer_ # <<>> ~>
    (outputBuffer_ = <<>> \/ wrShut \/ muted \/ aborted # None)

\* A close that is handled ends in the last connectionCallback_ and in the removal
\* of the channel from its Poller.
TeardownCompletes ==
  muted ~> ((told = "down" /\ registered = "removed") \/ aborted # None)

\* handleClose(): assert(connected()), which says that the close of the peer finds
\* the connection up.
CloseFindsConnected == aborted # "TcpConnection.cc:148"

\* An assertion fails for one of four reasons only: state_ was never initialized and
\* happened to say kConnected; our own side had called shutdown() when the close of
\* the peer was handled or the teardown ran; another thread's sendInLoop() came after
\* the channel was removed; or the server is to forget the connection a second time,
\* which takes the event that handleEvent() closes twice.  This is for as long as the
\* object lives, which the TcpConnectionPtrs of the threads see to here.
AbortsExplained ==
  CASE aborted = "TcpConnection.cc:63" -> told = "nothing"
    [] aborted \in {"TcpConnection.cc:74", "TcpConnection.cc:148"} ->
         told = "up" /\ state_ = "kDisConnecting"
    [] aborted = "Poller.cc:68" -> told = "down" /\ Threads # {}
    [] aborted = "TcpServer.cc:73" -> hungUp /\ muted /\ ~inMap
    [] OTHER -> aborted = None

-----------------------------------------------------------------------------
(* What makes the invariants inductive.                                     *)

\* Until connectEstablished() runs nothing happens.
BeforeInv ==
  told = "nothing" =>
    /\ functors = <<Bind("connectEstablished")>>
    /\ registered = "no" /\ events = {} /\ revents = {} /\ ~inCallback
    /\ outputBuffer_ = <<>>
    /\ \A th \in Threads : threadPc[th].at = "idle"

\* The first and the last connectionCallback_ against the channel and state_; a thread
\* may call shutdown() on a connection that is down.
LifeInv ==
  /\ told # "nothing" => \A i \in DOMAIN functors : functors[i].call # "connectEstablished"
  /\ told = "up" => registered = "yes" /\ state_ \in {"kConnected", "kDisConnecting"}
  /\ told = "down" => /\ registered = "removed"
                      /\ state_ \in {"kDisConnected", "kDisConnecting"}
                      /\ revents = {}
  /\ "close" \in revents => ~muted
  /\ {"close", "read"} \subseteq revents => hungUp
  /\ "read" \in revents /\ muted => hungUp

\* The stages of the teardown; connectDistroyed() is queued once.  Only the event that
\* is closed twice leaves a removal that finds the connection gone.
TeardownInv ==
  /\ \A i, j \in Destroying : i = j
  /\ ~muted => Destroying = {} /\ removing = 0 /\ told # "down" /\ inMap
  /\ muted => \/ Destroying # {} /\ told = "up" /\ ~inMap
              \/ Destroying = {} /\ told = "up" /\ inMap /\ removing > 0
              \/ Destroying = {} /\ told = "down" /\ ~inMap
  /\ removing > (IF inMap THEN 1 ELSE 0) => hungUp

\* Only another thread queues sendInLoop().
SenderInv == (\E i \in DOMAIN functors : functors[i].call = "sendInLoop") => Threads # {}

ConnectionInv ==
  /\ TypeOK
  /\ BeforeInv
  /\ LifeInv
  /\ TeardownInv
  /\ SenderInv
  /\ WritingWhileBuffered
  /\ AbortsExplained

\* The output is what is missing, until a handleWrite() that follows handleClose() in the
\* same event has written part of it and left it in the buffer, where it stays.
StreamInv ==
  /\ IsPrefix(sent, Stream)
  /\ \/ sent \o outputBuffer_ = Stream
     \/ outputBuffer_ # <<>> /\ muted /\ "write" \notin revents
     \/ aborted # None

=============================================================================
