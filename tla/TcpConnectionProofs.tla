------------------------- MODULE TcpConnectionProofs -------------------------
(****************************************************************************)
(* Proofs about TcpConnection for any set of threads and messages and any   *)
(* length of a message.                                                     *)
(****************************************************************************)
EXTENDS TcpConnection, SequenceTheorems, FiniteSetTheorems, TLAPS

\* A functor that makes this call is queued.
Queued(call) == \E i \in DOMAIN functors : functors[i].call = call

-----------------------------------------------------------------------------
(* The queue of functors.                                                   *)

LEMMA Functors ==
  /\ \A call \in {"connectEstablished", "shutdownInLoop", "writeComplete", "connectDistroyed"} :
       Bind(call) \in Functor /\ Bind(call).call = call
  /\ \A m \in Messages : /\ [call |-> "sendInLoop", msg |-> m] \in Functor
                         /\ [call |-> "sendInLoop", msg |-> m].call = "sendInLoop"
  /\ \A f \in Functor : f.call = "sendInLoop" => f.msg \in Messages
  BY DEF Functor, Bind

\* A functor is queued at the end.
LEMMA FunctorQueued ==
  ASSUME TypeOK, NEW f \in Functor, functors' = Append(functors, f)
  PROVE  /\ functors' \in Seq(Functor)
         /\ \A call : Queued(call)' <=> Queued(call) \/ f.call = call
         /\ \E n : /\ n \notin Destroying
                   /\ Destroying' = IF f.call = "connectDistroyed" THEN Destroying \cup {n}
                                    ELSE Destroying
  <1> DEFINE n == Len(functors) + 1
  <1>1. functors \in Seq(Functor)
    BY DEF TypeOK
  <1>2. Len(functors) \in Nat /\ DOMAIN functors = 1..Len(functors)
    BY <1>1, LenProperties
  <1>3. /\ functors' \in Seq(Functor)
        /\ Len(functors') = n
        /\ \A i \in 1..Len(functors) : functors'[i] = functors[i]
        /\ functors'[n] = f
    BY <1>1, AppendProperties
  <1>4. DOMAIN functors' = 1..n
    BY <1>3, LenProperties
  <1>5. n \notin DOMAIN functors /\ DOMAIN functors' = DOMAIN functors \cup {n}
    BY <1>2, <1>4
  <1> HIDE DEF n
  <1>6. \A call : Queued(call)' <=> Queued(call) \/ f.call = call
    BY <1>2, <1>3, <1>5 DEF Queued
  <1>7. n \notin Destroying
    BY <1>5 DEF Destroying
  <1>8. Destroying' = IF f.call = "connectDistroyed" THEN Destroying \cup {n} ELSE Destroying
    BY <1>2, <1>3, <1>5 DEF Destroying
  <1>9. QED
    BY <1>3, <1>6, <1>7, <1>8

\* The first functor is called and leaves the queue.
LEMMA FunctorDone ==
  ASSUME TypeOK, functors # <<>>, Done
  PROVE  /\ functors' \in Seq(Functor)
         /\ Head(functors) \in Functor
         /\ Queued(Head(functors).call)
         /\ \A call : Queued(call)' => Queued(call)
         /\ Head(functors).call # "connectDistroyed" => (Destroying' = {} <=> Destroying = {})
         /\ (\A i, j \in Destroying : i = j) =>
              /\ \A i, j \in Destroying' : i = j
              /\ Head(functors).call = "connectDistroyed" => Destroying' = {}
  <1>1. functors \in Seq(Functor)
    BY DEF TypeOK
  <1>2. Len(functors) \in Nat \ {0} /\ DOMAIN functors = 1..Len(functors)
    BY <1>1, LenProperties, EmptySeq
  <1>3. functors' = Tail(functors)
    BY DEF Done
  <1>4. Head(functors) = functors[1] /\ functors[1] \in Functor
    BY <1>1, <1>2, ElementOfSeq
  <1>5. /\ functors' \in Seq(Functor)
        /\ Len(functors') = Len(functors) - 1
        /\ \A i \in 1..Len(functors') : functors'[i] = functors[i + 1]
    BY <1>1, <1>3, HeadTailProperties
  <1>6. DOMAIN functors' = 1..(Len(functors) - 1)
    BY <1>5, LenProperties
  <1>7. \A i \in DOMAIN functors' : /\ i + 1 \in DOMAIN functors
                                    /\ i + 1 # 1
                                    /\ functors'[i] = functors[i + 1]
    BY <1>2, <1>5, <1>6
  <1>8. \A i \in DOMAIN functors : i # 1 => /\ i - 1 \in DOMAIN functors'
                                            /\ functors'[i - 1] = functors[i]
    BY <1>2, <1>5, <1>6
  <1>9. \A call : Queued(call)' => Queued(call)
    BY <1>7 DEF Queued
  <1>10. \A i \in Destroying' : i + 1 \in Destroying /\ i + 1 # 1 /\ i \in Int
    BY <1>6, <1>7 DEF Destroying
  <1>11. \A i \in Destroying : i # 1 => i - 1 \in Destroying'
    BY <1>8 DEF Destroying
  <1>12. 1 \in Destroying <=> Head(functors).call = "connectDistroyed"
    BY <1>2, <1>4 DEF Destroying
  <1>13. Queued(Head(functors).call)
    BY <1>2, <1>4 DEF Queued
  <1>14. Head(functors).call # "connectDistroyed" => (Destroying' = {} <=> Destroying = {})
    BY <1>10, <1>11, <1>12
  <1>15. (\A i, j \in Destroying : i = j) =>
              /\ \A i, j \in Destroying' : i = j
              /\ Head(functors).call = "connectDistroyed" => Destroying' = {}
    BY <1>10, <1>12
  <1>16. QED
    BY <1>4, <1>5, <1>9, <1>13, <1>14, <1>15

\* The queue as it was.
LEMMA QueueAsBefore ==
  ASSUME UNCHANGED functors
  PROVE  Destroying' = Destroying /\ \A call : Queued(call)' <=> Queued(call)
  BY DEF Destroying, Queued

\* LifeInv and SenderInv ask the queue only for what is queued.
LEMMA InvAsQueued ==
  /\ LifeInv <=>
       /\ told # "nothing" => ~Queued("connectEstablished")
       /\ told = "up" => registered = "yes" /\ state_ \in {"kConnected", "kDisConnecting"}
       /\ told = "down" => /\ registered = "removed"
                           /\ state_ \in {"kDisConnected", "kDisConnecting"}
                           /\ revents = {}
       /\ "close" \in revents => ~muted
       /\ {"close", "read"} \subseteq revents => hungUp
       /\ "read" \in revents /\ muted => hungUp
  /\ SenderInv <=> (Queued("sendInLoop") => Threads # {})
  BY DEF LifeInv, SenderInv, Queued

-----------------------------------------------------------------------------
(* The bytes.                                                               *)

\* What ::write takes of a sequence of bytes and the rest of it.
LEMMA Cut ==
  ASSUME NEW s \in Seq(Bytes), NEW k \in 0..Len(s)
  PROVE  /\ SubSeq(s, 1, k) \in Seq(Bytes)
         /\ SubSeq(s, k + 1, Len(s)) \in Seq(Bytes)
         /\ SubSeq(s, 1, k) \o SubSeq(s, k + 1, Len(s)) = s
         /\ k < Len(s) => SubSeq(s, k + 1, Len(s)) # <<>>
         /\ k = Len(s) => SubSeq(s, 1, k) = s
         /\ k = 0 => SubSeq(s, 1, k) = <<>>
  <1>1. Len(s) \in Nat /\ k \in Nat /\ k <= Len(s) /\ \A i \in 1..Len(s) : s[i] \in Bytes
    BY LenProperties, ElementOfSeq
  <1>2. SubSeq(s, 1, k) \in Seq(Bytes)
    BY <1>1, SubSeqProperties
  <1>3. /\ SubSeq(s, k + 1, Len(s)) \in Seq(Bytes)
        /\ Len(SubSeq(s, k + 1, Len(s))) = IF k + 1 <= Len(s) THEN Len(s) - (k + 1) + 1 ELSE 0
    BY <1>1, SubSeqProperties
  <1>4. k < Len(s) => SubSeq(s, k + 1, Len(s)) # <<>>
    <2>1. k < Len(s) => Len(SubSeq(s, k + 1, Len(s))) # 0
      BY <1>1, <1>3
    <2>2. QED
      BY <1>3, <2>1, EmptySeq
  <1>5. SubSeq(s, 1, Len(s)) = s
    BY SubSeqFull
  <1>6. SubSeq(s, 1, k) \o SubSeq(s, k + 1, Len(s)) = SubSeq(s, 1, Len(s))
    <2>1. 1 \in 1..(Len(s) + 1) /\ k \in (1 - 1)..Len(s) /\ Len(s) \in k..Len(s)
      BY <1>1
    <2>2. QED
      BY <2>1, ConcatAdjacentSubSeq
  <1>7. k = 0 => SubSeq(s, 1, k) = <<>>
    BY SubSeqEmpty
  <1>8. QED
    BY <1>2, <1>3, <1>4, <1>5, <1>6, <1>7

LEMMA Pieces ==
  ASSUME NEW m \in Messages, NEW k \in 0..Length
  PROVE  /\ BytesOf(m) \in Seq(Bytes) /\ Len(BytesOf(m)) = Length
         /\ SubSeq(BytesOf(m), 1, k) \in Seq(Bytes)
         /\ Rest(m, k) \in Seq(Bytes)
         /\ SubSeq(BytesOf(m), 1, k) \o Rest(m, k) = BytesOf(m)
         /\ k = Length => SubSeq(BytesOf(m), 1, k) = BytesOf(m)
         /\ k = 0 => SubSeq(BytesOf(m), 1, k) = <<>> /\ Rest(m, k) = BytesOf(m)
         /\ k < Length => Rest(m, k) # <<>>
  <1>1. Length \in Nat \ {0}
    BY TcpConnectionAssumption
  <1>2. BytesOf(m) \in Seq(Bytes) /\ Len(BytesOf(m)) = Length
    BY <1>1, IsASeq DEF BytesOf, Bytes
  <1>3. /\ SubSeq(BytesOf(m), 1, k) \in Seq(Bytes)
        /\ Rest(m, k) \in Seq(Bytes)
        /\ SubSeq(BytesOf(m), 1, k) \o Rest(m, k) = BytesOf(m)
        /\ k < Length => Rest(m, k) # <<>>
        /\ k = Length => SubSeq(BytesOf(m), 1, k) = BytesOf(m)
        /\ k = 0 => SubSeq(BytesOf(m), 1, k) = <<>>
    BY <1>2, Cut DEF Rest
  <1>4. k = 0 => Rest(m, k) = BytesOf(m)
    BY <1>1, <1>2, SubSeqFull DEF Rest
  <1>5. QED
    BY <1>2, <1>3, <1>4

-----------------------------------------------------------------------------
(* The initial state and sendInLoop().                                      *)

LEMMA InitInv == Init => ConnectionInv
  <1> SUFFICES ASSUME Init PROVE ConnectionInv
    OBVIOUS
  <1>1. /\ functors = <<Bind("connectEstablished")>>
        /\ functors \in Seq(Functor)
        /\ Len(functors) = 1 /\ functors[1].call = "connectEstablished"
    BY Functors DEF Init
  <1>2. DOMAIN functors = {1}
    BY <1>1, LenProperties
  <1>3. <<>> \in Seq(Bytes) /\ <<>> \in Seq(Messages)
    BY EmptySeq
  <1>4. At("idle") \in ThreadPc /\ At("idle").at = "idle"
    BY DEF At, ThreadPc
  <1>5. TypeOK
    BY <1>1, <1>3, <1>4 DEF Init, TypeOK
  <1>6. BeforeInv
    BY <1>4 DEF Init, BeforeInv
  <1>7. LifeInv
    BY DEF Init, LifeInv
  <1>8. TeardownInv
    BY <1>1, <1>2 DEF Init, TeardownInv, Destroying
  <1>9. SenderInv
    BY <1>1, <1>2 DEF SenderInv
  <1>10. WritingWhileBuffered /\ AbortsExplained
    BY DEF Init, WritingWhileBuffered, AbortsExplained, None
  <1>11. QED
    BY <1>5, <1>6, <1>7, <1>8, <1>9, <1>10 DEF ConnectionInv

\* sendInLoop() takes the message, or buffers the rest of it and enables writing, or
\* fails the assertion.
LEMMA Sending ==
  ASSUME TypeOK, NEW m \in Messages, sendInLoop(m)
  PROVE  /\ sent' \in Seq(Bytes)
         /\ accepted' \in Seq(Messages)
         /\ \/ inCallback' = TRUE /\ UNCHANGED <<events, outputBuffer_, aborted>>
            \/ /\ registered = "yes"
               /\ events' = events \cup {"write"}
               /\ outputBuffer_' \in Seq(Bytes)
               /\ outputBuffer_' # <<>>
               /\ UNCHANGED <<inCallback, aborted>>
            \/ /\ registered = "removed"
               /\ aborted' = "Poller.cc:68"
               /\ UNCHANGED <<events, outputBuffer_, inCallback>>
         /\ UNCHANGED <<state_, muted, registered, wrShut, peer, revents, threadPc, told>>
         /\ UNCHANGED <<sameLoop, inMap, removing, hungUp>>
  <1>0. Length \in Nat \ {0}
    BY TcpConnectionAssumption
  <1>1. PICK k \in IF WritesDirectly /\ CanWrite THEN 0..Length ELSE {0} :
          /\ accepted' = Append(accepted, m)
          /\ sent' = sent \o SubSeq(BytesOf(m), 1, k)
          /\ \/ /\ k = Length
                /\ inCallback' = TRUE
                /\ UNCHANGED <<events, outputBuffer_, aborted>>
             \/ /\ k < Length
                /\ registered = "yes"
                /\ enableWriting
                /\ outputBuffer_' = outputBuffer_ \o Rest(m, k)
                /\ UNCHANGED <<inCallback, aborted>>
             \/ /\ k < Length
                /\ registered = "removed"
                /\ aborted' = "Poller.cc:68"
                /\ UNCHANGED <<events, outputBuffer_, inCallback>>
          /\ UNCHANGED <<state_, muted, registered, wrShut, peer, revents, hungUp, server, threadPc, told>>
    BY DEF sendInLoop
  <1>2. k \in 0..Length
    BY <1>0
  <1>3. /\ SubSeq(BytesOf(m), 1, k) \in Seq(Bytes)
        /\ Rest(m, k) \in Seq(Bytes)
        /\ k < Length => Rest(m, k) # <<>>
    BY <1>2, Pieces
  <1>4. sent \in Seq(Bytes) /\ accepted \in Seq(Messages) /\ outputBuffer_ \in Seq(Bytes)
    BY DEF TypeOK
  <1>5. sent' \in Seq(Bytes)
    BY <1>1, <1>3, <1>4, ConcatProperties
  <1>6. accepted' \in Seq(Messages)
    BY <1>1, <1>4, AppendProperties
  <1>7. /\ outputBuffer_ \o Rest(m, k) \in Seq(Bytes)
        /\ k < Length => outputBuffer_ \o Rest(m, k) # <<>>
    BY <1>3, <1>4, ConcatProperties, ConcatEqualIffEmpty
  <1>8. QED
    BY <1>1, <1>5, <1>6, <1>7 DEF enableWriting, server

\* What is left to check when a message was sent: where and by whom.
LEMMA SendingInv ==
  ASSUME ConnectionInv, NEW m \in Messages, sendInLoop(m), aborted = None, told # "nothing",
         told = "down" => Threads # {},
         functors' \in Seq(Functor), unsent' \subseteq Messages,
         \A call : Queued(call)' => Queued(call),
         Destroying' = {} <=> Destroying = {},
         \A i, j \in Destroying' : i = j
  PROVE  ConnectionInv'
  <1>1. TypeOK
    BY DEF ConnectionInv
  <1>2. TypeOK'
    <2>1. /\ events' \subseteq {"read", "write"}
          /\ outputBuffer_' \in Seq(Bytes)
          /\ inCallback' \in BOOLEAN
          /\ aborted' \in Assertions \cup {None}
      BY <1>1, Sending DEF TypeOK, Assertions
    <2>2. QED
      BY <1>1, <2>1, Sending DEF TypeOK
  <1>3. BeforeInv'
    BY <1>1, Sending DEF BeforeInv
  <1>4. LifeInv' /\ SenderInv'
    BY <1>1, Sending, InvAsQueued DEF ConnectionInv, LifeInv, SenderInv, Queued
  <1>5. TeardownInv'
    BY <1>1, Sending DEF ConnectionInv, TeardownInv
  <1>6. WritingWhileBuffered'
    BY <1>1, Sending DEF ConnectionInv, WritingWhileBuffered, isWriting
  <1>7. AbortsExplained'
    <2>1. registered = "removed" => told = "down"
      BY <1>1 DEF ConnectionInv, LifeInv, TypeOK
    <2>2. /\ \/ aborted' = aborted
             \/ registered = "removed" /\ aborted' = "Poller.cc:68"
          /\ told' = told
      BY <1>1, Sending
    <2>3. QED
      BY <2>1, <2>2 DEF AbortsExplained, None
  <1>8. QED
    BY <1>2, <1>3, <1>4, <1>5, <1>6, <1>7 DEF ConnectionInv

-----------------------------------------------------------------------------
(* The functors of the loop.                                                *)

\* An assertion that fails for one of the reasons ends the behaviour.
LEMMA AbortInv ==
  ASSUME ConnectionInv, NEW assertion \in Assertions, Abort(assertion),
         UNCHANGED <<socket, unsent, accepted>>, AbortsExplained'
  PROVE  ConnectionInv'
  <1>1. /\ aborted' = assertion
        /\ UNCHANGED <<state_, events, muted, registered, outputBuffer_, sent, wrShut, peer>>
        /\ UNCHANGED <<functors, revents, hungUp, inCallback, sameLoop, inMap, removing, threadPc>>
        /\ UNCHANGED <<unsent, accepted, told>>
    BY DEF Abort, channel, loop, server, socket
  <1>2. TypeOK'
    BY <1>1 DEF ConnectionInv, TypeOK
  <1>3. BeforeInv' /\ LifeInv' /\ SenderInv' /\ TeardownInv'
    BY <1>1 DEF ConnectionInv, BeforeInv, LifeInv, SenderInv, TeardownInv, Destroying
  <1>4. WritingWhileBuffered'
    BY <1>1 DEF ConnectionInv, WritingWhileBuffered, isWriting
  <1>5. QED
    BY <1>2, <1>3, <1>4 DEF ConnectionInv

LEMMA ConnectEstablishedInv ==
  ASSUME ConnectionInv, ConnectEstablished
  PROVE  ConnectionInv'
  <1>1. /\ functors # <<>> /\ Head(functors).call = "connectEstablished"
        /\ aborted = None
    BY DEF ConnectEstablished, NextFunctor, AtRest
  <1>2. told = "nothing"
    <2>1. functors \in Seq(Functor)
      BY DEF ConnectionInv, TypeOK
    <2>2. 1 \in DOMAIN functors /\ Head(functors) = functors[1]
      BY <1>1, <2>1, LenProperties, EmptySeq
    <2>3. QED
      BY <1>1, <2>2 DEF ConnectionInv, LifeInv
  <1>3. CASE connected
    <2>1. Abort("TcpConnection.cc:63") /\ UNCHANGED <<socket, unsent, accepted>>
      BY <1>3 DEF ConnectEstablished
    <2>2. aborted' = "TcpConnection.cc:63" /\ told' = "nothing"
      BY <1>2, <2>1 DEF Abort
    <2>3. AbortsExplained'
      BY <2>2 DEF AbortsExplained
    <2>4. QED
      BY <2>1, <2>3, AbortInv DEF Assertions
  <1>4. CASE ~connected
    <2>1. /\ Done
          /\ state_' = "kConnected" /\ events' = events \cup {"read"} /\ registered' = "yes"
          /\ told' = "up" /\ inCallback' = TRUE
          /\ UNCHANGED <<muted, outputBuffer_, sent, wrShut, peer, revents, hungUp, sameLoop,
                         inMap, removing, threadPc, unsent, accepted, aborted>>
      BY <1>4 DEF ConnectEstablished, socket, server
    <2>2. TypeOK /\ BeforeInv /\ TeardownInv
      BY DEF ConnectionInv
    <2>3. /\ functors = <<Bind("connectEstablished")>>
          /\ events = {} /\ revents = {} /\ outputBuffer_ = <<>>
      BY <1>2, <2>2 DEF BeforeInv
    <2>4. functors' = <<>>
      BY <2>1, <2>3 DEF Done
    <2>5. Destroying' = {} /\ \A call : ~Queued(call)'
      BY <2>4 DEF Destroying, Queued
    <2>6. ~muted
      BY <1>2, <2>2 DEF TeardownInv
    <2>7. TypeOK'
      BY <2>1, <2>2, <2>4, EmptySeq DEF TypeOK, StateE
    <2>8. BeforeInv' /\ LifeInv' /\ SenderInv'
      BY <2>1, <2>3, <2>4, <2>6 DEF BeforeInv, LifeInv, SenderInv
    <2>9. TeardownInv'
      BY <2>1, <2>2, <2>5, <2>6 DEF TeardownInv
    <2>10. WritingWhileBuffered'
      BY <2>1, <2>3 DEF WritingWhileBuffered, isWriting
    <2>11. AbortsExplained'
      BY <1>1, <2>1 DEF AbortsExplained, None
    <2>12. QED
      BY <2>7, <2>8, <2>9, <2>10, <2>11 DEF ConnectionInv
  <1>5. QED
    BY <1>3, <1>4

\* A functor other than connectEstablished() runs after it.
LEMMA RunsAfter ==
  ASSUME ConnectionInv, functors # <<>>, Head(functors).call # "connectEstablished"
  PROVE  told # "nothing"
  BY Functors DEF ConnectionInv, BeforeInv

LEMMA ConnectDistroyedInv ==
  ASSUME ConnectionInv, ConnectDistroyed
  PROVE  ConnectionInv'
  <1>1. /\ functors # <<>> /\ Head(functors).call = "connectDistroyed"
        /\ aborted = None /\ revents = {}
    BY DEF ConnectDistroyed, NextFunctor, AtRest
  <1>2. Destroying # {} /\ TypeOK /\ LifeInv /\ TeardownInv /\ SenderInv
    <2>1. functors \in Seq(Functor)
      BY DEF ConnectionInv, TypeOK
    <2>2. 1 \in DOMAIN functors /\ Head(functors) = functors[1]
      BY <1>1, <2>1, LenProperties, EmptySeq
    <2>3. QED
      BY <1>1, <2>2 DEF ConnectionInv, Destroying
  <1>3. /\ muted /\ told = "up" /\ ~inMap
        /\ \A i, j \in Destroying : i = j
        /\ removing > 0 => hungUp
    BY <1>2 DEF TeardownInv, TypeOK
  <1>4. CASE ~connected
    <2>1. Abort("TcpConnection.cc:74") /\ UNCHANGED <<socket, unsent, accepted>>
      BY <1>4 DEF ConnectDistroyed
    <2>2. aborted' = "TcpConnection.cc:74" /\ told' = "up" /\ state_' = "kDisConnecting"
      BY <1>2, <1>3, <1>4, <2>1 DEF Abort, LifeInv, connected
    <2>3. AbortsExplained'
      BY <2>2 DEF AbortsExplained
    <2>4. QED
      BY <2>1, <2>3, AbortInv DEF Assertions
  <1>5. CASE connected
    <2>1. /\ Done
          /\ state_' = "kDisConnected" /\ events' = {} /\ muted' = TRUE
          /\ told' = "down" /\ registered' = "removed"
          /\ UNCHANGED <<outputBuffer_, sent, wrShut, peer, revents, hungUp, inCallback,
                         sameLoop, inMap, removing, threadPc, unsent, accepted, aborted>>
      BY <1>5 DEF ConnectDistroyed, disableAll, Unregister, socket, server
    <2>2. /\ functors' \in Seq(Functor)
          /\ \A call : Queued(call)' => Queued(call)
          /\ Destroying' = {}
      BY <1>1, <1>2, <1>3, <2>1, FunctorDone
    <2>3. TypeOK'
      BY <1>2, <2>1, <2>2 DEF TypeOK, StateE
    <2>4. LifeInv' /\ SenderInv'
      BY <1>1, <1>2, <1>3, <2>1, <2>2, InvAsQueued DEF LifeInv, SenderInv, Queued
    <2>5. BeforeInv' /\ TeardownInv' /\ WritingWhileBuffered'
      BY <1>3, <2>1, <2>2 DEF BeforeInv, TeardownInv, WritingWhileBuffered
    <2>6. AbortsExplained'
      BY <1>1, <2>1 DEF AbortsExplained, None
    <2>7. QED
      BY <2>3, <2>4, <2>5, <2>6 DEF ConnectionInv
  <1>6. QED
    BY <1>4, <1>5

LEMMA SendInLoopInv ==
  ASSUME ConnectionInv, SendInLoop
  PROVE  ConnectionInv'
  <1>1. /\ functors # <<>> /\ Head(functors).call = "sendInLoop"
        /\ aborted = None /\ Done
        /\ sendInLoop(Head(functors).msg)
        /\ UNCHANGED unsent
    BY DEF SendInLoop, NextFunctor, AtRest
  <1>2. TypeOK /\ TeardownInv /\ SenderInv
    BY DEF ConnectionInv
  <1>3. /\ functors' \in Seq(Functor)
        /\ Head(functors) \in Functor
        /\ Queued("sendInLoop")
        /\ \A call : Queued(call)' => Queued(call)
        /\ Destroying' = {} <=> Destroying = {}
        /\ \A i, j \in Destroying' : i = j
    BY <1>1, <1>2, FunctorDone DEF TeardownInv
  <1>4. Head(functors).msg \in Messages
    BY <1>1, <1>3, Functors
  <1>5. Threads # {}
    BY <1>2, <1>3, InvAsQueued
  <1>6. told # "nothing"
    BY <1>1, RunsAfter
  <1>7. unsent' \subseteq Messages
    BY <1>1, <1>2 DEF TypeOK
  <1>8. QED
    BY <1>1, <1>3, <1>4, <1>5, <1>6, <1>7, SendingInv

\* shutdownInLoop() and writeCompleteCallback_ change the socket and inCallback only.
LEMMA OtherFunctorsInv ==
  ASSUME ConnectionInv, ShutdownInLoop \/ WriteComplete
  PROVE  ConnectionInv'
  <1>1. /\ functors # <<>> /\ Done
        /\ Head(functors).call \in {"shutdownInLoop", "writeComplete"}
        /\ wrShut' \in BOOLEAN /\ inCallback' \in BOOLEAN
        /\ UNCHANGED <<state_, events, muted, registered, outputBuffer_, sent, peer>>
        /\ UNCHANGED <<revents, hungUp, sameLoop, inMap, removing, threadPc, unsent>>
        /\ UNCHANGED <<accepted, told, aborted>>
    BY DEF ShutdownInLoop, WriteComplete, NextFunctor, shutdownInLoop, ConnectionInv, TypeOK,
           channel, socket, server, app
  <1>2. TypeOK /\ TeardownInv /\ LifeInv /\ SenderInv
    BY DEF ConnectionInv
  <1>3. /\ functors' \in Seq(Functor)
        /\ \A call : Queued(call)' => Queued(call)
        /\ Destroying' = {} <=> Destroying = {}
        /\ \A i, j \in Destroying' : i = j
    BY <1>1, <1>2, FunctorDone DEF TeardownInv
  <1>4. told # "nothing"
    BY <1>1, RunsAfter
  <1>5. TypeOK'
    BY <1>1, <1>2, <1>3 DEF TypeOK
  <1>6. LifeInv' /\ SenderInv'
    BY <1>1, <1>2, <1>3, <1>4, InvAsQueued DEF LifeInv, SenderInv, Queued
  <1>7. BeforeInv' /\ TeardownInv'
    BY <1>1, <1>2, <1>3, <1>4 DEF BeforeInv, TeardownInv
  <1>8. WritingWhileBuffered' /\ AbortsExplained'
    BY <1>1 DEF ConnectionInv, WritingWhileBuffered, isWriting, AbortsExplained
  <1>9. QED
    BY <1>5, <1>6, <1>7, <1>8 DEF ConnectionInv

-----------------------------------------------------------------------------
(* The other steps.                                                         *)

\* A step that leaves the channel, the output, the queue and the teardown alone.
LEMMA QuietInv ==
  ASSUME ConnectionInv, aborted = None,
         UNCHANGED <<events, muted, registered, outputBuffer_, sent, functors>>,
         UNCHANGED <<sameLoop, inMap, removing, accepted, told, aborted>>,
         state_' \in StateE, wrShut' \in BOOLEAN, peer' \in {"open", "fin", "reset", "gone"},
         revents' \subseteq Calls, hungUp' \in BOOLEAN, inCallback' \in BOOLEAN,
         threadPc' \in [Threads -> ThreadPc], unsent' \subseteq Messages,
         told = "nothing" => UNCHANGED <<revents, inCallback, threadPc>>,
         told = "up" => state_' \in {"kConnected", "kDisConnecting"},
         told = "down" => state_' \in {"kDisConnected", "kDisConnecting"} /\ revents' = {},
         "close" \in revents' => ~muted,
         {"close", "read"} \subseteq revents' => hungUp',
         muted => UNCHANGED hungUp /\ ("read" \in revents' => hungUp)
  PROVE  ConnectionInv'
  <1>0. ~muted => inMap /\ removing = 0
    BY DEF ConnectionInv, TeardownInv
  <1>1. TypeOK'
    BY DEF ConnectionInv, TypeOK
  <1>2. BeforeInv' /\ LifeInv' /\ SenderInv' /\ TeardownInv'
    BY <1>0 DEF ConnectionInv, BeforeInv, LifeInv, SenderInv, TeardownInv, Destroying
  <1>3. WritingWhileBuffered'
    BY DEF ConnectionInv, WritingWhileBuffered, isWriting
  <1>4. AbortsExplained'
    BY DEF AbortsExplained, None
  <1>5. QED
    BY <1>1, <1>2, <1>3, <1>4 DEF ConnectionInv

LEMMA PollInv ==
  ASSUME ConnectionInv, NEW ready \in SUBSET Flags, Poll(ready)
  PROVE  ConnectionInv'
  <1>1. /\ aborted = None /\ registered = "yes" /\ ~muted /\ revents' = CallsFor(ready)
        /\ hungUp' \in BOOLEAN
        /\ UNCHANGED <<events, muted, registered, outputBuffer_, sent, functors>>
        /\ UNCHANGED <<sameLoop, inMap, removing, accepted, told, aborted>>
        /\ UNCHANGED <<state_, wrShut, peer, inCallback, threadPc, unsent>>
    BY DEF Poll, AtRest, channel, socket, server, app
  <1>2. told = "up"
    BY <1>1 DEF ConnectionInv, BeforeInv, LifeInv, TypeOK
  <1>3. CallsFor(ready) \subseteq Calls
    BY DEF CallsFor
  <1>4. {"close", "read"} \subseteq CallsFor(ready) => hungUp'
    <2>1. ASSUME "close" \in CallsFor(ready), "read" \in CallsFor(ready)
          PROVE  /\ "POLLHUP" \in ready /\ "POLLIN" \notin ready
                 /\ ready \cap {"POLLIN", "POLLRDHUP"} # {}
      BY <2>1 DEF CallsFor, HangsUp
    <2>2. QED
      BY <2>1 DEF Poll
  <1>5. QED
    BY <1>1, <1>2, <1>3, <1>4, QuietInv DEF ConnectionInv, TypeOK, LifeInv

\* Reading what is not a close, and taking the error.
LEMMA ReadInv ==
  ASSUME ConnectionInv, HandleMessage \/ HandleReadError \/ HandleError
  PROVE  ConnectionInv'
  <1>1. /\ aborted = None /\ revents # {} /\ revents' \subseteq revents
        /\ inCallback' \in BOOLEAN /\ peer' \in {"open", "fin", "reset", "gone"}
        /\ UNCHANGED <<events, muted, registered, outputBuffer_, sent, functors>>
        /\ UNCHANGED <<sameLoop, inMap, removing, accepted, told, aborted>>
        /\ UNCHANGED <<state_, wrShut, hungUp, threadPc, unsent>>
    BY DEF HandleMessage, HandleReadError, HandleError, Handling, channel, socket, server, app,
           ConnectionInv, TypeOK
  <1>2. told = "up"
    BY <1>1 DEF ConnectionInv, BeforeInv, LifeInv, TypeOK
  <1>3. QED
    BY <1>1, <1>2, QuietInv DEF ConnectionInv, TypeOK, LifeInv

LEMMA CallbackInv ==
  ASSUME ConnectionInv, CallbackShutsDown \/ CallbackReturns
  PROVE  ConnectionInv'
  <1>1. /\ aborted = None /\ inCallback
        /\ \/ UNCHANGED state_
           \/ state_ = "kConnected" /\ state_' = "kDisConnecting"
        /\ inCallback' \in BOOLEAN /\ wrShut' \in BOOLEAN
        /\ UNCHANGED <<events, muted, registered, outputBuffer_, sent, functors>>
        /\ UNCHANGED <<sameLoop, inMap, removing, accepted, told, aborted>>
        /\ UNCHANGED <<revents, hungUp, peer, threadPc, unsent>>
    BY DEF CallbackShutsDown, CallbackReturns, InCallback, connected, shutdownInLoop,
           channel, socket, loop, server, app, ConnectionInv, TypeOK
  <1>2. told # "nothing"
    BY <1>1 DEF ConnectionInv, BeforeInv
  <1>3. state_' \in StateE
    BY <1>1 DEF ConnectionInv, TypeOK, StateE
  <1>4. /\ told = "up" => state_' \in {"kConnected", "kDisConnecting"}
        /\ told = "down" => state_' \in {"kDisConnected", "kDisConnecting"} /\ revents' = {}
        /\ "close" \in revents' => ~muted
        /\ {"close", "read"} \subseteq revents' => hungUp'
        /\ muted => UNCHANGED hungUp /\ ("read" \in revents' => hungUp)
    BY <1>1 DEF ConnectionInv, LifeInv
  <1>5. QED
    BY <1>1, <1>2, <1>3, <1>4, QuietInv DEF ConnectionInv, TypeOK

LEMMA CallbackSendsInv ==
  ASSUME ConnectionInv, NEW m \in Messages, CallbackSends(m)
  PROVE  ConnectionInv'
  <1>1. /\ aborted = None /\ inCallback /\ state_ = "kConnected"
        /\ sendInLoop(m) /\ UNCHANGED functors /\ unsent' = unsent \ {m}
    BY DEF CallbackSends, InCallback, connected
  <1>2. told # "nothing" /\ told # "down"
    BY <1>1 DEF ConnectionInv, BeforeInv, LifeInv
  <1>3. functors' \in Seq(Functor) /\ unsent' \subseteq Messages
    BY <1>1 DEF ConnectionInv, TypeOK
  <1>4. /\ \A call : Queued(call)' => Queued(call)
        /\ Destroying' = {} <=> Destroying = {}
        /\ \A i, j \in Destroying' : i = j
    BY <1>1, QueueAsBefore DEF ConnectionInv, TeardownInv
  <1>5. QED
    BY <1>1, <1>2, <1>3, <1>4, SendingInv

\* Another thread enters send() or shutdown(), or sets state_.
LEMMA ThreadInv ==
  ASSUME ConnectionInv, NEW th \in Threads,
         \/ \E m \in Messages : ThreadSends(th, m)
         \/ ThreadShutsDown(th)
         \/ ThreadSetsState(th)
  PROVE  ConnectionInv'
  <1>1. PICK pc \in ThreadPc :
          /\ threadPc' = [threadPc EXCEPT ![th] = pc]
          /\ told # "nothing" \/ threadPc[th].at # "idle"
          /\ UNCHANGED state_ \/ state_' = "kDisConnecting"
          /\ unsent' \subseteq Messages
          /\ aborted = None
          /\ UNCHANGED <<events, muted, registered, outputBuffer_, sent, functors>>
          /\ UNCHANGED <<sameLoop, inMap, removing, accepted, told, aborted>>
          /\ UNCHANGED <<revents, hungUp, peer, wrShut, inCallback>>
    <2>1. /\ At("setState") \in ThreadPc /\ At("shutdown") \in ThreadPc
          /\ \A m \in Messages : [at |-> "send", msg |-> m] \in ThreadPc
      BY DEF At, ThreadPc
    <2>2. CASE \E m \in Messages : ThreadSends(th, m)
      <3>1. PICK m \in Messages : ThreadSends(th, m)
        BY <2>2
      <3>2. unsent' \subseteq Messages
        BY <3>1 DEF ThreadSends, ConnectionInv, TypeOK
      <3>3. QED
        BY <2>1, <3>1, <3>2 DEF ThreadSends, ThreadAt, Goto, channel, socket, loop, server
    <2>3. CASE ThreadShutsDown(th)
      <3>1. unsent' \subseteq Messages
        BY <2>3 DEF ThreadShutsDown, app, ConnectionInv, TypeOK
      <3>2. QED
        BY <2>1, <2>3, <3>1 DEF ThreadShutsDown, ThreadAt, Goto, channel, socket, loop, server, app
    <2>4. CASE ThreadSetsState(th)
      <3>1. unsent' \subseteq Messages
        BY <2>4 DEF ThreadSetsState, app, ConnectionInv, TypeOK
      <3>2. QED
        BY <2>1, <2>4, <3>1 DEF ThreadSetsState, ThreadAt, Goto, channel, socket, loop, server, app
    <2>5. QED
      BY <2>2, <2>3, <2>4
  <1>2. told # "nothing"
    BY <1>1 DEF ConnectionInv, BeforeInv
  <1>3. threadPc' \in [Threads -> ThreadPc]
    BY <1>1 DEF ConnectionInv, TypeOK
  <1>4. /\ state_' \in StateE
        /\ told = "up" => state_' \in {"kConnected", "kDisConnecting"}
        /\ told = "down" => state_' \in {"kDisConnected", "kDisConnecting"} /\ revents' = {}
        /\ "close" \in revents' => ~muted
        /\ {"close", "read"} \subseteq revents' => hungUp'
        /\ muted => UNCHANGED hungUp /\ ("read" \in revents' => hungUp)
    BY <1>1 DEF ConnectionInv, LifeInv, TypeOK, StateE
  <1>5. QED
    BY <1>1, <1>2, <1>3, <1>4, QuietInv DEF ConnectionInv, TypeOK

\* Another thread queues its functor.
LEMMA ThreadQueuesInv ==
  ASSUME ConnectionInv, NEW th \in Threads, ThreadQueuesSend(th) \/ ThreadQueuesShutdown(th)
  PROVE  ConnectionInv'
  <1>1. PICK f \in Functor :
          /\ functors' = Append(functors, f)
          /\ f.call \in {"sendInLoop", "shutdownInLoop"}
          /\ threadPc' = [threadPc EXCEPT ![th] = At("idle")]
          /\ threadPc[th].at # "idle"
          /\ UNCHANGED <<state_, events, muted, registered, outputBuffer_, sent, wrShut, peer>>
          /\ UNCHANGED <<revents, hungUp, inCallback, sameLoop, inMap, removing>>
          /\ UNCHANGED <<unsent, accepted, told, aborted>>
    <2>1. CASE ThreadQueuesSend(th)
      <3>1. threadPc[th] \in ThreadPc /\ threadPc[th].at = "send"
        BY <2>1 DEF ThreadQueuesSend, ThreadAt, ConnectionInv, TypeOK
      <3>2. threadPc[th].msg \in Messages
        BY <3>1 DEF ThreadPc
      <3>3. QED
        BY <2>1, <3>1, <3>2, Functors DEF ThreadQueuesSend, Goto, channel, socket, server, app
    <2>2. CASE ThreadQueuesShutdown(th)
      BY <2>2, Functors DEF ThreadQueuesShutdown, ThreadAt, Goto, channel, socket, server, app
    <2>3. QED
      BY <2>1, <2>2
  <1>2. TypeOK /\ LifeInv /\ SenderInv /\ TeardownInv
    BY DEF ConnectionInv
  <1>3. told # "nothing"
    BY <1>1 DEF ConnectionInv, BeforeInv
  <1>4. /\ functors' \in Seq(Functor)
        /\ Destroying' = Destroying
        /\ \A call : Queued(call)' <=> Queued(call) \/ f.call = call
    BY <1>1, <1>2, FunctorQueued
  <1>5. TypeOK'
    <2>1. At("idle") \in ThreadPc
      BY DEF At, ThreadPc
    <2>2. threadPc' \in [Threads -> ThreadPc]
      BY <1>1, <1>2, <2>1 DEF TypeOK
    <2>3. QED
      BY <1>1, <1>2, <1>4, <2>2 DEF TypeOK
  <1>6. LifeInv' /\ SenderInv'
    BY <1>1, <1>2, <1>3, <1>4, InvAsQueued DEF LifeInv, SenderInv, Queued
  <1>7. BeforeInv' /\ TeardownInv'
    BY <1>1, <1>2, <1>3, <1>4 DEF BeforeInv, TeardownInv
  <1>8. WritingWhileBuffered' /\ AbortsExplained'
    BY <1>1 DEF ConnectionInv, WritingWhileBuffered, isWriting, AbortsExplained
  <1>9. QED
    BY <1>5, <1>6, <1>7, <1>8 DEF ConnectionInv

\* The connection is taken out of the map: connectDistroyed() is queued.
LEMMA Removed ==
  ASSUME ConnectionInv, inMap, removeConnectionInLoop, told # "nothing", Destroying = {}
  PROVE  /\ ~inMap' /\ aborted' = aborted
         /\ functors' \in Seq(Functor)
         /\ Destroying' # {}
         /\ \A i, j \in Destroying' : i = j
         /\ \A call : Queued(call)' <=> Queued(call) \/ "connectDistroyed" = call
  <1>1. /\ inMap' = FALSE /\ aborted' = aborted
        /\ functors' = Append(functors, Bind("connectDistroyed"))
    BY DEF removeConnectionInLoop
  <1>2. Bind("connectDistroyed") \in Functor /\ Bind("connectDistroyed").call = "connectDistroyed"
    BY Functors
  <1>3. QED
    BY <1>1, <1>2, FunctorQueued DEF ConnectionInv

\* Only the event that is closed twice asks the server to forget the connection again,
\* and the server's assertion fails.
LEMMA RemovedTwice ==
  ASSUME ConnectionInv, ~inMap, removeConnectionInLoop
  PROVE  /\ UNCHANGED <<inMap, functors>>
         /\ aborted' = "TcpServer.cc:73"
         /\ Destroying' = Destroying
         /\ \A call : Queued(call)' <=> Queued(call)
  <1>1. UNCHANGED <<inMap, functors>> /\ aborted' = "TcpServer.cc:73"
    BY DEF removeConnectionInLoop
  <1>2. QED
    BY <1>1, QueueAsBefore

LEMMA HandleCloseInv ==
  ASSUME ConnectionInv, HandleHangUp \/ HandleClose
  PROVE  ConnectionInv'
  <1>1. PICK call \in {"close", "read"} : Handling(call) /\ handleClose(call)
    BY DEF HandleHangUp, HandleClose
  <1>2. aborted = None /\ call \in revents /\ (call = "read" => "close" \notin revents)
    BY <1>1 DEF Handling, Before
  <1>3. TypeOK /\ LifeInv /\ SenderInv /\ TeardownInv /\ BeforeInv
    BY DEF ConnectionInv
  <1>4. /\ told = "up" /\ registered = "yes"
        /\ muted => hungUp
        /\ "read" \in revents \ {call} => hungUp
        /\ "close" \notin revents \ {call}
    BY <1>2, <1>3 DEF BeforeInv, LifeInv, TypeOK
  <1>5. CASE ~connected
    <2>1. Abort("TcpConnection.cc:148") /\ UNCHANGED <<socket, unsent, accepted>>
      BY <1>1, <1>5 DEF handleClose
    <2>2. aborted' = "TcpConnection.cc:148" /\ told' = "up" /\ state_' = "kDisConnecting"
      BY <1>3, <1>4, <1>5, <2>1 DEF Abort, LifeInv, connected
    <2>3. AbortsExplained'
      BY <2>2 DEF AbortsExplained
    <2>4. QED
      BY <2>1, <2>3, AbortInv DEF Assertions
  <1>6. CASE connected
    <2>1. /\ events' = {} /\ muted' = TRUE
          /\ revents' = revents \ {call}
          /\ removeConnection
          /\ UNCHANGED <<state_, sameLoop, registered, outputBuffer_, hungUp, inCallback>>
          /\ UNCHANGED <<threadPc, told, sent, wrShut, peer, unsent, accepted>>
      BY <1>1, <1>6 DEF handleClose, disableAll, socket
    <2>2. /\ aborted' = IF sameLoop /\ ~inMap THEN "TcpServer.cc:73" ELSE None
          /\ aborted' # None => ~inMap' /\ hungUp
          /\ functors' \in Seq(Functor)
          /\ \A i, j \in Destroying' : i = j
          /\ \A other : Queued(other)' => Queued(other) \/ "connectDistroyed" = other
          /\ inMap' \in BOOLEAN /\ removing' \in Nat
          /\ \/ Destroying' # {} /\ ~inMap'
             \/ Destroying' = {} /\ inMap' /\ removing' > 0
          /\ removing' > (IF inMap' THEN 1 ELSE 0) => hungUp
      <3>1. /\ removing \in Nat /\ inMap \in BOOLEAN /\ functors \in Seq(Functor)
            /\ \A i, j \in Destroying : i = j
            /\ \/ Destroying # {} /\ ~inMap
               \/ Destroying = {} /\ inMap
            /\ ~inMap => muted
            /\ ~muted => removing = 0 /\ inMap
            /\ removing > (IF inMap THEN 1 ELSE 0) => hungUp
        BY <1>3, <1>4 DEF TypeOK, TeardownInv
      <3>2. CASE sameLoop /\ inMap
        <4>1. removeConnectionInLoop /\ UNCHANGED removing
          BY <2>1, <3>2 DEF removeConnection
        <4>2. removing > 0 => muted
          BY <3>1
        <4>3. QED
          BY <1>2, <1>4, <3>1, <3>2, <4>1, <4>2, Removed DEF removeConnectionInLoop
      <3>3. CASE sameLoop /\ ~inMap
        <4>1. removeConnectionInLoop /\ UNCHANGED removing
          BY <2>1, <3>3 DEF removeConnection
        <4>2. QED
          BY <1>4, <3>1, <3>3, <4>1, RemovedTwice DEF None
      <3>4. CASE ~sameLoop
        <4>1. removing' = removing + 1 /\ UNCHANGED <<functors, inMap, aborted>>
          BY <2>1, <3>4 DEF removeConnection
        <4>2. QED
          BY <1>2, <1>4, <3>1, <3>4, <4>1, QueueAsBefore
      <3>5. QED
        BY <3>1, <3>2, <3>3, <3>4
    <2>3. TypeOK'
      <3>1. /\ aborted' \in Assertions \cup {None}
            /\ functors' \in Seq(Functor) /\ inMap' \in BOOLEAN /\ removing' \in Nat
        BY <2>2 DEF Assertions
      <3>2. revents' \subseteq Calls /\ events' \subseteq {"read", "write"} /\ muted' \in BOOLEAN
        BY <1>3, <2>1 DEF TypeOK
      <3>3. QED
        BY <1>3, <2>1, <3>1, <3>2 DEF TypeOK
    <2>4. LifeInv' /\ SenderInv'
      <3>1. /\ ~Queued("connectEstablished")'
            /\ Queued("sendInLoop")' => Threads # {}
        BY <1>3, <1>4, <2>2, InvAsQueued
      <3>2. "close" \notin revents' /\ ("read" \in revents' => hungUp')
        BY <1>4, <2>1
      <3>3. state_' \in {"kConnected", "kDisConnecting"} /\ registered' = "yes" /\ told' = "up"
        BY <1>3, <1>4, <2>1 DEF LifeInv
      <3>4. QED
        BY <3>1, <3>2, <3>3 DEF LifeInv, SenderInv, Queued
    <2>5. BeforeInv' /\ TeardownInv' /\ WritingWhileBuffered'
      BY <1>4, <2>1, <2>2 DEF BeforeInv, TeardownInv, WritingWhileBuffered
    <2>6. AbortsExplained'
      BY <2>1, <2>2 DEF AbortsExplained, None
    <2>7. QED
      BY <2>3, <2>4, <2>5, <2>6 DEF ConnectionInv
  <1>7. QED
    BY <1>5, <1>6

LEMMA BaseLoopRemovesInv ==
  ASSUME ConnectionInv, BaseLoopRemoves
  PROVE  ConnectionInv'
  <1>1. /\ aborted = None /\ removing > 0 /\ removing' = removing - 1
        /\ removeConnectionInLoop
        /\ UNCHANGED <<state_, sameLoop, events, muted, registered, outputBuffer_, sent>>
        /\ UNCHANGED <<wrShut, peer, revents, hungUp, inCallback, threadPc, unsent>>
        /\ UNCHANGED <<accepted, told>>
    BY DEF BaseLoopRemoves, channel, socket, app
  <1>2. TypeOK /\ LifeInv /\ SenderInv /\ TeardownInv
    BY DEF ConnectionInv
  <1>3. removing \in Nat /\ removing' \in Nat
    BY <1>1, <1>2 DEF TypeOK
  <1>4. muted /\ told # "nothing"
    <2>1. muted
      BY <1>1, <1>2, <1>3 DEF TeardownInv, TypeOK
    <2>2. QED
      BY <1>2, <2>1 DEF TeardownInv
  <1>5. /\ functors' \in Seq(Functor)
        /\ \A call : Queued(call)' => Queued(call) \/ "connectDistroyed" = call
        /\ aborted' = IF inMap THEN None ELSE "TcpServer.cc:73"
        /\ ~inMap' /\ inMap' \in BOOLEAN
        /\ ~inMap => hungUp
        /\ removing' > 0 => hungUp
        /\ \A i, j \in Destroying' : i = j
        /\ \/ Destroying' # {} /\ told = "up"
           \/ Destroying' = {} /\ told = "down"
    <2>1. CASE inMap
      <3>1. told = "up" /\ Destroying = {} /\ (removing > 1 => hungUp)
        BY <1>2, <1>4, <2>1 DEF TeardownInv
      <3>2. removing' > 0 => removing > 1
        BY <1>1, <1>3
      <3>3. /\ ~inMap' /\ aborted' = aborted
            /\ functors' \in Seq(Functor)
            /\ Destroying' # {}
            /\ \A i, j \in Destroying' : i = j
            /\ \A call : Queued(call)' <=> Queued(call) \/ "connectDistroyed" = call
        BY <1>1, <1>4, <2>1, <3>1, Removed
      <3>4. inMap' \in BOOLEAN
        BY <1>1, <2>1 DEF removeConnectionInLoop
      <3>5. QED
        BY <1>1, <2>1, <3>1, <3>2, <3>3, <3>4
    <2>2. CASE ~inMap
      <3>1. /\ hungUp
            /\ \A i, j \in Destroying : i = j
            /\ \/ Destroying # {} /\ told = "up"
               \/ Destroying = {} /\ told = "down"
        BY <1>1, <1>2, <1>4, <2>2 DEF TeardownInv
      <3>2. QED
        BY <1>1, <1>2, <2>2, <3>1, RemovedTwice DEF TypeOK
    <2>3. QED
      BY <1>2, <2>1, <2>2 DEF TypeOK
  <1>6. TypeOK'
    BY <1>1, <1>2, <1>3, <1>5 DEF TypeOK, Assertions
  <1>7. LifeInv' /\ SenderInv'
    BY <1>1, <1>2, <1>4, <1>5, InvAsQueued DEF LifeInv, SenderInv, Queued
  <1>8. BeforeInv' /\ TeardownInv'
    BY <1>1, <1>4, <1>5 DEF BeforeInv, TeardownInv
  <1>9. WritingWhileBuffered'
    BY <1>1, <1>4 DEF WritingWhileBuffered
  <1>10. AbortsExplained'
    BY <1>1, <1>4, <1>5 DEF AbortsExplained, None
  <1>11. QED
    BY <1>6, <1>7, <1>8, <1>9, <1>10 DEF ConnectionInv

\* handleWrite() writes part of the output, all of it, or nothing.
LEMMA Written ==
  ASSUME TypeOK, NEW k \in 0..Len(outputBuffer_)
  PROVE  /\ SubSeq(outputBuffer_, 1, k) \in Seq(Bytes)
         /\ SubSeq(outputBuffer_, k + 1, Len(outputBuffer_)) \in Seq(Bytes)
         /\ k < Len(outputBuffer_) => SubSeq(outputBuffer_, k + 1, Len(outputBuffer_)) # <<>>
         /\ SubSeq(outputBuffer_, 1, k) \o SubSeq(outputBuffer_, k + 1, Len(outputBuffer_))
              = outputBuffer_
         /\ k = Len(outputBuffer_) => SubSeq(outputBuffer_, 1, k) = outputBuffer_
         /\ k = 0 => SubSeq(outputBuffer_, 1, k) = <<>>
  <1>1. outputBuffer_ \in Seq(Bytes)
    BY DEF TypeOK
  <1>2. QED
    BY <1>1, Cut

LEMMA HandleWriteInv ==
  ASSUME ConnectionInv, HandleWrite
  PROVE  ConnectionInv'
  <1>1. TypeOK /\ LifeInv /\ SenderInv /\ TeardownInv /\ BeforeInv /\ WritingWhileBuffered
    BY DEF ConnectionInv
  <1>2. /\ aborted = None /\ revents # {} /\ revents' = {}
        /\ UNCHANGED <<state_, muted, registered, peer, inCallback, sameLoop, inMap, removing>>
        /\ UNCHANGED <<hungUp, threadPc, unsent, accepted, told, aborted>>
    BY DEF HandleWrite, Handling, server, app
  <1>3. told = "up" /\ registered = "yes"
    BY <1>1, <1>2 DEF BeforeInv, LifeInv, TypeOK
  <1>4. PICK k \in IF CanWrite THEN 1..Len(outputBuffer_) ELSE {0} :
          /\ sent' = sent \o SubSeq(outputBuffer_, 1, k)
          /\ \/ /\ isWriting /\ k = Len(outputBuffer_)
                /\ outputBuffer_' = <<>>
                /\ disableWriting
                /\ functors' = Append(functors, Bind("writeComplete"))
                /\ shutdownIfDisConnecting
             \/ /\ isWriting /\ k < Len(outputBuffer_)
                /\ outputBuffer_' = SubSeq(outputBuffer_, k + 1, Len(outputBuffer_))
                /\ UNCHANGED <<events, functors, wrShut>>
             \/ /\ ~isWriting
                /\ UNCHANGED <<outputBuffer_, events, functors, wrShut>>
    BY DEF HandleWrite
  <1>5. Len(outputBuffer_) \in Nat
    BY <1>1, LenProperties DEF TypeOK
  <1>6. k \in 0..Len(outputBuffer_)
    BY <1>4, <1>5
  <1>7. sent' \in Seq(Bytes)
    BY <1>1, <1>4, <1>6, Written, ConcatProperties DEF TypeOK
  <1>8. \/ /\ outputBuffer_' = <<>>
           /\ events' = events \ {"write"}
           /\ functors' = Append(functors, Bind("writeComplete"))
           /\ wrShut' \in BOOLEAN
        \/ /\ isWriting
           /\ outputBuffer_' \in Seq(Bytes) /\ outputBuffer_' # <<>>
           /\ UNCHANGED <<events, functors, wrShut>>
        \/ UNCHANGED <<outputBuffer_, events, functors, wrShut>>
    BY <1>1, <1>4, <1>6, Written DEF disableWriting, shutdownIfDisConnecting, TypeOK
  <1>9. /\ functors' \in Seq(Functor)
        /\ Destroying' = Destroying
        /\ \A call : Queued(call)' => Queued(call) \/ call = "writeComplete"
    <2>1. CASE functors' = Append(functors, Bind("writeComplete"))
      BY <1>1, <2>1, Functors, FunctorQueued
    <2>2. CASE UNCHANGED functors
      BY <1>1, <2>2, QueueAsBefore DEF TypeOK
    <2>3. QED
      BY <1>8, <2>1, <2>2
  <1>10. TypeOK'
    <2>1. /\ events' \subseteq {"read", "write"}
          /\ outputBuffer_' \in Seq(Bytes)
          /\ wrShut' \in BOOLEAN
          /\ revents' \subseteq Calls
      BY <1>1, <1>2, <1>8, EmptySeq DEF TypeOK
    <2>2. QED
      BY <1>1, <1>2, <1>7, <1>9, <2>1 DEF TypeOK
  <1>11. LifeInv' /\ SenderInv'
    BY <1>1, <1>2, <1>3, <1>9, InvAsQueued DEF LifeInv, SenderInv, Queued
  <1>12. BeforeInv' /\ TeardownInv'
    BY <1>1, <1>2, <1>3, <1>9 DEF BeforeInv, TeardownInv
  <1>13. WritingWhileBuffered'
    BY <1>1, <1>2, <1>8 DEF WritingWhileBuffered, isWriting
  <1>14. AbortsExplained'
    BY <1>2 DEF AbortsExplained, None
  <1>15. QED
    BY <1>10, <1>11, <1>12, <1>13, <1>14 DEF ConnectionInv

LEMMA PeerClosesInv ==
  ASSUME ConnectionInv, PeerCloses
  PROVE  ConnectionInv'
  <1>1. /\ aborted = None /\ peer' \in {"fin", "reset"}
        /\ UNCHANGED <<events, muted, registered, outputBuffer_, sent, functors>>
        /\ UNCHANGED <<sameLoop, inMap, removing, accepted, told, aborted>>
        /\ UNCHANGED <<state_, wrShut, revents, hungUp, inCallback, threadPc, unsent>>
    BY DEF PeerCloses, channel, loop, server, app
  <1>2. QED
    BY <1>1, QuietInv DEF ConnectionInv, TypeOK, LifeInv

LEMMA StepInv == ConnectionInv /\ [Next]_vars => ConnectionInv'
  <1> SUFFICES ASSUME ConnectionInv, [Next]_vars PROVE ConnectionInv'
    OBVIOUS
  <1>1. CASE RunFunctor
    BY <1>1, ConnectEstablishedInv, ConnectDistroyedInv, SendInLoopInv, OtherFunctorsInv
    DEF RunFunctor
  <1>2. CASE \E ready \in SUBSET Flags : Poll(ready)
    BY <1>2, PollInv
  <1>3. CASE HandleMessage
    BY <1>3, ReadInv
  <1>4. CASE HandleEvent
    BY <1>4, ReadInv, HandleCloseInv, HandleWriteInv DEF HandleEvent
  <1>5. CASE \E m \in Messages : CallbackSends(m)
    BY <1>5, CallbackSendsInv
  <1>6. CASE CallbackShutsDown \/ CallbackReturns
    BY <1>6, CallbackInv
  <1>7. ASSUME NEW th \in Threads,
               \/ \E m \in Messages : ThreadSends(th, m)
               \/ ThreadShutsDown(th)
               \/ ThreadStep(th)
        PROVE  ConnectionInv'
    BY <1>7, ThreadInv, ThreadQueuesInv DEF ThreadStep
  <1>8. CASE BaseLoopRemoves
    BY <1>8, BaseLoopRemovesInv
  <1>9. CASE PeerCloses
    BY <1>9, PeerClosesInv
  <1>10. CASE UNCHANGED vars
    <2>1. /\ UNCHANGED <<state_, events, muted, registered, outputBuffer_, sent, wrShut, peer>>
          /\ UNCHANGED <<functors, revents, hungUp, inCallback, sameLoop, inMap, removing>>
          /\ UNCHANGED <<threadPc, unsent, accepted, told, aborted>>
      BY <1>10 DEF vars, channel, socket, loop, server, app
    <2>2. TypeOK'
      BY <2>1 DEF ConnectionInv, TypeOK
    <2>3. BeforeInv' /\ LifeInv' /\ SenderInv' /\ TeardownInv'
      BY <2>1 DEF ConnectionInv, BeforeInv, LifeInv, SenderInv, TeardownInv, Destroying
    <2>4. WritingWhileBuffered' /\ AbortsExplained'
      BY <2>1 DEF ConnectionInv, WritingWhileBuffered, isWriting, AbortsExplained
    <2>5. QED
      BY <2>2, <2>3, <2>4 DEF ConnectionInv
  <1>11. QED
    BY <1>1, <1>2, <1>3, <1>4, <1>5, <1>6, <1>7, <1>8, <1>9, <1>10 DEF Next

LEMMA Invariance == Spec => []ConnectionInv
  BY InitInv, StepInv, PTL DEF Spec

-----------------------------------------------------------------------------
(* The stream: what was sent and what is buffered are the messages sendInLoop() took, *)
(* one after the other.                                                     *)

\* What \div and % say of the place of a byte.
LEMMA Places ==
  ASSUME NEW L \in Nat \ {0}, NEW n \in Nat
  PROVE  /\ n * L \in Nat /\ (n + 1) * L = n * L + L
         /\ \A i \in 0..(n * L - 1) : i \div L \in 0..(n - 1) /\ i % L \in 0..(L - 1)
         /\ \A r \in 0..(L - 1) : (n * L + r) \div L = n /\ (n * L + r) % L = r
  <1>1. n * L \in Nat /\ (n + 1) * L = n * L + L
    OBVIOUS
  <1>2. ASSUME NEW i \in 0..(n * L - 1)
        PROVE  i \div L \in 0..(n - 1) /\ i % L \in 0..(L - 1)
    OBVIOUS
  <1>3. ASSUME NEW r \in 0..(L - 1)
        PROVE  (n * L + r) \div L = n /\ (n * L + r) % L = r
    OBVIOUS
  <1>4. QED
    BY <1>1, <1>2, <1>3

\* The messages of a, one after the other.
Joined(a) == [j \in 1..(Len(a) * Length) |->
                <<a[((j - 1) \div Length) + 1], ((j - 1) % Length) + 1>>]

LEMMA JoinedInSeq ==
  ASSUME NEW a \in Seq(Messages)
  PROVE  Joined(a) \in Seq(Bytes) /\ Len(Joined(a)) = Len(a) * Length
  <1>1. Length \in Nat \ {0} /\ Len(a) \in Nat
    BY TcpConnectionAssumption, LenProperties
  <1>2. Len(a) * Length \in Nat
    BY <1>1, Places
  <1>3. ASSUME NEW j \in 1..(Len(a) * Length)
        PROVE  <<a[((j - 1) \div Length) + 1], ((j - 1) % Length) + 1>> \in Bytes
    <2>1. j - 1 \in 0..(Len(a) * Length - 1)
      BY <1>2
    <2>2. (j - 1) \div Length \in 0..(Len(a) - 1) /\ (j - 1) % Length \in 0..(Length - 1)
      BY <1>1, <2>1, Places
    <2>3. ((j - 1) \div Length) + 1 \in 1..Len(a) /\ ((j - 1) % Length) + 1 \in 1..Length
      BY <1>1, <2>2
    <2>4. a[((j - 1) \div Length) + 1] \in Messages
      BY <2>3, ElementOfSeq
    <2>5. QED
      BY <2>3, <2>4 DEF Bytes
  <1>4. QED
    BY <1>2, <1>3, IsASeq DEF Joined

LEMMA JoinedGrows ==
  ASSUME NEW a \in Seq(Messages), NEW m \in Messages
  PROVE  Joined(Append(a, m)) = Joined(a) \o BytesOf(m)
  <1>1. Length \in Nat \ {0}
    BY TcpConnectionAssumption
  <1>2. PICK n \in Nat : n = Len(a)
    BY LenProperties
  <1>3. PICK b : b = Append(a, m)
    OBVIOUS
  <1>4. /\ b \in Seq(Messages) /\ Len(b) = n + 1
        /\ \A i \in 1..n : b[i] = a[i]
        /\ b[n + 1] = m
    BY <1>2, <1>3, AppendProperties
  <1>5. /\ n * Length \in Nat /\ (n + 1) * Length = n * Length + Length
        /\ \A i \in 0..(n * Length - 1) : i \div Length \in 0..(n - 1)
        /\ \A r \in 0..(Length - 1) : (n * Length + r) \div Length = n /\ (n * Length + r) % Length = r
    BY <1>1, Places
  <1>6. /\ Joined(a) \in Seq(Bytes) /\ Len(Joined(a)) = n * Length
        /\ Joined(b) \in Seq(Bytes) /\ Len(Joined(b)) = n * Length + Length
    BY <1>2, <1>4, <1>5, JoinedInSeq
  <1>7. BytesOf(m) \in Seq(Bytes) /\ Len(BytesOf(m)) = Length
    BY <1>1, Pieces
  <1>8. /\ Joined(a) \o BytesOf(m) \in Seq(Bytes)
        /\ Len(Joined(a) \o BytesOf(m)) = n * Length + Length
        /\ \A j \in 1..(n * Length + Length) :
             (Joined(a) \o BytesOf(m))[j] = IF j <= n * Length THEN Joined(a)[j]
                                            ELSE BytesOf(m)[j - n * Length]
    <2>1. /\ Joined(a) \o BytesOf(m) \in Seq(Bytes)
          /\ Len(Joined(a) \o BytesOf(m)) = Len(Joined(a)) + Len(BytesOf(m))
          /\ \A j \in 1..(Len(Joined(a)) + Len(BytesOf(m))) :
               (Joined(a) \o BytesOf(m))[j] = IF j <= Len(Joined(a)) THEN Joined(a)[j]
                                              ELSE BytesOf(m)[j - Len(Joined(a))]
      BY <1>6, <1>7, ConcatProperties
    <2>2. QED
      BY <1>6, <1>7, <2>1
  <1>9. ASSUME NEW j \in 1..(n * Length + Length)
        PROVE  Joined(b)[j] = (Joined(a) \o BytesOf(m))[j]
    <2>1. Joined(b)[j] = <<b[((j - 1) \div Length) + 1], ((j - 1) % Length) + 1>>
      BY <1>4, <1>5 DEF Joined
    <2>2. CASE j <= n * Length
      <3>1. j \in 1..(n * Length) /\ j - 1 \in 0..(n * Length - 1)
        BY <1>5, <2>2
      <3>2. Joined(a)[j] = <<a[((j - 1) \div Length) + 1], ((j - 1) % Length) + 1>>
        BY <1>2, <3>1 DEF Joined
      <3>3. ((j - 1) \div Length) + 1 \in 1..n
        BY <1>5, <3>1
      <3>4. QED
        BY <1>4, <1>8, <2>1, <2>2, <3>2, <3>3
    <2>3. CASE ~(j <= n * Length)
      <3>1. PICK r \in 0..(Length - 1) : j - 1 = n * Length + r /\ j - n * Length = r + 1
        <4>1. j - 1 - n * Length \in 0..(Length - 1)
          BY <1>1, <1>5, <2>3
        <4>2. QED
          BY <1>1, <1>5, <4>1
      <3>2. (j - 1) \div Length = n /\ (j - 1) % Length = r
        BY <1>5, <3>1
      <3>3. BytesOf(m)[r + 1] = <<m, r + 1>>
        BY <1>1, <3>1 DEF BytesOf
      <3>4. QED
        BY <1>4, <1>8, <2>1, <2>3, <3>1, <3>2, <3>3
    <2>4. QED
      BY <2>2, <2>3
  <1>10. QED
    BY <1>3, <1>6, <1>8, <1>9, SeqEqual

\* A prefix and what follows it.
LEMMA PrefixAndRest ==
  ASSUME NEW s \in Seq(Bytes), NEW t \in Seq(Bytes)
  PROVE  IsPrefix(s, t) <=> \E u \in Seq(Bytes) : t = s \o u
  <1>1. Len(s) \in Nat /\ Len(t) \in Nat
    BY LenProperties
  <1>2. ASSUME IsPrefix(s, t) PROVE \E u \in Seq(Bytes) : t = s \o u
    <2>1. Len(s) \in 0..Len(t) /\ SubSeq(t, 1, Len(s)) = s
      BY <1>1, <1>2, SubSeqFull DEF IsPrefix
    <2>2. /\ SubSeq(t, Len(s) + 1, Len(t)) \in Seq(Bytes)
          /\ SubSeq(t, 1, Len(s)) \o SubSeq(t, Len(s) + 1, Len(t)) = t
      BY <2>1, Cut
    <2>3. QED
      BY <2>1, <2>2
  <1>3. ASSUME NEW u \in Seq(Bytes), t = s \o u PROVE IsPrefix(s, t)
    <2>1. Len(s) <= Len(t)
      BY <1>1, <1>3, ConcatProperties, LenProperties
    <2>2. CASE s = <<>>
      BY <1>1, <2>1, <2>2, SubSeqEmpty DEF IsPrefix
    <2>3. CASE s # <<>>
      <3>1. 1 \in 1..Len(s) /\ Len(s) \in 1..Len(s)
        BY <1>1, <2>3, EmptySeq
      <3>2. SubSeq(t, 1, Len(s)) = SubSeq(s, 1, Len(s))
        BY <1>3, <3>1, SubSeqOfConcat1
      <3>3. QED
        BY <2>1, <3>2 DEF IsPrefix
    <2>4. QED
      BY <2>2, <2>3
  <1>4. QED
    BY <1>2, <1>3

LEMMA StreamGrows ==
  ASSUME TypeOK
  PROVE  /\ Stream \in Seq(Bytes)
         /\ \A m \in Messages : accepted' = Append(accepted, m) => Stream' = Stream \o BytesOf(m)
         /\ UNCHANGED accepted => UNCHANGED Stream
  <1>1. Stream = Joined(accepted) /\ Stream' = Joined(accepted')
    BY DEF Stream, Joined
  <1>2. accepted \in Seq(Messages)
    BY DEF TypeOK
  <1>3. QED
    BY <1>1, <1>2, JoinedInSeq, JoinedGrows

LEMMA InitStream == Init => StreamInv
  <1> SUFFICES ASSUME Init PROVE StreamInv
    OBVIOUS
  <1>1. TypeOK /\ sent = <<>> /\ outputBuffer_ = <<>> /\ accepted = <<>>
    BY InitInv DEF ConnectionInv, Init
  <1>2. Stream \in Seq(Bytes) /\ Len(Stream) = 0
    <2>1. Stream = Joined(accepted) /\ <<>> \in Seq(Messages)
      BY EmptySeq DEF Stream, Joined
    <2>2. Stream \in Seq(Bytes) /\ Len(Stream) = Len(<<>>) * Length
      BY <1>1, <2>1, JoinedInSeq
    <2>3. QED
      BY <2>2, TcpConnectionAssumption
  <1>3. Stream = <<>> /\ <<>> \in Seq(Bytes)
    BY <1>2, EmptySeq
  <1>4. sent \o outputBuffer_ = Stream
    BY <1>1, <1>3, ConcatEmptySeq
  <1>5. IsPrefix(sent, Stream)
    BY <1>1, <1>3, <1>4, PrefixAndRest
  <1>6. QED
    BY <1>4, <1>5 DEF StreamInv

\* Bytes after bytes.
LEMMA Parts ==
  ASSUME NEW s \in Seq(Bytes), NEW t \in Seq(Bytes), NEW u \in Seq(Bytes)
  PROVE  (s \o t) \o u = s \o (t \o u) /\ s \o t \in Seq(Bytes)
  BY ConcatAssociative, ConcatProperties

\* What follows sent in the stream only grows.
LEMMA PrefixGrows ==
  ASSUME NEW s \in Seq(Bytes), NEW t \in Seq(Bytes), NEW u \in Seq(Bytes), IsPrefix(s, t)
  PROVE  IsPrefix(s, t \o u)
  <1>1. PICK v \in Seq(Bytes) : t = s \o v
    BY PrefixAndRest
  <1>2. t \o u = s \o (v \o u) /\ v \o u \in Seq(Bytes) /\ t \o u \in Seq(Bytes)
    BY <1>1, ConcatAssociative, ConcatProperties
  <1>3. QED
    BY <1>2, PrefixAndRest

\* sendInLoop() appends the message to what was sent and what is buffered.
LEMMA SendingStream ==
  ASSUME ConnectionInv, StreamInv, NEW m \in Messages, sendInLoop(m), aborted = None
  PROVE  StreamInv'
  <1>1. Length \in Nat \ {0} /\ TypeOK
    BY TcpConnectionAssumption DEF ConnectionInv
  <1>2. PICK k \in IF WritesDirectly /\ CanWrite THEN 0..Length ELSE {0} :
          /\ accepted' = Append(accepted, m)
          /\ sent' = sent \o SubSeq(BytesOf(m), 1, k)
          /\ \/ k = Length /\ UNCHANGED <<outputBuffer_, aborted>>
             \/ k < Length /\ outputBuffer_' = outputBuffer_ \o Rest(m, k) /\ UNCHANGED aborted
             \/ k < Length /\ aborted' # None
          /\ UNCHANGED <<muted, revents>>
    <2>1. PICK k \in IF WritesDirectly /\ CanWrite THEN 0..Length ELSE {0} :
            /\ accepted' = Append(accepted, m)
            /\ sent' = sent \o SubSeq(BytesOf(m), 1, k)
            /\ \/ /\ k = Length
                  /\ inCallback' = TRUE
                  /\ UNCHANGED <<events, outputBuffer_, aborted>>
               \/ /\ k < Length
                  /\ registered = "yes"
                  /\ enableWriting
                  /\ outputBuffer_' = outputBuffer_ \o Rest(m, k)
                  /\ UNCHANGED <<inCallback, aborted>>
               \/ /\ k < Length
                  /\ registered = "removed"
                  /\ aborted' = "Poller.cc:68"
                  /\ UNCHANGED <<events, outputBuffer_, inCallback>>
            /\ UNCHANGED <<state_, muted, registered, wrShut, peer, revents, hungUp, server, threadPc, told>>
      BY DEF sendInLoop
    <2>2. QED
      BY <2>1 DEF None
  <1>3. /\ sent \in Seq(Bytes) /\ outputBuffer_ \in Seq(Bytes) /\ BytesOf(m) \in Seq(Bytes)
        /\ Stream \in Seq(Bytes) /\ Stream' = Stream \o BytesOf(m)
    <2>1. BytesOf(m) \in Seq(Bytes)
      BY <1>1, Pieces, 0 \in 0..Length
    <2>2. QED
      BY <1>1, <1>2, <2>1, StreamGrows DEF TypeOK
  <1>4. PICK p, q : p = SubSeq(BytesOf(m), 1, k) /\ q = Rest(m, k)
    OBVIOUS
  <1>5. /\ p \in Seq(Bytes) /\ q \in Seq(Bytes) /\ p \o q = BytesOf(m)
        /\ k = Length => p = BytesOf(m)
        /\ k < Length => q # <<>>
        /\ k = 0 => p = <<>> /\ q = BytesOf(m)
    <2>1. k \in 0..Length
      BY <1>1, <1>2
    <2>2. /\ SubSeq(BytesOf(m), 1, k) \in Seq(Bytes)
          /\ Rest(m, k) \in Seq(Bytes)
          /\ SubSeq(BytesOf(m), 1, k) \o Rest(m, k) = BytesOf(m)
          /\ k = Length => SubSeq(BytesOf(m), 1, k) = BytesOf(m)
          /\ k = 0 => SubSeq(BytesOf(m), 1, k) = <<>> /\ Rest(m, k) = BytesOf(m)
          /\ k < Length => Rest(m, k) # <<>>
      BY <2>1, Pieces
    <2>3. QED
      BY <1>4, <2>2
  <1>6. sent' = sent \o p
    BY <1>2, <1>4
  <1>7. CASE k = 0
    <2>1. sent' = sent
      BY <1>3, <1>5, <1>6, <1>7, ConcatEmptySeq
    <2>2. IsPrefix(sent', Stream')
      BY <1>3, <2>1, PrefixGrows DEF StreamInv
    <2>3. \/ /\ outputBuffer_' = outputBuffer_ \o BytesOf(m)
             /\ outputBuffer_' # <<>>
          \/ aborted' # None
      <3>1. outputBuffer_ \o q = <<>> => q = <<>>
        BY <1>3, <1>5, ConcatEqualIffEmpty
      <3>2. QED
        BY <1>1, <1>2, <1>4, <1>5, <1>7, <3>1
    <2>4. (sent \o outputBuffer_) \o BytesOf(m) = sent \o (outputBuffer_ \o BytesOf(m))
      BY <1>3, ConcatAssociative
    <2>5. QED
      BY <1>2, <1>3, <2>1, <2>2, <2>3, <2>4 DEF StreamInv
  <1>8. CASE k # 0
    <2>1. outputBuffer_ = <<>>
      BY <1>2, <1>8 DEF WritesDirectly
    <2>2. sent = Stream
      <3>1. sent \o outputBuffer_ = sent
        BY <1>3, <2>1, ConcatEmptySeq
      <3>2. QED
        BY <2>1, <3>1 DEF StreamInv
    <2>3. (sent \o p) \o q = Stream'
      <3>1. sent \in Seq(Bytes) /\ p \in Seq(Bytes) /\ q \in Seq(Bytes)
        BY <1>3, <1>5
      <3>2. (sent \o p) \o q = sent \o (p \o q)
        BY ONLY <3>1, Parts
      <3>3. QED
        BY <1>3, <1>5, <2>2, <3>2
    <2>4. sent \o p \in Seq(Bytes) /\ Stream' \in Seq(Bytes)
      BY <1>3, <1>5, ConcatProperties
    <2>5. IsPrefix(sent', Stream')
      BY <1>5, <1>6, <2>3, <2>4, PrefixAndRest
    <2>6. \/ UNCHANGED outputBuffer_ /\ p = BytesOf(m)
          \/ outputBuffer_' = outputBuffer_ \o q
          \/ aborted' # None
      BY <1>2, <1>4, <1>5
    <2>7. outputBuffer_ \o q = q
      BY <1>5, <2>1, ConcatEmptySeq
    <2>8. (sent \o p) \o <<>> = sent \o p
      BY <2>4, ConcatEmptySeq
    <2>9. QED
      BY <1>3, <1>6, <2>1, <2>2, <2>3, <2>5, <2>6, <2>7, <2>8 DEF StreamInv
  <1>9. QED
    BY <1>7, <1>8

\* handleWrite() moves bytes from the output to the socket; when isWriting() is false
\* they stay in the output as well.
LEMMA WritingStream ==
  ASSUME ConnectionInv, StreamInv, HandleWrite
  PROVE  StreamInv'
  <1>1. /\ aborted = None /\ "write" \in revents /\ revents' = {}
        /\ UNCHANGED <<muted, registered, accepted, aborted>>
    BY DEF HandleWrite, Handling, app
  <1>2. /\ sent \in Seq(Bytes) /\ outputBuffer_ \in Seq(Bytes) /\ Len(outputBuffer_) \in Nat
        /\ Stream \in Seq(Bytes) /\ Stream' = Stream /\ TypeOK
    BY <1>1, StreamGrows, LenProperties DEF ConnectionInv, TypeOK
  <1>3. sent \o outputBuffer_ = Stream
    BY <1>1 DEF StreamInv
  <1>4. PICK k \in IF CanWrite THEN 1..Len(outputBuffer_) ELSE {0} :
          /\ sent' = sent \o SubSeq(outputBuffer_, 1, k)
          /\ \/ k = Len(outputBuffer_) /\ outputBuffer_' = <<>>
             \/ outputBuffer_' = SubSeq(outputBuffer_, k + 1, Len(outputBuffer_))
             \/ ~isWriting /\ UNCHANGED outputBuffer_
    <2>1. PICK k \in IF CanWrite THEN 1..Len(outputBuffer_) ELSE {0} :
            /\ sent' = sent \o SubSeq(outputBuffer_, 1, k)
            /\ \/ /\ isWriting /\ k = Len(outputBuffer_)
                  /\ outputBuffer_' = <<>>
                  /\ disableWriting
                  /\ functors' = Append(functors, Bind("writeComplete"))
                  /\ shutdownIfDisConnecting
               \/ /\ isWriting /\ k < Len(outputBuffer_)
                  /\ outputBuffer_' = SubSeq(outputBuffer_, k + 1, Len(outputBuffer_))
                  /\ UNCHANGED <<events, functors, wrShut>>
               \/ /\ ~isWriting
                  /\ UNCHANGED <<outputBuffer_, events, functors, wrShut>>
      BY DEF HandleWrite
    <2>2. QED
      BY <2>1
  <1>5. k \in 0..Len(outputBuffer_)
    BY <1>2, <1>4
  <1>6. PICK p, q : /\ p = SubSeq(outputBuffer_, 1, k)
                    /\ q = SubSeq(outputBuffer_, k + 1, Len(outputBuffer_))
    OBVIOUS
  <1>7. /\ p \in Seq(Bytes) /\ q \in Seq(Bytes) /\ p \o q = outputBuffer_
        /\ k = Len(outputBuffer_) => p = outputBuffer_
        /\ k = 0 => p = <<>>
    <2>1. /\ SubSeq(outputBuffer_, 1, k) \in Seq(Bytes)
          /\ SubSeq(outputBuffer_, k + 1, Len(outputBuffer_)) \in Seq(Bytes)
          /\ SubSeq(outputBuffer_, 1, k) \o SubSeq(outputBuffer_, k + 1, Len(outputBuffer_))
               = outputBuffer_
          /\ k = Len(outputBuffer_) => SubSeq(outputBuffer_, 1, k) = outputBuffer_
          /\ k = 0 => SubSeq(outputBuffer_, 1, k) = <<>>
      BY <1>2, <1>5, Cut
    <2>2. QED
      BY <1>6, <2>1
  <1>8. (sent \o p) \o q = Stream /\ sent \o p \in Seq(Bytes)
    <2>1. sent \in Seq(Bytes) /\ p \in Seq(Bytes) /\ q \in Seq(Bytes)
      BY <1>2, <1>7
    <2>2. (sent \o p) \o q = sent \o (p \o q) /\ sent \o p \in Seq(Bytes)
      BY ONLY <2>1, Parts
    <2>3. QED
      BY <1>3, <1>7, <2>2
  <1>9. IsPrefix(sent', Stream')
    BY <1>2, <1>4, <1>6, <1>7, <1>8, PrefixAndRest
  <1>10. CASE k = Len(outputBuffer_) /\ outputBuffer_' = <<>>
    <2>1. sent' \o outputBuffer_' = sent'
      BY <1>4, <1>6, <1>8, <1>10, ConcatEmptySeq
    <2>2. QED
      BY <1>2, <1>3, <1>4, <1>6, <1>7, <1>9, <1>10, <2>1 DEF StreamInv
  <1>11. CASE outputBuffer_' = q
    BY <1>2, <1>4, <1>6, <1>8, <1>9, <1>11 DEF StreamInv
  <1>12. CASE ~isWriting /\ UNCHANGED outputBuffer_
    <2>1. CASE k = 0
      <3>1. sent' = sent
        BY <1>2, <1>4, <1>6, <1>7, <2>1, ConcatEmptySeq
      <3>2. QED
        BY <1>2, <1>3, <1>9, <1>12, <3>1 DEF StreamInv
    <2>2. CASE k # 0
      <3>1. outputBuffer_ # <<>>
        BY <1>2, <1>5, <2>2, EmptySeq
      <3>2. registered = "yes"
        BY <1>1 DEF ConnectionInv, TypeOK, BeforeInv, LifeInv
      <3>3. muted
        BY <1>12, <3>1, <3>2 DEF ConnectionInv, WritingWhileBuffered
      <3>4. QED
        BY <1>1, <1>9, <1>12, <3>1, <3>3 DEF StreamInv
    <2>3. QED
      BY <2>1, <2>2
  <1>13. QED
    BY <1>4, <1>6, <1>10, <1>11, <1>12

LEMMA StreamStep ==
  ASSUME ConnectionInv, StreamInv, [Next]_vars
  PROVE  StreamInv'
  <1>1. CASE HandleWrite
    BY <1>1, WritingStream
  <1>2. ASSUME NEW m \in Messages, CallbackSends(m) PROVE StreamInv'
    BY <1>2, SendingStream DEF CallbackSends, InCallback
  <1>3. CASE SendInLoop
    <2>1. /\ functors # <<>> /\ Head(functors).call = "sendInLoop"
          /\ aborted = None /\ Done
          /\ sendInLoop(Head(functors).msg)
      BY <1>3 DEF SendInLoop, NextFunctor, AtRest
    <2>2. Head(functors).msg \in Messages
      BY <2>1, FunctorDone, Functors DEF ConnectionInv
    <2>3. QED
      BY <2>1, <2>2, SendingStream
  <1>4. CASE ~HandleWrite /\ ~SendInLoop /\ ~(\E m \in Messages : CallbackSends(m))
    <2>1. /\ UNCHANGED <<sent, accepted, outputBuffer_>>
          /\ muted => muted'
          /\ revents' \subseteq revents \/ ~muted
          /\ aborted = None \/ UNCHANGED aborted
      <3>1. CASE UNCHANGED vars
        BY <3>1 DEF vars, channel, socket, loop, server, app
      <3>2. CASE RunFunctor
        BY <1>4, <3>2 DEF RunFunctor, ConnectEstablished, ConnectDistroyed, ShutdownInLoop, WriteComplete,
             NextFunctor, AtRest, Abort, disableAll, channel, socket, loop, app, None
      <3>3. CASE HandleEvent \/ HandleMessage
        BY <1>4, <3>3 DEF HandleEvent, HandleHangUp, HandleError, HandleMessage, HandleReadError,
             HandleClose, handleClose, Handling, Abort, disableAll, channel, socket, loop, app, None
      <3>4. CASE \E ready \in SUBSET Flags : Poll(ready)
        BY <3>4 DEF Poll, AtRest, channel, socket, app, None
      <3>5. CASE CallbackShutsDown \/ CallbackReturns \/ BaseLoopRemoves \/ PeerCloses
        BY <3>5 DEF CallbackShutsDown, CallbackReturns, BaseLoopRemoves, PeerCloses, InCallback,
             channel, socket, loop, app, None
      <3>6. ASSUME NEW th \in Threads,
                   \/ \E m \in Messages : ThreadSends(th, m)
                   \/ ThreadShutsDown(th)
                   \/ ThreadStep(th)
            PROVE  /\ UNCHANGED <<sent, accepted, outputBuffer_, muted, revents>>
                   /\ aborted = None
        BY <3>6 DEF ThreadSends, ThreadShutsDown, ThreadStep, ThreadQueuesSend, ThreadSetsState,
             ThreadQueuesShutdown, ThreadAt, channel, socket, loop, app, None
      <3>7. QED
        BY <1>4, <3>1, <3>2, <3>3, <3>4, <3>5, <3>6 DEF Next
    <2>2. Stream' = Stream
      BY <2>1, StreamGrows DEF ConnectionInv
    <2>3. QED
      BY <2>1, <2>2 DEF StreamInv
  <1>5. QED
    BY <1>1, <1>2, <1>3, <1>4

LEMMA StreamInvariance == Spec => []StreamInv
  BY InitStream, Invariance, StreamStep, PTL DEF Spec

-----------------------------------------------------------------------------
(* The theorems.                                                            *)

\* Every variable keeps its type, for any set of threads and messages and any length of
\* a message: state_ and the pollfd of the channel, the queue of functors, the output.
THEOREM TypeCorrect == Spec => []TypeOK
  BY Invariance, PTL DEF ConnectionInv

\* POLLOUT is asked for exactly while outputBuffer_ holds bytes, in sendInLoop() as in
\* handleWrite(), as long as the channel is registered and its close is not handled.
THEOREM OutputIsPolled == Spec => []WritingWhileBuffered
  BY Invariance, PTL DEF ConnectionInv

\* The assertions of connectEstablished(), connectDistroyed(), handleClose(),
\* updateChannel() and removeConnectionInLoop() fail for the reasons AbortsExplained lists
\* and no other, whatever flags ::poll reports together: that of removeConnectionInLoop()
\* only after an event for which handleEvent() called closeCallback_ and then handleRead().
THEOREM AssertionsExplained == Spec => []AbortsExplained
  BY Invariance, PTL DEF ConnectionInv

\* connectDistroyed() is queued once and runs once for a connection that the server
\* forgot, whichever loops they run on and however often handleClose() was called.  The
\* removal itself is queued a second time only after an event that called closeCallback_
\* and then handleRead().
THEOREM OneTeardown == Spec => []TornDownOnce
  <1>1. ConnectionInv => TornDownOnce
    <2> SUFFICES ASSUME TypeOK, TeardownInv PROVE TornDownOnce
      BY DEF ConnectionInv
    <2>1. CASE Destroying = {}
      <3>1. Cardinality(Destroying) = 0
        BY <2>1, FS_EmptySet
      <3>2. QED
        BY <2>1, <3>1 DEF TypeOK, TeardownInv, TornDownOnce
    <2>2. CASE Destroying # {}
      <3>1. PICK i \in Destroying : Destroying = {i}
        BY <2>2 DEF TeardownInv
      <3>2. Cardinality(Destroying) = 1
        BY <3>1, FS_Singleton
      <3>3. QED
        BY <2>2, <3>2 DEF TypeOK, TeardownInv, TornDownOnce
    <2>3. QED
      BY <2>1, <2>2
  <1>2. QED
    BY <1>1, Invariance, PTL

\* handleRead() calls messageCallback_ only between the two connectionCallback_s, whatever
\* other calls handleEvent() makes for the event, and only while the server still has the
\* connection and before its removal is queued, unless it is called after closeCallback_
\* for an event that reports a hang-up and another read event without POLLIN.
THEOREM NoLateMessage == Spec => NoMessageAfterClose
  <1>1. ConnectionInv /\ HandleMessage => told = "up" /\ (~hungUp => inMap /\ removing = 0)
    BY DEF HandleMessage, Handling, ConnectionInv, TypeOK, BeforeInv, LifeInv, TeardownInv
  <1>2. QED
    BY <1>1, Invariance, PTL DEF NoMessageAfterClose

\* The write side is shut only when there is no output: by shutdownInLoop() when
\* nothing waits, else by the handleWrite() that empties the buffer.
THEOREM DrainedBeforeShutdown == Spec => ShutdownAfterDrain
  <1>1. ConnectionInv /\ [Next]_vars => (wrShut' /\ ~wrShut /\ ~muted => outputBuffer_' = <<>>)
    <2> SUFFICES ASSUME ConnectionInv, [Next]_vars, wrShut', ~wrShut, ~muted
                 PROVE  outputBuffer_' = <<>>
      OBVIOUS
    <2>1. CASE HandleWrite
      <3>1. \/ outputBuffer_' = <<>>
            \/ UNCHANGED wrShut
        BY <2>1 DEF HandleWrite
      <3>2. QED
        BY <3>1
    <2>2. CASE ShutdownInLoop \/ CallbackShutsDown
      <3>1. ~isWriting /\ UNCHANGED outputBuffer_
        BY <2>2 DEF ShutdownInLoop, CallbackShutsDown, shutdownInLoop
      <3>2. told # "nothing" => registered = "yes"
        BY DEF ConnectionInv, TypeOK, LifeInv, TeardownInv
      <3>3. told = "nothing" => outputBuffer_ = <<>>
        BY DEF ConnectionInv, BeforeInv
      <3>4. QED
        BY <3>1, <3>2, <3>3 DEF ConnectionInv, WritingWhileBuffered
    <2>3. CASE ~HandleWrite /\ ~ShutdownInLoop /\ ~CallbackShutsDown
      <3>1. UNCHANGED wrShut
        BY <2>3 DEF Next, RunFunctor, HandleEvent, ThreadStep, ConnectEstablished, ConnectDistroyed,
             SendInLoop, sendInLoop, WriteComplete, Poll, HandleHangUp, HandleError, HandleMessage,
             HandleReadError, HandleClose, handleClose, CallbackSends, CallbackReturns, ThreadSends, ThreadQueuesSend,
             ThreadShutsDown, ThreadSetsState, ThreadQueuesShutdown, BaseLoopRemoves,
             PeerCloses, vars, socket
      <3>2. QED
        BY <3>1
    <2>4. QED
      BY <2>1, <2>2, <2>3
  <1>2. QED
    BY <1>1, Invariance, PTL DEF Spec, ShutdownAfterDrain

\* What ::write took of the output is, byte for byte, a prefix of the messages in the order
\* sendInLoop() took them, whatever part of a message a ::write takes; until the close is
\* handled the rest is in outputBuffer_.
THEOREM StreamKept == Spec => []StreamInOrder
  <1>1. StreamInv => StreamInOrder
    BY DEF StreamInv, StreamInOrder
  <1>2. QED
    BY <1>1, StreamInvariance, PTL

=============================================================================
