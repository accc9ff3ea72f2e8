--------------------------- MODULE TcpServerProofs ---------------------------
(****************************************************************************)
(* Proofs about TcpServer for any number of threads, clients and            *)
(* descriptors.                                                             *)
(****************************************************************************)
EXTENDS TcpServer, SequenceTheorems, FiniteSetTheorems, TLAPS

-----------------------------------------------------------------------------
(* Functors and queues of them.                                             *)

\* A functor is one of three calls for one connection.
LEMMA Functors ==
  /\ \A c \in ConnIds : Est(c) \in Functor /\ Rem(c) \in Functor /\ Dis(c) \in Functor
  /\ \A c, d \in ConnIds : Est(c) # Rem(d) /\ Est(c) # Dis(d) /\ Rem(c) # Dis(d)
  /\ \A c, d \in ConnIds : c # d => Est(c) # Est(d) /\ Rem(c) # Rem(d) /\ Dis(c) # Dis(d)
  /\ \A f \in Functor : /\ f.conn \in ConnIds
                        /\ f.call \in {"connectEstablished", "removeConnectionInLoop",
                                       "connectDistroyed"}
                        /\ f = Bind(f.call, f.conn)
  /\ \A c \in ConnIds : Est(c).conn = c /\ Rem(c).conn = c /\ Dis(c).conn = c
  /\ \A c \in ConnIds : /\ Est(c).call = "connectEstablished"
                        /\ Rem(c).call = "removeConnectionInLoop"
                        /\ Dis(c).call = "connectDistroyed"
  BY DEF Functor, Bind, Est, Rem, Dis

\* queueInLoop() adds one functor to one queue.
LEMMA Appended ==
  ASSUME NEW S, NEW s \in Seq(S), NEW e \in S
  PROVE  /\ Append(s, e) \in Seq(S)
         /\ Range(Append(s, e)) = Range(s) \cup {e}
         /\ NoRepeats(s) /\ e \notin Range(s) => NoRepeats(Append(s, e))
  <1>1. /\ Append(s, e) \in Seq(S)
        /\ Len(s) \in Nat
        /\ DOMAIN s = 1..Len(s)
        /\ DOMAIN Append(s, e) = 1..(Len(s) + 1)
        /\ \A i \in 1..Len(s) : Append(s, e)[i] = s[i]
        /\ Append(s, e)[Len(s) + 1] = e
    <2>1. Len(s) \in Nat /\ DOMAIN s = 1..Len(s)
      BY LenProperties
    <2>2. /\ Append(s, e) \in Seq(S)
          /\ Len(Append(s, e)) = Len(s) + 1
          /\ \A i \in 1..Len(s) : Append(s, e)[i] = s[i]
          /\ Append(s, e)[Len(s) + 1] = e
      BY AppendProperties
    <2>3. DOMAIN Append(s, e) = 1..Len(Append(s, e))
      BY <2>2, LenProperties
    <2>4. QED
      BY <2>1, <2>2, <2>3
  <1>2. \A i \in 1..(Len(s) + 1) : i \in 1..Len(s) \/ i = Len(s) + 1
    BY <1>1
  <1>3. Range(Append(s, e)) = Range(s) \cup {e}
    BY <1>1, <1>2 DEF Range
  <1>4. ASSUME NoRepeats(s), e \notin Range(s)
        PROVE  NoRepeats(Append(s, e))
    BY <1>1, <1>2, <1>4 DEF NoRepeats, Range
  <1>5. QED
    BY <1>1, <1>3, <1>4

\* Calling the first functor of a batch takes it out.
LEMMA Taken ==
  ASSUME NEW S, NEW s \in Seq(S), s # <<>>
  PROVE  /\ Head(s) \in S
         /\ Head(s) \in Range(s)
         /\ Tail(s) \in Seq(S)
         /\ NoRepeats(s) => NoRepeats(Tail(s)) /\ Range(Tail(s)) = Range(s) \ {Head(s)}
  <1>1. Len(s) \in Nat \ {0} /\ DOMAIN s = 1..Len(s)
    BY LenProperties, EmptySeq
  <1>2. Head(s) = s[1] /\ Head(s) \in S /\ Tail(s) \in Seq(S)
    BY <1>1, HeadTailProperties, ElementOfSeq
  <1>3. Len(Tail(s)) = Len(s) - 1 /\ \A i \in 1..Len(Tail(s)) : Tail(s)[i] = s[i + 1]
    BY HeadTailProperties
  <1>4. DOMAIN Tail(s) = 1..(Len(s) - 1) /\ \A i \in 1..(Len(s) - 1) : Tail(s)[i] = s[i + 1]
    BY <1>2, <1>3, LenProperties
  <1>5. Head(s) \in Range(s)
    BY <1>1, <1>2 DEF Range
  <1>6. ASSUME NoRepeats(s)
        PROVE  NoRepeats(Tail(s)) /\ Range(Tail(s)) = Range(s) \ {Head(s)}
    <2>1. NoRepeats(Tail(s))
      BY <1>1, <1>4, <1>6 DEF NoRepeats
    <2>2. \A i \in 1..Len(s) : i # 1 => i - 1 \in 1..(Len(s) - 1) /\ s[i] = Tail(s)[i - 1]
      BY <1>1, <1>4
    <2>3. \A i \in 1..(Len(s) - 1) : i + 1 \in 1..Len(s) /\ i + 1 # 1
      BY <1>1
    <2>4. ASSUME NEW e \in Range(s) \ {Head(s)}
          PROVE  e \in Range(Tail(s))
      <3>1. PICK i \in 1..Len(s) : e = s[i]
        BY <1>1 DEF Range
      <3>2. i # 1
        BY <1>2, <3>1
      <3>3. QED
        BY <1>4, <2>2, <3>1, <3>2 DEF Range
    <2>5. Range(Tail(s)) \subseteq Range(s) \ {Head(s)}
      BY <1>1, <1>2, <1>4, <1>6, <2>3 DEF Range, NoRepeats
    <2>6. QED
      BY <2>1, <2>4, <2>5
  <1>7. QED
    BY <1>2, <1>5, <1>6

-----------------------------------------------------------------------------
(* What the steps do to the queues.                                         *)

\* A functor that was not waiting is queued.
LEMMA Pushed ==
  ASSUME TypeOK, OnceInv, NEW l \in Loops, NEW f \in Functor, f \notin Waiting(l),
         queueInLoop(l, f)
  PROVE  /\ pending' \in [Loops -> Seq(Functor)]
         /\ \A k \in Loops : NoRepeats(pending'[k])
         /\ \A k \in Loops : Range(pending'[k]) = IF k = l THEN Range(pending[l]) \cup {f}
                                                  ELSE Range(pending[k])
  <1>1. pending[l] \in Seq(Functor) /\ f \notin Range(pending[l]) /\ NoRepeats(pending[l])
    BY DEF TypeOK, OnceInv, Waiting
  <1>2. /\ Append(pending[l], f) \in Seq(Functor)
        /\ Range(Append(pending[l], f)) = Range(pending[l]) \cup {f}
        /\ NoRepeats(Append(pending[l], f))
    BY <1>1, Appended
  <1>3. \A k \in Loops : pending'[k] = IF k = l THEN Append(pending[l], f) ELSE pending[k]
    BY DEF queueInLoop, TypeOK
  <1>4. pending' \in [Loops -> Seq(Functor)]
    BY <1>2 DEF queueInLoop, TypeOK
  <1>5. \A k \in Loops : NoRepeats(pending'[k])
    BY <1>2, <1>3 DEF OnceInv
  <1>6. QED
    BY <1>2, <1>3, <1>4, <1>5

\* The queues after a functor was queued and none was called.
LEMMA PushedOnly ==
  ASSUME TypeOK, OnceInv, NEW l \in Loops, NEW f \in Functor, f \notin Waiting(l),
         queueInLoop(l, f), UNCHANGED batch
  PROVE  /\ pending' \in [Loops -> Seq(Functor)]
         /\ OnceInv'
         /\ \A k \in Loops : Waiting(k)' = IF k = l THEN Waiting(l) \cup {f} ELSE Waiting(k)
  <1>1. /\ pending' \in [Loops -> Seq(Functor)]
        /\ \A k \in Loops : NoRepeats(pending'[k])
        /\ \A k \in Loops : Range(pending'[k]) = IF k = l THEN Range(pending[l]) \cup {f}
                                                 ELSE Range(pending[k])
    BY Pushed
  <1>2. \A k \in Loops : Range(pending'[k]) \cap Range(batch'[k]) = {}
    BY <1>1 DEF OnceInv, Waiting
  <1>3. OnceInv'
    BY <1>1, <1>2 DEF OnceInv
  <1>4. \A k \in Loops : Waiting(k)' = IF k = l THEN Waiting(l) \cup {f} ELSE Waiting(k)
    BY <1>1 DEF Waiting
  <1>5. QED
    BY <1>1, <1>3, <1>4

\* The first functor of a batch is called.
LEMMA Popped ==
  ASSUME TypeOK, OnceInv, NEW l \in Loops, batch[l] # <<>>,
         batch' = [batch EXCEPT ![l] = Tail(@)]
  PROVE  /\ batch' \in [Loops -> Seq(Functor)]
         /\ Head(batch[l]) \in Functor
         /\ Head(batch[l]) \in Range(batch[l])
         /\ \A k \in Loops : NoRepeats(batch'[k])
         /\ \A k \in Loops : Range(batch'[k]) = IF k = l THEN Range(batch[l]) \ {Head(batch[l])}
                                                ELSE Range(batch[k])
  <1>1. batch[l] \in Seq(Functor) /\ NoRepeats(batch[l])
    BY DEF TypeOK, OnceInv
  <1>2. /\ Head(batch[l]) \in Functor
        /\ Head(batch[l]) \in Range(batch[l])
        /\ Tail(batch[l]) \in Seq(Functor)
        /\ NoRepeats(Tail(batch[l]))
        /\ Range(Tail(batch[l])) = Range(batch[l]) \ {Head(batch[l])}
    BY <1>1, Taken
  <1>3. \A k \in Loops : batch'[k] = IF k = l THEN Tail(batch[l]) ELSE batch[k]
    BY DEF TypeOK
  <1>4. QED
    BY <1>2, <1>3 DEF TypeOK, OnceInv

\* The queues after a functor was called that queues nothing.
LEMMA PoppedOnly ==
  ASSUME TypeOK, OnceInv, NEW l \in Loops, batch[l] # <<>>,
         batch' = [batch EXCEPT ![l] = Tail(@)], UNCHANGED pending
  PROVE  /\ OnceInv'
         /\ Head(batch[l]) \in Waiting(l)
         /\ \A k \in Loops : Waiting(k)' = IF k = l THEN Waiting(l) \ {Head(batch[l])}
                                           ELSE Waiting(k)
  BY Popped DEF OnceInv, Waiting

\* The queues after a functor was called that queues another one elsewhere.
LEMMA PoppedAndPushed ==
  ASSUME TypeOK, OnceInv, NEW l \in Loops, batch[l] # <<>>,
         batch' = [batch EXCEPT ![l] = Tail(@)],
         NEW m \in Loops, m # l, NEW f \in Functor, f \notin Waiting(m), queueInLoop(m, f)
  PROVE  /\ OnceInv'
         /\ Head(batch[l]) \in Waiting(l)
         /\ \A k \in Loops : Waiting(k)' = IF k = l THEN Waiting(l) \ {Head(batch[l])}
                                           ELSE IF k = m THEN Waiting(m) \cup {f}
                                           ELSE Waiting(k)
  <1> DEFINE g == Head(batch[l])
  <1>1. /\ g \in Range(batch[l])
        /\ \A k \in Loops : NoRepeats(batch'[k])
        /\ \A k \in Loops : Range(batch'[k]) = IF k = l THEN Range(batch[l]) \ {g}
                                               ELSE Range(batch[k])
    BY Popped
  <1>2. /\ \A k \in Loops : NoRepeats(pending'[k])
        /\ \A k \in Loops : Range(pending'[k]) = IF k = m THEN Range(pending[m]) \cup {f}
                                                 ELSE Range(pending[k])
    BY Pushed
  <1> HIDE DEF g
  <1>3. f \notin Range(batch[m]) /\ g \notin Range(pending[l])
    BY <1>1 DEF OnceInv, Waiting
  <1>4. \A k \in Loops : Range(pending'[k]) \cap Range(batch'[k]) = {}
    BY <1>1, <1>2, <1>3 DEF OnceInv
  <1>5. OnceInv'
    BY <1>1, <1>2, <1>4 DEF OnceInv
  <1>6. g \in Waiting(l)
    BY <1>1 DEF Waiting
  <1>7. \A k \in Loops : Waiting(k)' = IF k = l THEN Waiting(l) \ {g}
                                      ELSE IF k = m THEN Waiting(m) \cup {f}
                                      ELSE Waiting(k)
    BY <1>1, <1>2, <1>3 DEF Waiting
  <1>8. QED
    BY <1>5, <1>6, <1>7 DEF g

\* The connections that are pointed to, before and after a step.
LEMMA HeldNow ==
  ASSUME TypeOK
  PROVE  \A c : c \in Held(connectionMap_, pending, batch, spent) <=>
           \/ c \in connectionMap_
           \/ \E l \in Loops : c \in spent[l] \/ \E f \in Waiting(l) : f.conn = c
  <1>1. pending \in [Loops -> Seq(Functor)] /\ batch \in [Loops -> Seq(Functor)]
    BY DEF TypeOK
  <1>2. \A l \in Loops : Range(pending[l] \o batch[l]) = Waiting(l)
    BY <1>1, RangeConcatenation DEF Waiting
  <1>3. QED
    BY <1>2 DEF Held

LEMMA HeldNext ==
  ASSUME TypeOK'
  PROVE  \A c : c \in Held(connectionMap_', pending', batch', spent') <=>
           \/ c \in connectionMap_'
           \/ \E l \in Loops : c \in spent'[l] \/ \E f \in Waiting(l)' : f.conn = c
  <1>1. pending' \in [Loops -> Seq(Functor)] /\ batch' \in [Loops -> Seq(Functor)]
    BY DEF TypeOK
  <1>2. \A l \in Loops : Range(pending'[l] \o batch'[l]) = Waiting(l)'
    BY <1>1, RangeConcatenation DEF Waiting
  <1>3. QED
    BY <1>2 DEF Held

-----------------------------------------------------------------------------
(* The actions.                                                             *)

LEMMA InitInv == Init => ServerInv
  <1> SUFFICES ASSUME Init PROVE ServerInv
    OBVIOUS
  <1>1. <<>> \in Seq(Functor) /\ <<>> \in Seq(IOLoops) /\ Range(<<>>) = {} /\ Len(<<>>) = 0
    BY EmptySeq, RangeEquality DEF Range
  <1>2. TypeOK
    <2>1. /\ nextConnId_ \in 1..(MaxClients + 1)
          /\ clients \in 0..MaxClients
          /\ backlog \in 0..MaxClients
          /\ next_ \in Nat
      BY TcpServerAssumption DEF Init
    <2>2. /\ fd \in [ConnIds -> Fds \cup {-1}]
          /\ home \in [ConnIds -> Loops]
          /\ phase \in [ConnIds -> Phases]
      BY DEF Init, Loops, Phases
    <2>3. /\ pending \in [Loops -> Seq(Functor)]
          /\ batch \in [Loops -> Seq(Functor)]
          /\ spent \in [Loops -> SUBSET ConnIds]
          /\ handling \in [Loops -> ConnIds \cup {None}]
      BY <1>1 DEF Init
    <2>4. QED
      BY <1>1, <2>1, <2>2, <2>3 DEF Init, TypeOK
  <1>3. \A l \in Loops : Waiting(l) = {}
    BY <1>1 DEF Init, Waiting
  <1>4. OnceInv
    BY <1>1 DEF Init, OnceInv, NoRepeats
  <1>5. HandlingInv /\ \A c \in ConnIds : ConnInv(c)
    <2>1. \A c \in ConnIds : c >= 1
      BY TcpServerAssumption DEF ConnIds
    <2>2. Base \in Loops
      BY DEF Loops
    <2>3. \A c \in ConnIds : ConnInv(c)
      BY <1>3, <2>1, <2>2 DEF Init, ConnInv
    <2>4. HandlingInv
      BY DEF Init, HandlingInv
    <2>5. QED
      BY <2>3, <2>4
  <1>6. HeldInv
    <2>1. \A c : c \notin Held(connectionMap_, pending, batch, spent)
      BY <1>2, <1>3, HeldNow DEF Init
    <2>2. QED
      BY <2>1 DEF HeldInv, Init
  <1>7. PoolInv /\ FdInv /\ DescriptorsAccounted
    BY <1>1 DEF Init, PoolInv, FdInv, DescriptorsAccounted
  <1>8. QED
    BY <1>2, <1>4, <1>5, <1>6, <1>7 DEF ServerInv

\* The loop a new connection gets is one of the pool, or loop_.
LEMMA NextLoopIsALoop ==
  ASSUME TypeOK, PoolInv
  PROVE  /\ NextLoop \in Loops
         /\ AdvanceNext => next_' \in Nat /\ (loops_ # <<>> => next_' < Len(loops_))
  <1>1. CASE loops_ = <<>>
    BY <1>1 DEF NextLoop, AdvanceNext, TypeOK, Loops
  <1>2. CASE loops_ # <<>>
    <2>0. Len(loops_) \in Nat /\ next_ \in Nat /\ next_ < Len(loops_)
      BY <1>2, LenProperties DEF TypeOK, PoolInv
    <2>1. next_ + 1 \in 1..Len(loops_)
      BY <2>0
    <2>2. loops_[next_ + 1] \in IOLoops
      BY <2>1, ElementOfSeq DEF TypeOK
    <2>3. QED
      BY <1>2, <2>0, <2>1, <2>2 DEF NextLoop, AdvanceNext, NextIndex, TypeOK, Loops
  <1>3. QED
    BY <1>1, <1>2

\* A step that is not about connection c.
SameLife(c) ==
  /\ phase'[c] = phase[c]
  /\ home'[c] = home[c]
  /\ c >= nextConnId_' <=> c >= nextConnId_
  /\ c \in alive' => c \in alive
  /\ c \in connectionMap_' <=> c \in connectionMap_
  /\ \A l \in Loops : /\ Est(c) \in Waiting(l)' <=> Est(c) \in Waiting(l)
                      /\ Rem(c) \in Waiting(l)' <=> Rem(c) \in Waiting(l)
                      /\ Dis(c) \in Waiting(l)' <=> Dis(c) \in Waiting(l)

LEMMA Untouched ==
  ASSUME ServerInv, NEW c \in ConnIds, SameLife(c)
  PROVE  ConnInv(c)'
  <1>1. home[c] \in Loops /\ Base \in Loops
    BY DEF ServerInv, TypeOK, Loops
  <1>2. ConnInv(c)
    BY DEF ServerInv
  <1>3. QED
    BY <1>1, <1>2 DEF ConnInv, SameLife

\* A connection is removed: what becomes of the queues and of the map.
LEMMA HandleCloseInv ==
  ASSUME ServerInv, NEW c \in ConnIds, HandleClose(c)
  PROVE  ServerInv'
  <1> DEFINE l == home[c]
             target == IF l = Base THEN l ELSE Base
             f == IF l = Base THEN Dis(c) ELSE Rem(c)
  <1>1. /\ l \in Loops /\ Base \in Loops /\ target \in Loops
        /\ phase[c] = "up" /\ phase' = [phase EXCEPT ![c] = "closed"]
        /\ handling' = [handling EXCEPT ![l] = c]
        /\ batch[l] = <<>> /\ handling[l] = None
        /\ batch' = batch /\ spent' = spent /\ home' = home /\ alive' = alive
        /\ c \in ConnIds
    BY DEF ServerInv, HandleClose, TypeOK, Loops, Base, Dispatching
  <1>2. /\ queueInLoop(target, f)
        /\ connectionMap_' = IF l = Base THEN connectionMap_ \ {c} ELSE connectionMap_
    BY DEF HandleClose, removeConnection, removeConnectionInLoop, Dis, Rem, Base
  <1>3. f \in Functor /\ f.conn = c
    BY Functors
  <1>4. \A k \in Loops : Est(c) \notin Waiting(k) /\ Rem(c) \notin Waiting(k)
                         /\ Dis(c) \notin Waiting(k)
    BY <1>1 DEF ServerInv, ConnInv
  <1>5. f \notin Waiting(target)
    BY <1>1, <1>4
  <1> HIDE DEF f, target
  <1>6. /\ pending' \in [Loops -> Seq(Functor)]
        /\ OnceInv'
        /\ \A k \in Loops : Waiting(k)' = IF k = target THEN Waiting(target) \cup {f}
                                          ELSE Waiting(k)
    BY <1>1, <1>2, <1>3, <1>5, PushedOnly DEF ServerInv
  <1> USE DEF f, target
  <1>7. TypeOK'
    <2>1. /\ phase' \in [ConnIds -> Phases]
          /\ handling' \in [Loops -> ConnIds \cup {None}]
          /\ connectionMap_' \subseteq ConnIds
      BY <1>1, <1>2 DEF ServerInv, TypeOK, Phases
    <2>2. QED
      BY <1>6, <2>1 DEF ServerInv, TypeOK, HandleClose, pool, peers
  <1>8. PoolInv' /\ nextConnId_' = nextConnId_
    BY DEF ServerInv, PoolInv, HandleClose, pool, peers
  <1>9. \A d \in ConnIds : phase'[d] = IF d = c THEN "closed" ELSE phase[d]
    BY <1>1 DEF ServerInv, TypeOK
  <1>10. ConnInv(c)'
    <2>1. /\ phase'[c] = "closed"
          /\ \A k \in Loops : /\ Est(c) \notin Waiting(k)'
                              /\ Rem(c) \in Waiting(k)' <=> k = Base /\ l # Base
                              /\ Dis(c) \in Waiting(k)' <=> k = Base /\ l = Base
      BY <1>4, <1>6, <1>9, Functors
    <2>2. c \in connectionMap_' <=> l # Base
      BY <1>1, <1>2 DEF ServerInv, ConnInv
    <2>3. ~(c >= nextConnId_') /\ home' = home
      BY <1>1, <1>8 DEF ServerInv, ConnInv
    <2>4. QED
      BY ONLY <1>1, <2>1, <2>2, <2>3 DEF ConnInv
  <1>11. ASSUME NEW d \in ConnIds, d # c
         PROVE  ConnInv(d)'
    <2>1. f # Est(d) /\ f # Rem(d) /\ f # Dis(d)
      BY <1>11, Functors
    <2>2. SameLife(d)
      BY <1>1, <1>2, <1>6, <1>8, <1>9, <1>11, <2>1 DEF SameLife
    <2>3. QED
      BY <2>2, Untouched
  <1>12. HandlingInv'
    BY <1>1 DEF ServerInv, HandlingInv, TypeOK
  <1>13. HeldInv'
    <2>1. c \in connectionMap_
      BY <1>1 DEF ServerInv, ConnInv
    <2>2. \A d : d \in Held(connectionMap_, pending, batch, spent) <=>
            \/ d \in connectionMap_
            \/ \E k \in Loops : d \in spent[k] \/ \E g \in Waiting(k) : g.conn = d
      BY HeldNow DEF ServerInv
    <2>3. \A d : d \in Held(connectionMap_, pending, batch, spent)' <=>
            \/ d \in connectionMap_'
            \/ \E k \in Loops : d \in spent[k] \/ \E g \in Waiting(k)' : g.conn = d
      <3>1. spent' = spent
        BY <1>1
      <3>2. \A d : d \in Held(connectionMap_', pending', batch', spent') <=>
            \/ d \in connectionMap_'
            \/ \E k \in Loops : d \in spent'[k] \/ \E g \in Waiting(k)' : g.conn = d
        BY <1>7, HeldNext
      <3>3. QED
        BY <3>1, <3>2
    <2>4. \A d : d \in connectionMap_' <=> d \in connectionMap_ /\ ~(d = c /\ l = Base)
      BY <1>2
    <2>5. \A d : (\E k \in Loops : \E g \in Waiting(k)' : g.conn = d) <=>
                 d = c \/ \E k \in Loops : \E g \in Waiting(k) : g.conn = d
      BY <1>1, <1>3, <1>6
    <2>6. \A d : d \in Held(connectionMap_, pending, batch, spent)' <=>
                 d \in Held(connectionMap_, pending, batch, spent)
      <3> HIDE DEF l
      <3>1. QED
        BY <2>1, <2>2, <2>3, <2>4, <2>5
    <2>7. QED
      BY <1>1, <2>6 DEF ServerInv, HeldInv
  <1>14. FdInv' /\ DescriptorsAccounted'
    BY DEF ServerInv, FdInv, DescriptorsAccounted, HandleClose
  <1>15. QED
    BY <1>6, <1>7, <1>8, <1>10, <1>11, <1>12, <1>13, <1>14 DEF ServerInv

\* A connection is accepted: the queue of its loop, if that is not this one.
LEMMA NewConnectionInv ==
  ASSUME ServerInv, NewConnection
  PROVE  ServerInv'
  <1>a. backlog > 0 /\ listenning_ /\ Dispatching(Base)
    BY DEF NewConnection, Accepts
  <1>b. nextConnId_ \in ConnIds /\ nextConnId_ + 1 \in 1..(MaxClients + 1)
    BY <1>a, TcpServerAssumption DEF ServerInv, TypeOK, PoolInv, ConnIds
  <1>c. PICK c \in ConnIds : c = nextConnId_
    BY <1>b
  <1>d. /\ NextLoop \in Loops
        /\ AdvanceNext => next_' \in Nat /\ (loops_ # <<>> => next_' < Len(loops_))
    BY NextLoopIsALoop DEF ServerInv
  <1>e. PICK l \in Loops : l = NextLoop
    BY <1>d
  <1>1. PICK newFd \in Fds \ {0} :
          /\ Accepts(newFd)
          /\ nextConnId_' = c + 1
          /\ AdvanceNext
          /\ connectionMap_' = connectionMap_ \cup {c}
          /\ fd' = [fd EXCEPT ![c] = newFd]
          /\ home' = [home EXCEPT ![c] = l]
          /\ alive' = alive \cup {c}
          /\ phase' = [phase EXCEPT ![c] = IF l = Base THEN "up" ELSE "new"]
          /\ IF l = Base THEN UNCHANGED pending ELSE queueInLoop(l, Est(c))
          /\ UNCHANGED <<numThreads_, loops_, listenning_, batch, spent, handling, dropped>>
    BY <1>c, <1>e DEF NewConnection, Est
  <1>2. /\ listenning_
        /\ Dispatching(Base)
        /\ backlog > 0
        /\ newFd \in Fds \ inUse
        /\ inUse' = inUse \cup {newFd}
        /\ backlog' = backlog - 1
        /\ clients' = clients
        /\ gone' = gone
    BY <1>1 DEF Accepts
  <1>3. c + 1 \in 1..(MaxClients + 1) /\ backlog - 1 \in 0..MaxClients
    BY <1>2, <1>b, <1>c, TcpServerAssumption DEF ServerInv, TypeOK
  <1>4. next_' \in Nat /\ (loops_ # <<>> => next_' < Len(loops_))
    BY <1>1, <1>d
  <1>5. phase[c] = "none" /\ c \notin alive /\ c \notin connectionMap_ /\ c \in Int
    <2>1. c \in Int /\ Base \in Loops
      BY <1>b, <1>c DEF ConnIds, Loops
    <2>2. ConnInv(c)
      BY DEF ServerInv
    <2>3. phase[c] = "none"
      BY <1>c, <2>1, <2>2 DEF ConnInv
    <2>4. Rem(c) \notin Waiting(Base)
      BY <2>1, <2>2, <2>3 DEF ConnInv
    <2>5. QED
      BY <2>1, <2>2, <2>3, <2>4 DEF ConnInv
  <1>6. \A k \in Loops : Est(c) \notin Waiting(k) /\ Rem(c) \notin Waiting(k)
                         /\ Dis(c) \notin Waiting(k)
    BY <1>5 DEF ServerInv, ConnInv
  <1>7. /\ pending' \in [Loops -> Seq(Functor)]
        /\ OnceInv'
        /\ \A k \in Loops : Waiting(k)' = IF k = l /\ l # Base THEN Waiting(k) \cup {Est(c)}
                                          ELSE Waiting(k)
    <2>1. CASE l = Base
      BY <1>1, <2>1 DEF ServerInv, TypeOK, OnceInv, Waiting
    <2>2. CASE l # Base
      <3>1. queueInLoop(l, Est(c)) /\ batch' = batch /\ Est(c) \in Functor
        BY <1>1, <1>3, <2>2, Functors
      <3>2. /\ pending' \in [Loops -> Seq(Functor)]
            /\ OnceInv'
            /\ \A k \in Loops : Waiting(k)' = IF k = l THEN Waiting(l) \cup {Est(c)}
                                              ELSE Waiting(k)
        BY <1>4, <1>6, <3>1, PushedOnly DEF ServerInv
      <3>3. QED
        BY <2>2, <3>2
    <2>3. QED
      BY <2>1, <2>2
  <1>8. \A d \in ConnIds : /\ phase'[d] = IF d = c THEN (IF l = Base THEN "up" ELSE "new")
                                         ELSE phase[d]
                           /\ home'[d] = IF d = c THEN l ELSE home[d]
                           /\ fd'[d] = IF d = c THEN newFd ELSE fd[d]
    BY <1>1 DEF ServerInv, TypeOK
  <1>9. TypeOK'
    <2>1. /\ fd' \in [ConnIds -> Fds \cup {-1}]
          /\ home' \in [ConnIds -> Loops]
          /\ phase' \in [ConnIds -> Phases]
      BY <1>1, <1>4 DEF ServerInv, TypeOK, Phases
    <2>2. connectionMap_' \subseteq ConnIds /\ alive' \subseteq ConnIds
      BY <1>1, <1>3 DEF ServerInv, TypeOK
    <2>3. inUse' \subseteq Fds /\ dropped' \subseteq inUse'
      BY <1>1, <1>2 DEF ServerInv, TypeOK
    <2>4. nextConnId_' \in 1..(MaxClients + 1) /\ backlog' \in 0..MaxClients
      BY <1>1, <1>2, <1>3
    <2>5. QED
      BY <1>1, <1>2, <1>4, <1>7, <2>1, <2>2, <2>3, <2>4 DEF ServerInv, TypeOK
  <1>10. PoolInv'
    <2>1. nextConnId_' - 1 + backlog' <= clients'
      BY <1>1, <1>2, <1>c DEF ServerInv, PoolInv, TypeOK
    <2>2. QED
      BY <1>1, <1>2, <1>4, <2>1 DEF ServerInv, PoolInv
  <1>11. ConnInv(c)'
    <2>1. ~(c >= nextConnId_')
      BY <1>1, <1>5
    <2>2. /\ phase'[c] = IF l = Base THEN "up" ELSE "new"
          /\ home'[c] = l
          /\ c \in connectionMap_'
          /\ \A k \in Loops : /\ Est(c) \in Waiting(k)' <=> k = l /\ l # Base
                              /\ Rem(c) \notin Waiting(k)'
                              /\ Dis(c) \notin Waiting(k)'
      BY <1>1, <1>6, <1>7, <1>8, Functors
    <2>3. Base \in Loops
      BY DEF Loops
    <2>4. QED
      BY ONLY <2>1, <2>2, <2>3 DEF ConnInv
  <1>12. ASSUME NEW d \in ConnIds, d # c
         PROVE  ConnInv(d)'
    <2>1. Est(c) # Est(d) /\ Est(c) # Rem(d) /\ Est(c) # Dis(d)
      BY <1>12, Functors
    <2>2. d >= nextConnId_' <=> d >= nextConnId_
      BY <1>1, <1>5, <1>12, <1>c, TcpServerAssumption DEF ConnIds
    <2>3. \A k \in Loops : /\ Est(d) \in Waiting(k)' <=> Est(d) \in Waiting(k)
                           /\ Rem(d) \in Waiting(k)' <=> Rem(d) \in Waiting(k)
                           /\ Dis(d) \in Waiting(k)' <=> Dis(d) \in Waiting(k)
      BY <1>7, <2>1
    <2>4. SameLife(d)
      BY <1>1, <1>8, <1>12, <2>2, <2>3 DEF SameLife
    <2>5. QED
      BY <2>4, Untouched
  <1>13. HandlingInv'
    <2> SUFFICES ASSUME NEW k \in Loops, handling[k] # None
                 PROVE  /\ home'[handling[k]] = k
                        /\ phase'[handling[k]] = "closed"
                        /\ batch[k] = <<>>
      BY <1>1 DEF HandlingInv
    <2>1. handling[k] \in ConnIds /\ phase[handling[k]] = "closed"
      BY DEF ServerInv, TypeOK, HandlingInv
    <2>2. handling[k] # c
      BY <1>5, <2>1
    <2>3. QED
      BY <1>8, <2>1, <2>2 DEF ServerInv, HandlingInv
  <1>14. HeldInv'
    <2>1. \A d : d \in Held(connectionMap_, pending, batch, spent) <=>
            \/ d \in connectionMap_
            \/ \E k \in Loops : d \in spent[k] \/ \E g \in Waiting(k) : g.conn = d
      BY HeldNow DEF ServerInv
    <2>2. \A d : d \in Held(connectionMap_', pending', batch', spent') <=>
            \/ d \in connectionMap_'
            \/ \E k \in Loops : d \in spent'[k] \/ \E g \in Waiting(k)' : g.conn = d
      BY <1>9, HeldNext
    <2>3. \A d : (\E k \in Loops : \E g \in Waiting(k)' : g.conn = d) =>
                 d = c \/ \E k \in Loops : \E g \in Waiting(k) : g.conn = d
      BY <1>7, Functors
    <2>4. \A d : (\E k \in Loops : \E g \in Waiting(k) : g.conn = d) =>
                 \E k \in Loops : \E g \in Waiting(k)' : g.conn = d
      BY <1>7
    <2>5. \A d : d \in Held(connectionMap_', pending', batch', spent') <=>
                 d = c \/ d \in Held(connectionMap_, pending, batch, spent)
      BY <1>1, <2>1, <2>2, <2>3, <2>4
    <2>6. QED
      BY <1>1, <2>5 DEF ServerInv, HeldInv
  <1>15. FdInv' /\ DescriptorsAccounted'
    <2>1. c \notin alive /\ alive \subseteq ConnIds /\ \A d \in alive : fd[d] \in inUse /\ fd'[d] = fd[d]
      BY <1>5, <1>8 DEF ServerInv, TypeOK, DescriptorsAccounted
    <2>2. fd'[c] = newFd /\ newFd \notin inUse /\ newFd # 0
      BY <1>2, <1>8
    <2>3. FdInv'
      BY <1>1, <2>1, <2>2 DEF ServerInv, FdInv
    <2>4. {fd'[d] : d \in alive'} = {fd[d] : d \in alive} \cup {newFd}
      BY <1>1, <2>1, <2>2
    <2>5. inUse' = {fd'[d] : d \in alive'} \cup dropped'
      BY <1>1, <1>2, <2>4 DEF ServerInv, DescriptorsAccounted
    <2>6. \A d, e \in alive' : d # e => fd'[d] # fd'[e]
      BY <1>1, <2>1, <2>2 DEF ServerInv, DescriptorsAccounted
    <2>7. QED
      BY <2>3, <2>5, <2>6 DEF DescriptorsAccounted
  <1>16. QED
    BY <1>7, <1>9, <1>10, <1>11, <1>12, <1>13, <1>14, <1>15 DEF ServerInv

\* Descriptor 0 is accepted and forgotten.
LEMMA DropConnectionInv ==
  ASSUME ServerInv, DropConnection
  PROVE  ServerInv'
  <1>1. /\ listenning_
        /\ backlog > 0
        /\ 0 \in Fds \ inUse
        /\ inUse' = inUse \cup {0}
        /\ dropped' = dropped \cup {0}
        /\ backlog' = backlog - 1
        /\ UNCHANGED <<clients, gone, listenning_, nextConnId_, connectionMap_, handling>>
        /\ UNCHANGED <<numThreads_, loops_, next_>>
        /\ UNCHANGED <<fd, home, phase, alive>>
        /\ UNCHANGED <<pending, batch, spent>>
    BY DEF DropConnection, Accepts, pool, conns, queues
  <1>2. backlog - 1 \in 0..MaxClients /\ backlog \in Int /\ nextConnId_ \in Int /\ clients \in Int
    BY <1>1, TcpServerAssumption DEF ServerInv, TypeOK
  <1>3. TypeOK'
    BY <1>1, <1>2 DEF ServerInv, TypeOK
  <1>4. PoolInv'
    <2>1. nextConnId_ - 1 + backlog <= clients
      BY DEF ServerInv, PoolInv
    <2>2. nextConnId_' - 1 + backlog' <= clients'
      BY <1>1, <1>2, <2>1
    <2>3. QED
      BY <1>1, <2>2 DEF ServerInv, PoolInv
  <1>5. OnceInv' /\ HandlingInv' /\ HeldInv'
    BY <1>1 DEF ServerInv, OnceInv, HandlingInv, HeldInv
  <1>6. \A c \in ConnIds : ConnInv(c)'
    BY <1>1, Untouched DEF SameLife, Waiting
  <1>7. FdInv' /\ DescriptorsAccounted'
    BY <1>1 DEF ServerInv, FdInv, DescriptorsAccounted
  <1>8. QED
    BY <1>3, <1>4, <1>5, <1>6, <1>7 DEF ServerInv

\* The swap changes no functor's place in the order, nor which ones wait.
LEMMA SwapPendingInv ==
  ASSUME ServerInv, NEW l \in Loops, SwapPending(l)
  PROVE  ServerInv'
  <1>1. /\ batch[l] = <<>> /\ spent[l] = {} /\ handling[l] = None
        /\ batch' = [batch EXCEPT ![l] = pending[l]]
        /\ pending' = [pending EXCEPT ![l] = <<>>]
        /\ UNCHANGED <<listenning_, nextConnId_, connectionMap_, spent, handling, inUse, dropped>>
        /\ UNCHANGED <<numThreads_, loops_, next_>>
        /\ UNCHANGED <<fd, home, phase, alive>>
        /\ UNCHANGED <<clients, backlog, gone>>
    BY DEF SwapPending, Dispatching, pool, conns, peers
  <1>2. <<>> \in Seq(Functor) /\ Range(<<>>) = {} /\ NoRepeats(<<>>)
    BY EmptySeq DEF Range, NoRepeats
  <1>3. \A k \in Loops : /\ pending'[k] = IF k = l THEN <<>> ELSE pending[k]
                         /\ batch'[k] = IF k = l THEN pending[l] ELSE batch[k]
    BY <1>1 DEF ServerInv, TypeOK
  <1>4. TypeOK'
    <2>1. pending' \in [Loops -> Seq(Functor)] /\ batch' \in [Loops -> Seq(Functor)]
      BY <1>1, <1>2 DEF ServerInv, TypeOK
    <2>2. QED
      BY <1>1, <2>1 DEF ServerInv, TypeOK
  <1>5. OnceInv'
    BY <1>2, <1>3 DEF ServerInv, OnceInv
  <1>6. \A k \in Loops : Waiting(k)' = Waiting(k)
    BY <1>1, <1>2, <1>3 DEF Waiting
  <1>7. \A c \in ConnIds : ConnInv(c)'
    BY <1>1, <1>6, Untouched DEF SameLife
  <1>8. HandlingInv'
    BY <1>1, <1>3 DEF ServerInv, HandlingInv
  <1>9. HeldInv'
    <2>1. \A d : d \in Held(connectionMap_', pending', batch', spent') <=>
                 d \in Held(connectionMap_, pending, batch, spent)
      <3>1. \A d : d \in Held(connectionMap_, pending, batch, spent) <=>
              \/ d \in connectionMap_
              \/ \E k \in Loops : d \in spent[k] \/ \E g \in Waiting(k) : g.conn = d
        BY HeldNow DEF ServerInv
      <3>2. \A d : d \in Held(connectionMap_', pending', batch', spent') <=>
              \/ d \in connectionMap_'
              \/ \E k \in Loops : d \in spent'[k] \/ \E g \in Waiting(k)' : g.conn = d
        BY <1>4, HeldNext
      <3>3. connectionMap_' = connectionMap_ /\ spent' = spent
        BY <1>1
      <3>4. \A d : (\E k \in Loops : \E g \in Waiting(k)' : g.conn = d) <=>
                   (\E k \in Loops : \E g \in Waiting(k) : g.conn = d)
        BY ONLY <1>6
      <3>5. QED
        BY ONLY <3>1, <3>2, <3>3, <3>4
    <2>2. QED
      BY <1>1, <2>1 DEF ServerInv, HeldInv
  <1>10. PoolInv' /\ FdInv' /\ DescriptorsAccounted'
    BY <1>1 DEF ServerInv, PoolInv, FdInv, DescriptorsAccounted
  <1>11. QED
    BY <1>4, <1>5, <1>7, <1>8, <1>9, <1>10 DEF ServerInv

\* The end of a batch lets go of what it called.
LEMMA BatchEndsInv ==
  ASSUME ServerInv, NEW l \in Loops, BatchEnds(l)
  PROVE  ServerInv'
  <1>1. /\ spent' = [spent EXCEPT ![l] = {}]
        /\ alive' = alive \cap Held(connectionMap_, pending, batch, spent')
        /\ inUse' = inUse \ {fd[c] : c \in alive \ alive'}
        /\ UNCHANGED <<listenning_, nextConnId_, connectionMap_, fd, home, phase, pending, batch,
                       handling, dropped>>
        /\ UNCHANGED <<numThreads_, loops_, next_>>
        /\ UNCHANGED <<clients, backlog, gone>>
    BY DEF BatchEnds, pool, peers
  <1>2. alive' \subseteq alive
    BY <1>1
  <1>3. \A c \in alive : fd[c] \notin dropped
    BY DEF ServerInv, FdInv
  <1>4. inUse' = {fd'[c] : c \in alive'} \cup dropped'
    <2>1. inUse = {fd[c] : c \in alive} \cup dropped
      BY DEF ServerInv, DescriptorsAccounted
    <2>2. \A c \in alive', d \in alive \ alive' : fd[c] # fd[d]
      BY <1>2 DEF ServerInv, DescriptorsAccounted
    <2>3. QED
      BY <1>1, <1>2, <1>3, <2>1, <2>2
  <1>5. TypeOK'
    <2>1. spent' \in [Loops -> SUBSET ConnIds]
      BY <1>1 DEF ServerInv, TypeOK
    <2>2. inUse' \subseteq Fds /\ dropped' \subseteq inUse' /\ alive' \subseteq ConnIds
      BY <1>1, <1>2, <1>4 DEF ServerInv, TypeOK
    <2>3. QED
      BY <1>1, <2>1, <2>2 DEF ServerInv, TypeOK
  <1>6. PoolInv' /\ OnceInv' /\ HandlingInv'
    BY <1>1 DEF ServerInv, PoolInv, OnceInv, HandlingInv
  <1>7. \A c \in ConnIds : ConnInv(c)'
    BY <1>1, <1>2, Untouched DEF SameLife, Waiting
  <1>8. HeldInv'
    <2>1. \A k \in Loops : spent'[k] \subseteq spent[k] /\ Waiting(k)' = Waiting(k)
      BY <1>1 DEF ServerInv, TypeOK, Waiting
    <2>2. \A d : d \in Held(connectionMap_, pending, batch, spent) <=>
            \/ d \in connectionMap_
            \/ \E k \in Loops : d \in spent[k] \/ \E g \in Waiting(k) : g.conn = d
      BY HeldNow DEF ServerInv
    <2>3. \A d : d \in Held(connectionMap_', pending', batch', spent') =>
                 d \in Held(connectionMap_, pending, batch, spent)
      <3>1. \A d : d \in Held(connectionMap_', pending', batch', spent') <=>
              \/ d \in connectionMap_'
              \/ \E k \in Loops : d \in spent'[k] \/ \E g \in Waiting(k)' : g.conn = d
        BY <1>5, HeldNext
      <3>2. connectionMap_' = connectionMap_
        BY <1>1
      <3>3. \A d : (\E k \in Loops : \E g \in Waiting(k)' : g.conn = d) =>
                   (\E k \in Loops : \E g \in Waiting(k) : g.conn = d)
        BY ONLY <2>1
      <3>4. \A d : (\E k \in Loops : d \in spent'[k]) => (\E k \in Loops : d \in spent[k])
        BY ONLY <2>1
      <3>5. QED
        BY ONLY <2>2, <3>1, <3>2, <3>3, <3>4
    <2>4. Held(connectionMap_', pending', batch', spent') =
          Held(connectionMap_, pending, batch, spent')
      BY <1>1
    <2>5. QED
      BY <1>1, <2>3, <2>4 DEF ServerInv, HeldInv
  <1>9. FdInv' /\ DescriptorsAccounted'
    BY <1>1, <1>2, <1>4 DEF ServerInv, FdInv, DescriptorsAccounted
  <1>10. QED
    BY <1>5, <1>6, <1>7, <1>8, <1>9 DEF ServerInv

\* What calling a functor changes whatever it does.
LEMMA Calls ==
  ASSUME ServerInv, NEW l \in Loops, CallFunctor(l)
  PROVE  \E c \in ConnIds :
           /\ batch[l] # <<>>
           /\ Head(batch[l]) \in {Est(c), Rem(c), Dis(c)}
           /\ Head(batch[l]) \in Waiting(l)
           /\ batch' = [batch EXCEPT ![l] = Tail(@)]
           /\ batch' \in [Loops -> Seq(Functor)]
           /\ spent' = [spent EXCEPT ![l] = @ \cup {c}]
           /\ spent' \in [Loops -> SUBSET ConnIds]
           /\ handling[l] = None
           /\ \/ /\ Head(batch[l]) = Est(c)
                 /\ phase' = [phase EXCEPT ![c] = "up"]
                 /\ UNCHANGED <<connectionMap_, pending>>
              \/ /\ Head(batch[l]) = Rem(c)
                 /\ removeConnectionInLoop(c)
                 /\ UNCHANGED phase
              \/ /\ Head(batch[l]) = Dis(c)
                 /\ phase' = [phase EXCEPT ![c] = "down"]
                 /\ UNCHANGED <<connectionMap_, pending>>
  <1>1. batch[l] # <<>> /\ batch' = [batch EXCEPT ![l] = Tail(@)]
    BY DEF CallFunctor
  <1>2. /\ batch' \in [Loops -> Seq(Functor)]
        /\ Head(batch[l]) \in Functor
        /\ Head(batch[l]) \in Waiting(l)
    BY <1>1, Popped DEF ServerInv, Waiting
  <1>3. PICK c \in ConnIds : c = Head(batch[l]).conn
    BY <1>2, Functors
  <1>4. spent' = [spent EXCEPT ![l] = @ \cup {c}]
    BY <1>3 DEF CallFunctor
  <1>5. spent' \in [Loops -> SUBSET ConnIds]
    BY <1>4 DEF ServerInv, TypeOK
  <1>6. /\ Head(batch[l]).call = "connectEstablished" => Head(batch[l]) = Est(c)
        /\ Head(batch[l]).call = "removeConnectionInLoop" => Head(batch[l]) = Rem(c)
        /\ Head(batch[l]).call = "connectDistroyed" => Head(batch[l]) = Dis(c)
        /\ Head(batch[l]) \in {Est(c), Rem(c), Dis(c)}
    BY <1>2, <1>3, Functors DEF Est, Rem, Dis
  <1>7. handling[l] = None
    BY <1>1 DEF ServerInv, HandlingInv
  <1>8. \/ /\ Head(batch[l]) = Est(c)
           /\ phase' = [phase EXCEPT ![c] = "up"]
           /\ UNCHANGED <<connectionMap_, pending>>
        \/ /\ Head(batch[l]) = Rem(c)
           /\ removeConnectionInLoop(c)
           /\ UNCHANGED phase
        \/ /\ Head(batch[l]) = Dis(c)
           /\ phase' = [phase EXCEPT ![c] = "down"]
           /\ UNCHANGED <<connectionMap_, pending>>
    BY <1>3, <1>6 DEF CallFunctor
  <1>9. QED
    BY <1>1, <1>2, <1>4, <1>5, <1>6, <1>7, <1>8

\* A functor that sets the phase and queues nothing.
LEMMA CallPhaseInv ==
  ASSUME ServerInv, NEW l \in Loops, CallFunctor(l), NEW c \in ConnIds,
         batch[l] # <<>>,
         Head(batch[l]) \in Waiting(l),
         batch' = [batch EXCEPT ![l] = Tail(@)],
         batch' \in [Loops -> Seq(Functor)],
         spent' = [spent EXCEPT ![l] = @ \cup {c}],
         spent' \in [Loops -> SUBSET ConnIds],
         handling[l] = None,
         UNCHANGED <<connectionMap_, pending>>,
         \/ Head(batch[l]) = Est(c) /\ phase' = [phase EXCEPT ![c] = "up"]
         \/ Head(batch[l]) = Dis(c) /\ phase' = [phase EXCEPT ![c] = "down"]
  PROVE  ServerInv'
  <1> DEFINE g == Head(batch[l])
  <1>1. /\ UNCHANGED <<numThreads_, loops_, next_, listenning_, nextConnId_, fd, home, alive>>
        /\ UNCHANGED <<handling, inUse, dropped, clients, backlog, gone>>
    BY DEF CallFunctor, pool, peers
  <1>2. /\ OnceInv'
        /\ \A k \in Loops : Waiting(k)' = IF k = l THEN Waiting(l) \ {g} ELSE Waiting(k)
    BY PoppedOnly DEF ServerInv
  <1>3. g = Est(c) \/ g = Dis(c)
    OBVIOUS
  <1>p. phase \in [ConnIds -> Phases] /\ {"up", "down"} \subseteq Phases /\ Est(c) # Dis(c)
    BY Functors DEF ServerInv, TypeOK, Phases
  <1>q. phase' = [phase EXCEPT ![c] = IF g = Est(c) THEN "up" ELSE "down"]
    BY <1>p
  <1>4. /\ \A d \in ConnIds : phase'[d] = IF d = c THEN (IF g = Est(c) THEN "up" ELSE "down")
                                          ELSE phase[d]
        /\ phase' \in [ConnIds -> Phases]
    BY ONLY <1>p, <1>q
  <1>5. /\ g = Est(c) => l = home[c] /\ phase[c] = "new"
        /\ g = Dis(c) => l = home[c] /\ phase[c] = "closed"
        /\ ConnInv(c)
    BY DEF ServerInv, ConnInv
  <1>t. TypeOK'
    BY <1>1, <1>4 DEF ServerInv, TypeOK
  <1> HIDE DEF g
  <1>6. ConnInv(c)'
    <2>1. Base \in Loops /\ l = home[c]
      BY <1>3, <1>5 DEF Loops
    <2>2. g = Dis(c) => Rem(c) \notin Waiting(Base)
      BY <1>5, <2>1 DEF ConnInv, g
    <2>3. CASE g = Est(c)
      <3>1. /\ phase[c] = "new" /\ phase'[c] = "up"
            /\ \A k \in Loops : Rem(c) \notin Waiting(k) /\ Dis(c) \notin Waiting(k)
            /\ \A k \in Loops : Est(c) \in Waiting(k) => k = l
        BY <1>4, <1>5, <2>1, <2>3 DEF ConnInv
      <3>2. \A k \in Loops : /\ Est(c) \notin Waiting(k)'
                             /\ Rem(c) \notin Waiting(k)'
                             /\ Dis(c) \notin Waiting(k)'
        BY <1>2, <2>3, <3>1
      <3>3. c \in connectionMap_ /\ ~(c >= nextConnId_)
        BY <1>5, <3>1 DEF ConnInv
      <3>4. QED
        BY <1>1, <2>1, <3>1, <3>2, <3>3 DEF ConnInv
    <2>4. CASE g = Dis(c)
      <3>1. /\ phase[c] = "closed" /\ phase'[c] = "down"
            /\ \A k \in Loops : Est(c) \notin Waiting(k) /\ Rem(c) \notin Waiting(k)
            /\ \A k \in Loops : Dis(c) \in Waiting(k) => k = l
        BY <1>4, <1>5, <2>1, <2>2, <2>4, Functors DEF ConnInv
      <3>2. \A k \in Loops : /\ Est(c) \notin Waiting(k)'
                             /\ Rem(c) \notin Waiting(k)'
                             /\ Dis(c) \notin Waiting(k)'
        BY <1>2, <2>4, <3>1
      <3>3. c \notin connectionMap_ /\ ~(c >= nextConnId_)
        BY <1>5, <2>1, <3>1 DEF ConnInv
      <3>4. QED
        BY <1>1, <2>1, <3>1, <3>2, <3>3 DEF ConnInv
    <2>5. QED
      BY <1>3, <2>3, <2>4
  <1>7. ASSUME NEW d \in ConnIds, d # c
        PROVE  ConnInv(d)'
    <2>1. g # Est(d) /\ g # Rem(d) /\ g # Dis(d)
      BY <1>3, <1>7, Functors
    <2>2. SameLife(d)
      BY <1>1, <1>2, <1>4, <1>7, <2>1 DEF SameLife
    <2>3. QED
      BY <2>2, Untouched
  <1>8. HandlingInv'
    <2> SUFFICES ASSUME NEW k \in Loops, handling[k] # None
                 PROVE  /\ home[handling[k]] = k
                        /\ phase'[handling[k]] = "closed"
                        /\ batch'[k] = <<>>
      BY <1>1 DEF HandlingInv
    <2>1. /\ handling[k] \in ConnIds /\ home[handling[k]] = k
          /\ phase[handling[k]] = "closed" /\ batch[k] = <<>>
      BY DEF ServerInv, TypeOK, HandlingInv
    <2>2. k # l /\ handling[k] # c
      BY <1>3, <1>5, <2>1
    <2>3. batch'[k] = <<>>
      BY <2>1, <2>2 DEF ServerInv, TypeOK
    <2>4. QED
      BY <1>4, <2>1, <2>2, <2>3
  <1>9. HeldInv'
    <2>1. g.conn = c /\ g \in Waiting(l)
      BY <1>3, Functors DEF g
    <2>2. \A d : d \in Held(connectionMap_, pending, batch, spent) <=>
            \/ d \in connectionMap_
            \/ \E k \in Loops : d \in spent[k] \/ \E f \in Waiting(k) : f.conn = d
      BY HeldNow DEF ServerInv
    <2>3. \A d : d \in Held(connectionMap_', pending', batch', spent') <=>
            \/ d \in connectionMap_'
            \/ \E k \in Loops : d \in spent'[k] \/ \E f \in Waiting(k)' : f.conn = d
      BY <1>t, HeldNext
    <2>4. \A d : (\E k \in Loops : d \in spent'[k]) <=> d = c \/ \E k \in Loops : d \in spent[k]
      BY DEF ServerInv, TypeOK
    <2>5. \A d : d # c => ((\E k \in Loops : \E f \in Waiting(k)' : f.conn = d) <=>
                           (\E k \in Loops : \E f \in Waiting(k) : f.conn = d))
      BY <1>2, <2>1
    <2>6. \A d : d \in Held(connectionMap_', pending', batch', spent') <=>
                 d \in Held(connectionMap_, pending, batch, spent)
      <3>1. connectionMap_' = connectionMap_
        OBVIOUS
      <3>2. QED
        BY ONLY <2>1, <2>2, <2>3, <2>4, <2>5, <3>1
    <2>7. QED
      BY <1>1, <2>6 DEF ServerInv, HeldInv
  <1>10. PoolInv' /\ FdInv' /\ DescriptorsAccounted'
    BY <1>1 DEF ServerInv, PoolInv, FdInv, DescriptorsAccounted
  <1>11. QED
    BY <1>2, <1>6, <1>7, <1>8, <1>9, <1>10, <1>t DEF ServerInv

\* removeConnectionInLoop() as a functor: it queues the last one of the connection.
LEMMA CallRemoveInv ==
  ASSUME ServerInv, NEW l \in Loops, CallFunctor(l), NEW c \in ConnIds,
         batch[l] # <<>>,
         Head(batch[l]) \in Waiting(l),
         batch' = [batch EXCEPT ![l] = Tail(@)],
         batch' \in [Loops -> Seq(Functor)],
         spent' = [spent EXCEPT ![l] = @ \cup {c}],
         spent' \in [Loops -> SUBSET ConnIds],
         Head(batch[l]) = Rem(c),
         removeConnectionInLoop(c),
         UNCHANGED phase
  PROVE  ServerInv'
  <1>1. /\ UNCHANGED <<numThreads_, loops_, next_, listenning_, nextConnId_, fd, home, alive>>
        /\ UNCHANGED <<handling, inUse, dropped, clients, backlog, gone, phase>>
    BY DEF CallFunctor, pool, peers
  <1>2. /\ Rem(c) \in Waiting(l)
        /\ l = Base
        /\ home[c] \in Loops /\ home[c] # l
        /\ phase[c] = "closed"
        /\ Dis(c) \notin Waiting(home[c])
        /\ ConnInv(c)
    BY DEF ServerInv, ConnInv, TypeOK
  <1>3. connectionMap_' = connectionMap_ \ {c} /\ queueInLoop(home[c], Dis(c))
    BY DEF removeConnectionInLoop, Dis
  <1>4. Dis(c) \in Functor
    BY Functors
  <1>5. /\ OnceInv'
        /\ \A k \in Loops : Waiting(k)' = IF k = l THEN Waiting(l) \ {Rem(c)}
                                          ELSE IF k = home[c] THEN Waiting(home[c]) \cup {Dis(c)}
                                          ELSE Waiting(k)
    BY <1>2, <1>3, <1>4, PoppedAndPushed DEF ServerInv
  <1>6. TypeOK'
    <2>1. pending' \in [Loops -> Seq(Functor)]
      BY <1>2, <1>3, <1>4, Pushed DEF ServerInv
    <2>2. connectionMap_' \subseteq ConnIds
      BY <1>3 DEF ServerInv, TypeOK
    <2>3. QED
      BY <1>1, <2>1, <2>2 DEF ServerInv, TypeOK
  <1>7. ConnInv(c)'
    <2>1. \A k \in Loops : Est(c) \notin Waiting(k) /\ (Rem(c) \in Waiting(k) => k = l)
                           /\ Dis(c) \notin Waiting(k)
      BY <1>2 DEF ConnInv
    <2>2. \A k \in Loops : /\ Est(c) \notin Waiting(k)'
                           /\ Rem(c) \notin Waiting(k)'
                           /\ Dis(c) \in Waiting(k)' <=> k = home[c]
      BY <1>2, <1>5, <2>1, Functors
    <2>3. c \notin connectionMap_' /\ ~(c >= nextConnId_)
      BY <1>2, <1>3 DEF ConnInv
    <2>4. QED
      BY <1>1, <1>2, <2>2, <2>3 DEF ConnInv
  <1>8. ASSUME NEW d \in ConnIds, d # c
        PROVE  ConnInv(d)'
    <2>1. /\ Dis(c) # Est(d) /\ Dis(c) # Rem(d) /\ Dis(c) # Dis(d)
          /\ Rem(c) # Est(d) /\ Rem(c) # Rem(d) /\ Rem(c) # Dis(d)
      BY <1>8, Functors
    <2>2. SameLife(d)
      BY <1>1, <1>3, <1>5, <1>8, <2>1 DEF SameLife
    <2>3. QED
      BY <2>2, Untouched
  <1>9. HandlingInv'
    <2> SUFFICES ASSUME NEW k \in Loops, handling[k] # None
                 PROVE  /\ home[handling[k]] = k
                        /\ phase[handling[k]] = "closed"
                        /\ batch'[k] = <<>>
      BY <1>1 DEF HandlingInv
    <2>1. /\ home[handling[k]] = k
          /\ phase[handling[k]] = "closed" /\ batch[k] = <<>>
      BY DEF ServerInv, HandlingInv
    <2>2. batch'[k] = <<>>
      BY <2>1 DEF ServerInv, TypeOK
    <2>3. QED
      BY <2>1, <2>2
  <1>10. HeldInv'
    <2>1. Rem(c).conn = c /\ Dis(c).conn = c
      BY Functors
    <2>2. \A d : d \in Held(connectionMap_, pending, batch, spent) <=>
            \/ d \in connectionMap_
            \/ \E k \in Loops : d \in spent[k] \/ \E f \in Waiting(k) : f.conn = d
      BY HeldNow DEF ServerInv
    <2>3. \A d : d \in Held(connectionMap_', pending', batch', spent') <=>
            \/ d \in connectionMap_'
            \/ \E k \in Loops : d \in spent'[k] \/ \E f \in Waiting(k)' : f.conn = d
      BY <1>6, HeldNext
    <2>4. \A d : (\E k \in Loops : d \in spent'[k]) <=> d = c \/ \E k \in Loops : d \in spent[k]
      BY DEF ServerInv, TypeOK
    <2>5. \A d : d # c => ((\E k \in Loops : \E f \in Waiting(k)' : f.conn = d) <=>
                           (\E k \in Loops : \E f \in Waiting(k) : f.conn = d))
      BY <1>2, <1>5, <2>1
    <2>6. \A d : d # c => (d \in connectionMap_' <=> d \in connectionMap_)
      BY <1>3
    <2>7. \A d : d \in Held(connectionMap_', pending', batch', spent') <=>
                 d \in Held(connectionMap_, pending, batch, spent)
      BY ONLY <1>2, <2>1, <2>2, <2>3, <2>4, <2>5, <2>6
    <2>8. QED
      BY <1>1, <2>7 DEF ServerInv, HeldInv
  <1>11. PoolInv' /\ FdInv' /\ DescriptorsAccounted'
    BY <1>1 DEF ServerInv, PoolInv, FdInv, DescriptorsAccounted
  <1>12. QED
    BY <1>5, <1>6, <1>7, <1>8, <1>9, <1>10, <1>11 DEF ServerInv

\* start() fills the pool.
LEMMA StartInv ==
  ASSUME ServerInv, Start
  PROVE  ServerInv'
  <1>1. /\ ~listenning_ /\ listenning_'
        /\ loops_' = [i \in 1..numThreads_ |-> i]
        /\ UNCHANGED <<numThreads_, next_, nextConnId_, connectionMap_, handling, inUse, dropped>>
        /\ UNCHANGED <<fd, home, phase, alive>>
        /\ UNCHANGED <<pending, batch, spent>>
        /\ UNCHANGED <<clients, backlog, gone>>
    BY DEF Start, ServerInv, TypeOK, conns, queues, peers
  <1>2. numThreads_ \in Nat /\ 1..numThreads_ \subseteq IOLoops
    BY TcpServerAssumption DEF ServerInv, TypeOK, IOLoops
  <1>3. loops_' \in Seq(IOLoops) /\ Len(loops_') = numThreads_
    BY <1>1, <1>2, IsASeq
  <1>4. PoolInv'
    <2>1. loops_' # <<>> => numThreads_ # 0
      BY <1>3, EmptySeq
    <2>2. next_ = 0
      BY <1>1 DEF ServerInv, PoolInv
    <2>3. QED
      BY <1>1, <1>2, <1>3, <2>1, <2>2 DEF ServerInv, PoolInv
  <1>5. TypeOK'
    BY <1>1, <1>3 DEF ServerInv, TypeOK
  <1>6. OnceInv' /\ HandlingInv' /\ HeldInv' /\ FdInv' /\ DescriptorsAccounted'
    BY <1>1 DEF ServerInv, OnceInv, HandlingInv, HeldInv, FdInv, DescriptorsAccounted
  <1>7. \A c \in ConnIds : ConnInv(c)'
    BY <1>1, Untouched DEF SameLife, Waiting
  <1>8. QED
    BY <1>4, <1>5, <1>6, <1>7 DEF ServerInv

\* The numbers of clients that came, that wait and that were served.
LEMMA MoreClients ==
  ASSUME NEW next \in Int, NEW waiting \in Int, NEW came \in Int, NEW limit \in Int,
         NEW waits \in Int, NEW comes \in Int,
         next >= 1, waiting >= 0, came >= 0, next - 1 + waiting <= came,
         waiting <= waits, came <= comes, comes <= limit, waits - waiting <= comes - came
  PROVE  next - 1 + waits <= comes /\ comes \in 0..limit /\ waits \in 0..limit
  OBVIOUS

\* Every step keeps the invariant.
LEMMA StepInv == ServerInv /\ [Next]_vars => ServerInv'
  <1> SUFFICES ASSUME ServerInv, [Next]_vars PROVE ServerInv'
    OBVIOUS
  <1>1. CASE Start
    BY <1>1, StartInv
  <1>2. CASE NewConnection
    BY <1>2, NewConnectionInv
  <1>3. CASE DropConnection
    BY <1>3, DropConnectionInv
  <1>4. ASSUME NEW c \in ConnIds, HandleClose(c) PROVE ServerInv'
    BY <1>4, HandleCloseInv
  <1>5. ASSUME NEW l \in Loops, HandleEventReturns(l) PROVE ServerInv'
    <2>1. /\ handling' = [handling EXCEPT ![l] = None]
          /\ UNCHANGED <<listenning_, nextConnId_, connectionMap_, inUse, dropped>>
          /\ UNCHANGED <<numThreads_, loops_, next_>>
          /\ UNCHANGED <<fd, home, phase, alive>>
          /\ UNCHANGED <<pending, batch, spent>>
          /\ UNCHANGED <<clients, backlog, gone>>
      BY <1>5 DEF HandleEventReturns, pool, conns, queues, peers
    <2>2. TypeOK' /\ HandlingInv'
      BY <2>1 DEF ServerInv, TypeOK, HandlingInv
    <2>3. PoolInv' /\ OnceInv' /\ HeldInv' /\ FdInv' /\ DescriptorsAccounted'
      BY <2>1 DEF ServerInv, PoolInv, OnceInv, HeldInv, FdInv, DescriptorsAccounted
    <2>4. \A c \in ConnIds : ConnInv(c)'
      BY <2>1, Untouched DEF SameLife, Waiting
    <2>5. QED
      BY <2>2, <2>3, <2>4 DEF ServerInv
  <1>6. ASSUME NEW l \in Loops, SwapPending(l) PROVE ServerInv'
    BY <1>6, SwapPendingInv
  <1>7. ASSUME NEW l \in Loops, CallFunctor(l) PROVE ServerInv'
    BY <1>7, Calls, CallPhaseInv, CallRemoveInv
  <1>8. ASSUME NEW l \in Loops, BatchEnds(l) PROVE ServerInv'
    BY <1>8, BatchEndsInv
  <1>9. ASSUME UNCHANGED <<listenning_, nextConnId_, connectionMap_, handling, inUse, dropped>>,
               UNCHANGED pool, UNCHANGED conns, UNCHANGED queues,
               clients' \in Int, clients <= clients', clients' <= MaxClients,
               backlog' \in Int, backlog <= backlog', backlog' - backlog <= clients' - clients,
               gone' \subseteq ConnIds
        PROVE  ServerInv'
    <2>1. /\ UNCHANGED <<numThreads_, loops_, next_>>
          /\ UNCHANGED <<fd, home, phase, alive>>
          /\ UNCHANGED <<pending, batch, spent>>
      BY <1>9 DEF pool, conns, queues
    <2>2. /\ nextConnId_ \in Int /\ nextConnId_ >= 1
          /\ clients \in Int /\ clients >= 0
          /\ backlog \in Int /\ backlog >= 0
          /\ nextConnId_ - 1 + backlog <= clients
          /\ MaxClients \in Int
      BY TcpServerAssumption DEF ServerInv, TypeOK, PoolInv
    <2>3. /\ nextConnId_' - 1 + backlog' <= clients'
          /\ clients' \in 0..MaxClients
          /\ backlog' \in 0..MaxClients
      <3>1. /\ nextConnId_' = nextConnId_
            /\ clients' \in Int /\ clients <= clients' /\ clients' <= MaxClients
            /\ backlog' \in Int /\ backlog <= backlog'
            /\ backlog' - backlog <= clients' - clients
        BY <1>9
      <3>2. QED
        BY <2>2, <3>1, MoreClients
    <2>4. TypeOK' /\ PoolInv'
      BY <1>9, <2>1, <2>3 DEF ServerInv, TypeOK, PoolInv
    <2>5. OnceInv' /\ HandlingInv' /\ HeldInv' /\ FdInv' /\ DescriptorsAccounted'
      BY <1>9, <2>1 DEF ServerInv, OnceInv, HandlingInv, HeldInv, FdInv, DescriptorsAccounted
    <2>6. \A c \in ConnIds : ConnInv(c)'
      BY <1>9, <2>1, Untouched DEF SameLife, Waiting
    <2>7. QED
      BY <2>4, <2>5, <2>6 DEF ServerInv
  <1>10. /\ clients \in Int /\ MaxClients \in Int /\ backlog \in Int /\ gone \subseteq ConnIds
         /\ alive \subseteq ConnIds /\ clients <= MaxClients
    BY TcpServerAssumption DEF ServerInv, TypeOK
  <1>11. CASE ClientConnects
    BY <1>9, <1>10, <1>11 DEF ClientConnects
  <1>12. ASSUME NEW c \in ConnIds, ClientCloses(c) PROVE ServerInv'
    BY <1>9, <1>10, <1>12 DEF ClientCloses
  <1>13. CASE UNCHANGED vars
    BY <1>9, <1>10, <1>13 DEF vars, peers
  <1>14. QED
    BY <1>1, <1>2, <1>3, <1>4, <1>5, <1>6, <1>7, <1>8, <1>11, <1>12, <1>13 DEF Next

LEMMA Invariance == Spec => []ServerInv
  BY InitInv, StepInv, PTL DEF Spec

-----------------------------------------------------------------------------
(* What follows.                                                            *)

\* The variables have their types; in particular a connection gets a number no
\* other had, and a loop that exists.
THEOREM TypeCorrect == Spec => []TypeOK
  <1>1. ServerInv => TypeOK
    BY DEF ServerInv
  <1>2. QED
    BY <1>1, Invariance, PTL

\* No descriptor leaks or is given out while a connection still uses it.
THEOREM DescriptorsBelong == Spec => []DescriptorsAccounted
  <1>1. ServerInv => DescriptorsAccounted
    BY DEF ServerInv
  <1>2. QED
    BY <1>1, Invariance, PTL

\* A connection that a Poller or a running handleEvent() uses exists.
THEOREM UsedConnectionsLive == Spec => []AliveWhileUsed
  <1>1. ASSUME ServerInv PROVE AliveWhileUsed
    <2>1. \A c : (\E l \in Loops : \E f \in Waiting(l) : f.conn = c) \/ c \in connectionMap_
                 => c \in alive
      BY <1>1, HeldNow DEF ServerInv, HeldInv
    <2>2. ASSUME NEW c \in ConnIds, phase[c] \in {"new", "up", "closed"}
          PROVE  c \in alive
      <3>1. ConnInv(c) /\ home[c] \in Loops /\ Base \in Loops
        BY <1>1 DEF ServerInv, TypeOK, Loops
      <3>2. CASE phase[c] \in {"new", "up"}
        BY <2>1, <3>1, <3>2 DEF ConnInv
      <3>3. CASE phase[c] = "closed"
        BY <2>1, <3>1, <3>3, Functors DEF ConnInv
      <3>4. QED
        BY <2>2, <3>2, <3>3
    <2>3. ASSUME NEW l \in Loops, handling[l] # None
          PROVE  handling[l] \in alive
      BY <1>1, <2>2, <2>3 DEF ServerInv, TypeOK, HandlingInv
    <2>4. QED
      BY <2>2, <2>3 DEF AliveWhileUsed
  <1>2. QED
    BY <1>1, Invariance, PTL

\* removeConnectionInLoop() finds what it erases, under every order of the loops' functors:
\* the assertion after erase() holds for a connection that was closed once.
THEOREM MapIsRight == Spec => []MapAgrees
  <1>1. ASSUME ServerInv PROVE MapAgrees
    <2> DEFINE removals == {f \in UNION {Range(pending[l] \o batch[l]) : l \in Loops} :
                              f.call = "removeConnectionInLoop"}
    <2>1. \A l \in Loops : Range(pending[l] \o batch[l]) = Waiting(l)
      BY <1>1, RangeConcatenation DEF ServerInv, TypeOK, Waiting
    <2>2. \A l \in Loops : Waiting(l) \subseteq Functor
      BY <1>1, RangeOfSeq DEF ServerInv, TypeOK, Waiting
    <2>3. \A f \in removals : f.conn \in ConnIds /\ f = Rem(f.conn)
                              /\ \E l \in Loops : f \in Waiting(l)
      BY <2>1, <2>2, Functors DEF Rem
    <2>4. \A f \in removals : Rem(f.conn) \in Waiting(Base) /\ f.conn \in connectionMap_
      BY <1>1, <2>3 DEF ServerInv, ConnInv
    <2>5. \A c \in ConnIds : Rem(c) \in Waiting(Base) => Rem(c) \in removals /\ Rem(c).conn = c
      <3>1. Base \in Loops
        BY DEF Loops
      <3>2. QED
        BY <2>1, <3>1, Functors
    <2> HIDE DEF removals
    <2>6. connectionMap_ \subseteq ConnIds /\ \A c \in ConnIds : ConnInv(c)
      BY <1>1 DEF ServerInv, TypeOK
    <2>7. \A c \in ConnIds : c \in connectionMap_ <=> phase[c] \in {"new", "up"} \/ Rem(c) \in Waiting(Base)
      BY <2>6 DEF ConnInv
    <2>8. connectionMap_ = {c \in ConnIds : phase[c] \in {"new", "up"}} \cup {f.conn : f \in removals}
      BY <2>3, <2>4, <2>5, <2>6, <2>7
    <2>9. QED
      BY <2>8 DEF MapAgrees, removals
  <1>2. QED
    BY <1>1, Invariance, PTL

-----------------------------------------------------------------------------
(* The shares of the loops.                                                 *)

LEMMA SharesInit == Init => ShareInv
  BY DEF Init, ShareInv

\* The connections of a loop are finitely many.
LEMMA SharesFinite ==
  ASSUME TypeOK, NEW l
  PROVE  IsFiniteSet(ConnectionsOn(l)) /\ Cardinality(ConnectionsOn(l)) \in Nat
  <1>1. nextConnId_ - 1 \in Int
    BY TcpServerAssumption DEF TypeOK
  <1>2. IsFiniteSet(1..(nextConnId_ - 1))
    BY <1>1, FS_Interval
  <1>3. ConnectionsOn(l) \in SUBSET (1..(nextConnId_ - 1))
    BY DEF ConnectionsOn
  <1>4. IsFiniteSet(ConnectionsOn(l))
    BY <1>2, <1>3, FS_Subset
  <1>5. QED
    BY <1>4, FS_CardinalityType

\* The connections of the loops after one more is given to loop l.
LEMMA OneMore ==
  ASSUME TypeOK, nextConnId_ \in ConnIds, nextConnId_' = nextConnId_ + 1,
         NEW l \in Loops, home' = [home EXCEPT ![nextConnId_] = l]
  PROVE  \A k : Cardinality(ConnectionsOn(k)') =
                  IF k = l THEN Cardinality(ConnectionsOn(k)) + 1
                  ELSE Cardinality(ConnectionsOn(k))
  <1>1. /\ nextConnId_ \in Nat /\ nextConnId_ >= 1
        /\ 1..nextConnId_ \subseteq ConnIds
        /\ 1..(nextConnId_' - 1) = 1..(nextConnId_ - 1) \cup {nextConnId_}
        /\ nextConnId_ \notin 1..(nextConnId_ - 1)
    BY TcpServerAssumption DEF TypeOK, ConnIds
  <1>2. \A c \in ConnIds : home'[c] = IF c = nextConnId_ THEN l ELSE home[c]
    BY DEF TypeOK
  <1>3. 1..(nextConnId_ - 1) \subseteq ConnIds
    BY <1>1
  <1>4. \A k : ConnectionsOn(k)' = IF k = l THEN ConnectionsOn(k) \cup {nextConnId_}
                                   ELSE ConnectionsOn(k)
    BY <1>1, <1>2, <1>3 DEF ConnectionsOn
  <1>5. \A k : nextConnId_ \notin ConnectionsOn(k)
    BY <1>1 DEF ConnectionsOn
  <1>6. QED
    BY <1>4, <1>5, SharesFinite, FS_AddElement

LEMMA SharesStep == ServerInv /\ ShareInv /\ [Next]_vars => ShareInv'
  <1> SUFFICES ASSUME ServerInv, ShareInv, [Next]_vars PROVE ShareInv'
    OBVIOUS
  <1>1. CASE UNCHANGED <<loops_, nextConnId_, home, numThreads_, next_>>
    BY <1>1 DEF ShareInv, ConnectionsOn
  <1>2. CASE Start
    <2>1. /\ nextConnId_ = 1 /\ nextConnId_' = 1 /\ next_' = 0 /\ numThreads_' = numThreads_
          /\ numThreads_ \in Nat
      BY <1>2, TcpServerAssumption DEF Start, ServerInv, PoolInv, TypeOK
    <2>2. 1..(nextConnId_' - 1) = {}
      BY <2>1
    <2>3. \A l : Cardinality(ConnectionsOn(l)') = 0
      BY <2>2, FS_EmptySet DEF ConnectionsOn
    <2>4. \A l \in 1..numThreads_' : Cardinality(ConnectionsOn(l)') = IF l <= next_' THEN 0 + 1 ELSE 0
      BY <2>1, <2>3
    <2>5. QED
      BY <2>2, <2>4 DEF ShareInv
  <1>3. CASE NewConnection
    <2>1. /\ nextConnId_' = nextConnId_ + 1
          /\ home' = [home EXCEPT ![nextConnId_] = NextLoop]
          /\ AdvanceNext
          /\ UNCHANGED <<numThreads_, loops_>>
          /\ backlog > 0 /\ listenning_
      BY <1>3 DEF NewConnection, Accepts
    <2>2. nextConnId_ \in ConnIds
      BY <2>1, TcpServerAssumption DEF ServerInv, TypeOK, PoolInv, ConnIds
    <2>3. TypeOK /\ NextLoop \in Loops
      BY NextLoopIsALoop DEF ServerInv
    <2>4. \A c \in 1..(nextConnId_' - 1) : home'[c] = IF c = nextConnId_ THEN NextLoop ELSE home[c]
      BY <2>1, <2>2, TcpServerAssumption DEF ServerInv, TypeOK, ConnIds
    <2>5. \A c \in 1..(nextConnId_' - 1) : c # nextConnId_ => c \in 1..(nextConnId_ - 1)
      BY <2>1, <2>2 DEF ConnIds
    <2>6. CASE loops_ = <<>>
      BY <2>1, <2>4, <2>5, <2>6 DEF ShareInv, NextLoop
    <2>7. CASE loops_ # <<>>
      <3>1. /\ numThreads_ \in Nat
            /\ loops_ = [i \in 1..numThreads_ |-> i]
            /\ Len(loops_) = numThreads_
            /\ next_ \in Nat /\ next_ < numThreads_
        <4>1. numThreads_ \in Nat /\ next_ \in Nat
          BY TcpServerAssumption DEF ServerInv, TypeOK
        <4>2. loops_ = [i \in 1..numThreads_ |-> i] /\ next_ < Len(loops_)
          BY <2>1, <2>7 DEF ServerInv, PoolInv
        <4>3. Len(loops_) = numThreads_
          BY <4>1, <4>2, IsASeq
        <4>4. QED
          BY <4>1, <4>2, <4>3
      <3>2. NextLoop = next_ + 1 /\ next_ + 1 \in 1..numThreads_
        BY <2>7, <3>1 DEF NextLoop
      <3>3. next_' = IF next_ + 1 >= numThreads_ THEN 0 ELSE next_ + 1
        BY <2>1, <2>7, <3>1 DEF AdvanceNext, NextIndex
      <3>4. \A l : Cardinality(ConnectionsOn(l)') =
                     IF l = next_ + 1 THEN Cardinality(ConnectionsOn(l)) + 1
                     ELSE Cardinality(ConnectionsOn(l))
        BY <2>1, <2>2, <2>3, <3>2, OneMore
      <3>5. PICK q \in Nat : \A l \in 1..numThreads_ :
              Cardinality(ConnectionsOn(l)) = IF l <= next_ THEN q + 1 ELSE q
        BY <2>7 DEF ShareInv
      <3>6. \E r \in Nat : \A l \in 1..numThreads_ :
              Cardinality(ConnectionsOn(l)') = IF l <= next_' THEN r + 1 ELSE r
        <4>1. CASE next_ + 1 >= numThreads_
          <5>1. \A l \in 1..numThreads_ : Cardinality(ConnectionsOn(l)') = q + 1 /\ ~(l <= next_')
            BY <3>1, <3>3, <3>4, <3>5, <4>1
          <5>2. QED
            BY <5>1
        <4>2. CASE ~(next_ + 1 >= numThreads_)
          <5>1. \A l \in 1..numThreads_ :
                  Cardinality(ConnectionsOn(l)') = IF l <= next_' THEN q + 1 ELSE q
            BY <3>1, <3>3, <3>4, <3>5, <4>2
          <5>2. QED
            BY <5>1
        <4>3. QED
          BY <4>1, <4>2
      <3>7. \A c \in 1..(nextConnId_' - 1) : home'[c] \in 1..numThreads_
        BY <2>4, <2>5, <2>7, <3>2 DEF ShareInv
      <3>8. QED
        BY <2>1, <2>7, <3>6, <3>7 DEF ShareInv
    <2>8. QED
      BY <2>6, <2>7
  <1>4. CASE [Next]_vars /\ ~Start /\ ~NewConnection
    <2>1. UNCHANGED <<loops_, nextConnId_, home, numThreads_, next_>>
      BY <1>4 DEF Next, DropConnection, HandleClose, HandleEventReturns, SwapPending, CallFunctor,
                  BatchEnds, ClientConnects, ClientCloses, vars, pool, conns
    <2>2. QED
      BY <1>1, <2>1
  <1>5. QED
    BY <1>2, <1>3, <1>4

\* The I/O loops serve equal numbers of connections, to within one.
THEOREM SharesStayEqual == Spec => []SharesAreEqual
  <1>1. ASSUME ServerInv, ShareInv PROVE SharesAreEqual
    <2> DEFINE serving == IF loops_ = <<>> THEN {Base} ELSE Range(loops_)
    <2>1. \A l : Cardinality({c \in 1..(nextConnId_ - 1) : home[c] = l}) = Cardinality(ConnectionsOn(l))
                 /\ Cardinality(ConnectionsOn(l)) \in Nat
      BY <1>1, SharesFinite DEF ServerInv, ConnectionsOn
    <2>2. CASE loops_ = <<>>
      <3>1. \A c \in 1..(nextConnId_ - 1) : home[c] = Base
        BY <1>1, <2>2 DEF ShareInv
      <3>2. \A k, l \in {Base} : Cardinality(ConnectionsOn(k)) <= Cardinality(ConnectionsOn(l)) + 1
        BY <2>1
      <3>3. QED
        BY <2>1, <2>2, <3>1, <3>2 DEF SharesAreEqual
    <2>3. CASE loops_ # <<>>
      <3>1. loops_ = [i \in 1..numThreads_ |-> i]
        BY <1>1, <2>3 DEF ServerInv, PoolInv
      <3>2. Range(loops_) = 1..numThreads_
        BY <3>1 DEF Range
      <3>3. PICK q \in Nat : \A l \in 1..numThreads_ :
              Cardinality(ConnectionsOn(l)) = IF l <= next_ THEN q + 1 ELSE q
        BY <1>1, <2>3 DEF ShareInv
      <3>4. \A k, l \in 1..numThreads_ : Cardinality(ConnectionsOn(k)) <= Cardinality(ConnectionsOn(l)) + 1
        BY <3>3
      <3>5. \A c \in 1..(nextConnId_ - 1) : home[c] \in 1..numThreads_
        BY <1>1, <2>3 DEF ShareInv
      <3>6. QED
        BY <2>1, <2>3, <3>2, <3>4, <3>5 DEF SharesAreEqual
    <2>4. QED
      BY <2>2, <2>3
  <1>2. QED
    BY <1>1, Invariance, SharesInit, SharesStep, PTL DEF Spec

=============================================================================
