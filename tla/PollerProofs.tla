---------------------------- MODULE PollerProofs ----------------------------
(****************************************************************************)
(* Proofs about Poller for any set of channels and descriptors.             *)
(****************************************************************************)
EXTENDS Poller, SequenceTheorems, TLAPS

PollFd == [fd : Int, events : SUBSET Events]

LEMMA InitInv == Init => RegistryInv
  <1> SUFFICES ASSUME Init PROVE RegistryInv
    OBVIOUS
  <1>1. <<>> \in Seq(PollFd) /\ DOMAIN <<>> = {}
    BY EmptySeq, LenProperties
  <1>2. TypeOK
    BY <1>1 DEF Init, TypeOK, Lives, PollFd
  <1>3. QED
    BY <1>1, <1>2 DEF Init, RegistryInv, RegisteredInv, MapInv, FdInv, IndicesMatch, ActiveInv

\* The array's length and its entries.
LEMMA ArrayTypes ==
  ASSUME TypeOK
  PROVE  /\ Len(pollFds_) \in Nat
         /\ DOMAIN pollFds_ = 1..Len(pollFds_)
         /\ \A i \in 1..Len(pollFds_) : pollFds_[i] \in PollFd
  BY LenProperties, ElementOfSeq DEF TypeOK, PollFd

\* updateChannel() gets past its assertions for a registered channel only: the map has no
\* other.
LEMMA UpdatesRegistered ==
  ASSUME NEW c \in Channels, RegistryInv, UpdateAsserts(c)
  PROVE  life[c] = "registered"
  BY DEF RegistryInv, MapInv, UpdateAsserts

\* The array after Update: one entry differs.
LEMMA UpdatedArray ==
  ASSUME NEW c \in Channels, NEW events \in SUBSET Events, RegistryInv, Update(c, events)
  PROVE  /\ pollFds_' \in Seq(PollFd)
         /\ Len(pollFds_') = Len(pollFds_)
         /\ Entry(c) \in 1..Len(pollFds_)
         /\ pollFds_'[Entry(c)] = [fd |-> UpdatedFd(c, events), events |-> events]
         /\ \A i \in 1..Len(pollFds_) : i # Entry(c) => pollFds_'[i] = pollFds_[i]
  <1>1. Entry(c) \in 1..Len(pollFds_) /\ pollFds_ \in Seq(PollFd)
    BY ArrayTypes DEF Update, UpdateAsserts, RegistryInv, TypeOK, PollFd
  <1>2. UpdatedFd(c, events) \in Int
    BY <1>1, ArrayTypes, PollerAssumption DEF RegistryInv, TypeOK, PollFd, UpdatedFd, Muted
  <1>3. [fd |-> UpdatedFd(c, events), events |-> events] \in PollFd
    BY <1>2 DEF PollFd
  <1>4. QED
    BY <1>1, <1>3, ExceptSeq DEF Update

\* The array after Remove: the last entry has taken the place of the removed one.
LEMMA ShrunkArray ==
  ASSUME NEW c \in Channels, RegistryInv, Entry(c) \in 1..Len(pollFds_)
  PROVE  /\ Without(c) \in Seq(PollFd)
         /\ Len(Without(c)) = Len(pollFds_) - 1
         /\ \A i \in 1..(Len(pollFds_) - 1) :
              Without(c)[i] = IF i = Entry(c) THEN pollFds_[Len(pollFds_)] ELSE pollFds_[i]
  <1> DEFINE n == Len(pollFds_)
             swapped == [pollFds_ EXCEPT ![Entry(c)] = pollFds_[n]]
  <1>1. n \in Nat \ {0} /\ pollFds_ \in Seq(PollFd) /\ pollFds_[n] \in PollFd
    BY ArrayTypes DEF RegistryInv, TypeOK, PollFd
  <1>2. /\ swapped \in Seq(PollFd)
        /\ Len(swapped) = n
        /\ \A i \in 1..n : swapped[i] = IF i = Entry(c) THEN pollFds_[n] ELSE pollFds_[i]
    BY <1>1, ExceptSeq
  <1>3. \A i \in 1..(n - 1) : swapped[i] \in PollFd
    BY <1>1, <1>2, ElementOfSeq
  <1> HIDE DEF swapped
  <1>4. /\ SubSeq(swapped, 1, n - 1) \in Seq(PollFd)
        /\ Len(SubSeq(swapped, 1, n - 1)) = n - 1
        /\ \A i \in 1..(n - 1) : SubSeq(swapped, 1, n - 1)[i] = swapped[i]
    <2>1. 1 \in Int /\ n - 1 \in Int
      BY <1>1
    <2>2. /\ SubSeq(swapped, 1, n - 1) \in Seq(PollFd)
          /\ Len(SubSeq(swapped, 1, n - 1)) = IF 1 <= n - 1 THEN n - 1 - 1 + 1 ELSE 0
          /\ \A i \in 1..(n - 1 - 1 + 1) : SubSeq(swapped, 1, n - 1)[i] = swapped[1 + i - 1]
      BY <1>3, <2>1, SubSeqProperties
    <2>3. n - 1 - 1 + 1 = n - 1 /\ \A i \in 1..(n - 1) : 1 + i - 1 = i
      BY <1>1
    <2>4. QED
      BY <1>1, <2>2, <2>3
  <1>5. Without(c) = SubSeq(swapped, 1, n - 1)
    BY DEF Without, swapped
  <1>6. QED
    BY <1>1, <1>2, <1>4, <1>5

-----------------------------------------------------------------------------

LEMMA UpdateInv ==
  ASSUME NEW c \in Channels, NEW events \in SUBSET Events, RegistryInv, Update(c, events)
  PROVE  RegistryInv'
  <1> USE DEF RegistryInv
  <1>1. life[c] = "registered"
    BY UpdatesRegistered DEF Update
  <1>2. TypeOK'
    BY <1>1, UpdatedArray DEF Update, TypeOK, PollFd
  <1>3. ASSUME NEW d \in Channels, life[d] = "registered", d # c
        PROVE  Entry(d) # Entry(c)
    BY <1>1, <1>3 DEF IndicesMatch, Entry, TypeOK
  <1>4. RegisteredInv'
    <2>1. /\ UNCHANGED <<fd_, idx_, life, channels_>>
          /\ events_' = [events_ EXCEPT ![c] = events]
          /\ DOMAIN pollFds_' = DOMAIN pollFds_
      BY UpdatedArray, ArrayTypes, LenProperties DEF Update
    <2>2. ASSUME NEW d \in Channels, life[d] = "registered"
          PROVE  /\ UpdateAsserts(d)'
                 /\ pollFds_'[Entry(d)].events = events_'[d]
                 /\ events_'[d] = {} => pollFds_'[Entry(d)].fd = Muted(fd_[d])
      <3>1. CASE d = c
        <4>1. /\ UpdateAsserts(c)
              /\ pollFds_'[Entry(c)] = [fd |-> UpdatedFd(c, events), events |-> events]
          BY UpdatedArray DEF Update
        <4>2. events_'[c] = events
          BY <2>1 DEF TypeOK
        <4>3. /\ UpdatedFd(c, events) \in {fd_[c], Muted(fd_[c])}
              /\ events = {} => UpdatedFd(c, events) = Muted(fd_[c])
          BY <4>1 DEF UpdatedFd, UpdateAsserts
        <4>4. QED
          BY <2>1, <3>1, <4>1, <4>2, <4>3 DEF UpdateAsserts, Entry
      <3>2. CASE d # c
        <4>1. Entry(d) \in 1..Len(pollFds_)
          BY <2>2, ArrayTypes DEF RegisteredInv, UpdateAsserts
        <4>2. pollFds_'[Entry(d)] = pollFds_[Entry(d)] /\ events_'[d] = events_[d]
          BY <1>3, <2>1, <2>2, <3>2, <4>1, UpdatedArray DEF TypeOK
        <4>3. QED
          BY <2>1, <2>2, <4>2 DEF RegisteredInv, UpdateAsserts, Entry
      <3>3. QED
        BY <3>1, <3>2
    <2>3. QED
      BY <2>1, <2>2 DEF RegisteredInv, Entry
  <1>5. MapInv' /\ FdInv' /\ ActiveInv'
    BY DEF Update, MapInv, FdInv, ActiveInv
  <1>6. IndicesMatch'
    BY UpdatedArray, <1>1, ArrayTypes, LenProperties DEF Update, IndicesMatch, Entry
  <1>7. QED
    BY <1>2, <1>4, <1>5, <1>6

LEMMA AddInv ==
  ASSUME NEW c \in Channels, NEW events \in SUBSET Events, RegistryInv, Add(c, events)
  PROVE  RegistryInv'
  <1> USE DEF RegistryInv
  <1> DEFINE n == Len(pollFds_)
             new == [fd |-> fd_[c], events |-> events]
  <1>1. new \in PollFd /\ pollFds_ \in Seq(PollFd) /\ fd_[c] \in Int
    BY PollerAssumption DEF TypeOK, PollFd
  <1>2. /\ n \in Nat
        /\ pollFds_' \in Seq(PollFd)
        /\ Len(pollFds_') = n + 1
        /\ \A i \in 1..n : pollFds_'[i] = pollFds_[i]
        /\ pollFds_'[n + 1] = new
    BY <1>1, AppendProperties, LenProperties DEF Add
  <1>3. DOMAIN pollFds_ = 1..n /\ DOMAIN pollFds_' = 1..(n + 1)
    BY <1>1, <1>2, LenProperties
  <1> HIDE DEF n, new
  <1>4. TypeOK'
    BY <1>2 DEF Add, TypeOK, PollFd, n, Lives
  <1>5. /\ idx_'[c] = n
        /\ \A d \in Channels : d # c => idx_'[d] = idx_[d] /\ life'[d] = life[d]
        /\ life'[c] = "registered"
        /\ life[c] = "new"
        /\ fd_[c] \notin DOMAIN channels_
        /\ DOMAIN channels_' = DOMAIN channels_ \cup {fd_[c]}
        /\ channels_'[fd_[c]] = c
        /\ \A fd \in DOMAIN channels_ : channels_'[fd] = channels_[fd]
    BY DEF Add, TypeOK, n, AddAsserts
  <1>6. RegisteredInv'
    <2> SUFFICES ASSUME NEW d \in Channels, life'[d] = "registered"
                 PROVE  /\ UpdateAsserts(d)'
                        /\ pollFds_'[Entry(d)'].events = events_'[d]
                        /\ events_'[d] = {} => pollFds_'[Entry(d)'].fd = Muted(fd_'[d])
      BY DEF RegisteredInv
    <2>1. CASE d = c
      BY <1>2, <1>3, <1>5, <2>1 DEF Add, UpdateAsserts, Entry, new, TypeOK
    <2>2. CASE d # c
      BY <1>2, <1>3, <1>5, <2>2 DEF Add, RegisteredInv, UpdateAsserts, Entry, TypeOK
    <2>3. QED
      BY <2>1, <2>2
  <1>7. MapInv'
    BY <1>5 DEF Add, MapInv, TypeOK
  <1>8. FdInv'
    BY <1>5 DEF Add, FdInv
  <1>9. IndicesMatch'
    <2>1. \A d \in Channels : life[d] = "registered" => Entry(d) \in 1..n
      BY <1>3 DEF RegisteredInv, UpdateAsserts
    <2>2. \A d \in Channels : life[d] = "registered" => idx_[d] # n
      BY <1>2, <2>1 DEF Entry, TypeOK
    <2>3. QED
      BY <1>2, <1>3, <1>5, <2>1, <2>2 DEF IndicesMatch, Entry
  <1>10. ActiveInv'
    BY <1>5 DEF Add, ActiveInv, TypeOK
  <1>11. QED
    BY <1>4, <1>6, <1>7, <1>8, <1>9, <1>10

\* The channel of the last entry is the one whose index is the last.
LEMMA LastIsRegistered ==
  ASSUME RegistryInv, Len(pollFds_) > 0
  PROVE  /\ LastChannel \in Channels
         /\ life[LastChannel] = "registered"
         /\ Entry(LastChannel) = Len(pollFds_)
  <1> USE DEF RegistryInv
  <1>1. Len(pollFds_) \in DOMAIN pollFds_
    BY ArrayTypes
  <1>2. PICK d \in Channels : life[d] = "registered" /\ Entry(d) = Len(pollFds_)
    BY <1>1 DEF IndicesMatch
  <1>3. /\ channels_[fd_[d]] = d
        /\ pollFds_[Len(pollFds_)].fd \in {fd_[d], Muted(fd_[d])}
    BY <1>2 DEF RegisteredInv, UpdateAsserts
  <1>4. fd_[d] \in Nat
    BY PollerAssumption DEF TypeOK
  <1>5. LastChannel = d
    BY <1>3, <1>4 DEF LastChannel, Muted
  <1>6. QED
    BY <1>2, <1>5

\* Removing a channel: only the channel of the last entry gets another index, and every
\* channel that stays finds at its index what it found before.
LEMMA RemainingEntries ==
  ASSUME NEW c \in Channels, RegistryInv, Remove(c)
  PROVE  /\ life[c] = "registered"
         /\ Entry(c) \in 1..Len(pollFds_)
         /\ LastChannel \in Channels
         /\ life[LastChannel] = "registered"
         /\ Entry(LastChannel) = Len(pollFds_)
         /\ \A d \in Channels :
              idx_'[d] = IF d = LastChannel /\ Entry(c) # Len(pollFds_) THEN idx_[c] ELSE idx_[d]
         /\ \A d \in Channels : life[d] = "registered" /\ d # c =>
              /\ Entry(d) \in 1..Len(pollFds_)
              /\ Entry(d) # Entry(c)
              /\ d # LastChannel => Entry(d) # Len(pollFds_)
              /\ Entry(d)' \in 1..(Len(pollFds_) - 1)
              /\ pollFds_'[Entry(d)'] = pollFds_[Entry(d)]
  <1> USE DEF RegistryInv
  <1> DEFINE n == Len(pollFds_)
  <1>1. /\ life[c] = "registered"
        /\ n \in Nat
        /\ DOMAIN pollFds_ = 1..n
        /\ Entry(c) \in 1..n
    BY ArrayTypes DEF Remove, RemoveAsserts
  <1>2. /\ pollFds_' \in Seq(PollFd)
        /\ Len(pollFds_') = n - 1
        /\ DOMAIN pollFds_' = 1..(n - 1)
        /\ \A i \in 1..(n - 1) :
              pollFds_'[i] = IF i = Entry(c) THEN pollFds_[n] ELSE pollFds_[i]
    BY <1>1, ShrunkArray, LenProperties DEF Remove
  <1>3. PICK last \in Channels :
          last = LastChannel /\ life[last] = "registered" /\ Entry(last) = n
    BY <1>1, LastIsRegistered
  <1> HIDE DEF n
  <1>4. \A d \in Channels : life[d] = "registered" /\ d # c =>
          /\ Entry(d) \in 1..n
          /\ Entry(d) # Entry(c)
          /\ d # last => Entry(d) # n
    <2> SUFFICES ASSUME NEW d \in Channels, life[d] = "registered", d # c
                 PROVE  /\ Entry(d) \in 1..n
                        /\ Entry(d) # Entry(c)
                        /\ d # last => Entry(d) # n
      OBVIOUS
    <2>1. Entry(d) \in 1..n
      BY <1>1 DEF RegisteredInv, UpdateAsserts
    <2>2. \A e \in Channels : life[e] = "registered" /\ Entry(d) = Entry(e) => d = e
      <3>1. \A e \in Channels : idx_[e] \in Int
        BY DEF TypeOK
      <3>2. \A e \in Channels : Entry(d) = Entry(e) => idx_[d] = idx_[e]
        BY <3>1 DEF Entry
      <3>3. QED
        BY <3>2 DEF IndicesMatch
    <2>3. QED
      BY <1>1, <1>3, <2>1, <2>2
  <1>5. \A d \in Channels : idx_'[d] = IF d = last /\ Entry(c) # n THEN idx_[c] ELSE idx_[d]
    BY <1>3 DEF Remove, ReindexedLast, TypeOK, n
  <1>6. \A d \in Channels : life[d] = "registered" /\ d # c =>
          /\ Entry(d)' \in 1..(n - 1)
          /\ pollFds_'[Entry(d)'] = pollFds_[Entry(d)]
    <2> SUFFICES ASSUME NEW d \in Channels, life[d] = "registered", d # c
                 PROVE  /\ Entry(d)' \in 1..(n - 1)
                        /\ pollFds_'[Entry(d)'] = pollFds_[Entry(d)]
      OBVIOUS
    <2>1. CASE d = last
      <3>1. Entry(c) # n
        BY <1>3, <1>4, <2>1
      <3>2. Entry(d)' = Entry(c)
        BY <1>5, <2>1, <3>1 DEF Entry
      <3>3. QED
        BY <1>1, <1>2, <1>3, <2>1, <3>1, <3>2
    <2>2. CASE d # last
      <3>1. Entry(d)' = Entry(d)
        BY <1>5, <2>2 DEF Entry
      <3>2. QED
        BY <1>1, <1>2, <1>4, <2>2, <3>1
    <2>3. QED
      BY <2>1, <2>2
  <1>7. QED
    BY <1>1, <1>3, <1>4, <1>5, <1>6 DEF n

LEMMA RemoveInv ==
  ASSUME NEW c \in Channels, RegistryInv, Remove(c)
  PROVE  RegistryInv'
  <1> USE DEF RegistryInv
  <1> DEFINE n == Len(pollFds_)
  <1>1. /\ life[c] = "registered"
        /\ n \in Nat
        /\ DOMAIN pollFds_ = 1..n
        /\ Entry(c) \in 1..n
    BY ArrayTypes DEF Remove, RemoveAsserts
  <1>2. /\ pollFds_' \in Seq(PollFd)
        /\ Len(pollFds_') = n - 1
        /\ DOMAIN pollFds_' = 1..(n - 1)
        /\ \A i \in 1..(n - 1) :
              pollFds_'[i] = IF i = Entry(c) THEN pollFds_[n] ELSE pollFds_[i]
    BY <1>1, ShrunkArray, LenProperties DEF Remove
  <1>3. PICK last \in Channels : last = LastChannel
    BY RemainingEntries
  <1>4. /\ life[last] = "registered" /\ Entry(last) = n
        /\ \A d \in Channels : life[d] = "registered" /\ d # c =>
             /\ Entry(d) \in 1..n
             /\ Entry(d) # Entry(c)
             /\ d # last => Entry(d) # n
    BY <1>3, RemainingEntries
  <1>5. \A d \in Channels : idx_'[d] = IF d = last /\ Entry(c) # n THEN idx_[c] ELSE idx_[d]
    BY <1>3, RemainingEntries
  <1>6. \A d \in Channels : life[d] = "registered" /\ d # c =>
          /\ Entry(d)' \in 1..(n - 1)
          /\ pollFds_'[Entry(d)'] = pollFds_[Entry(d)]
    BY <1>3, RemainingEntries
  <1> HIDE DEF n
  <1>7. /\ life'[c] = "removed"
        /\ \A d \in Channels : d # c => life'[d] = life[d]
        /\ DOMAIN channels_' = DOMAIN channels_ \ {fd_[c]}
        /\ \A fd \in DOMAIN channels_ \ {fd_[c]} : channels_'[fd] = channels_[fd]
        /\ UNCHANGED <<fd_, events_, activeChannels>>
    BY DEF Remove, TypeOK
  <1>8. TypeOK'
    <2>1. idx_' \in [Channels -> Nat \cup {-1}]
      BY <1>3, <1>4 DEF Remove, ReindexedLast, TypeOK
    <2>2. QED
      BY <1>2, <2>1 DEF Remove, TypeOK, PollFd, Lives
  <1>9. \A d \in Channels : life'[d] = "registered" => life[d] = "registered" /\ d # c
    BY <1>7
  <1>10. \A d \in Channels : life[d] = "registered" /\ d # c => fd_[d] # fd_[c]
    BY <1>1 DEF FdInv
  <1>11. RegisteredInv'
    <2> SUFFICES ASSUME NEW d \in Channels, life[d] = "registered", d # c
                 PROVE  /\ UpdateAsserts(d)'
                        /\ pollFds_'[Entry(d)'].events = events_'[d]
                        /\ events_'[d] = {} => pollFds_'[Entry(d)'].fd = Muted(fd_'[d])
      BY <1>9 DEF RegisteredInv
    <2>1. /\ fd_[d] \in DOMAIN channels_'
          /\ channels_'[fd_[d]] = d
      BY <1>7, <1>10 DEF RegisteredInv, UpdateAsserts
    <2>2. QED
      BY <1>2, <1>6, <1>7, <2>1 DEF RegisteredInv, UpdateAsserts
  <1>12. MapInv'
    BY <1>7, <1>1 DEF MapInv, TypeOK
  <1>13. FdInv'
    BY <1>7 DEF FdInv
  <1>14. ActiveInv'
    BY <1>7 DEF ActiveInv, TypeOK
  <1>15. IndicesMatch'
    <2>1. ASSUME NEW d \in Channels, NEW e \in Channels,
                 life[d] = "registered", life[e] = "registered", d # c, e # c,
                 idx_'[d] = idx_'[e]
          PROVE  d = e
      BY <1>4, <1>5, <2>1, <1>1 DEF IndicesMatch, Entry, TypeOK
    <2>2. ASSUME NEW i \in 1..(n - 1)
          PROVE  \E d \in Channels : life'[d] = "registered" /\ Entry(d)' = i
      <3>1. CASE i = Entry(c)
        <4>1. last # c /\ Entry(c) # n
          BY <1>1, <1>3, <1>4, <2>2, <3>1
        <4>2. Entry(last)' = i
          BY <1>5, <3>1, <4>1 DEF Entry
        <4>3. QED
          BY <1>3, <1>4, <1>7, <4>1, <4>2
      <3>2. CASE i # Entry(c)
        <4>1. PICK d \in Channels : life[d] = "registered" /\ Entry(d) = i
          <5>1. i \in DOMAIN pollFds_
            BY <1>1, <2>2
          <5>2. QED
            BY <5>1 DEF IndicesMatch
        <4>2. d # c /\ d # last
          BY <1>1, <1>3, <1>4, <2>2, <3>2, <4>1
        <4>3. Entry(d)' = i
          BY <1>5, <4>1, <4>2 DEF Entry
        <4>4. QED
          BY <1>7, <4>1, <4>2, <4>3
      <3>3. QED
        BY <3>1, <3>2
    <2>3. QED
      BY <1>2, <1>9, <2>1, <2>2 DEF IndicesMatch
  <1>16. QED
    BY <1>8, <1>11, <1>12, <1>13, <1>14, <1>15

LEMMA NewChannelInv ==
  ASSUME NEW c \in Channels, NEW fd \in Fds, RegistryInv, NewChannel(c, fd)
  PROVE  RegistryInv'
  <1> USE DEF RegistryInv
  <1>1. /\ life[c] = "none" /\ life'[c] = "new" /\ fd_'[c] = fd
        /\ \A d \in Channels : d # c =>
             /\ life'[d] = life[d]
             /\ fd_'[d] = fd_[d]
             /\ idx_'[d] = idx_[d]
             /\ events_'[d] = events_[d]
        /\ UNCHANGED <<pollFds_, channels_, activeChannels>>
    BY DEF NewChannel, TypeOK
  <1>2. TypeOK'
    BY DEF NewChannel, TypeOK, Lives
  <1>3. RegisteredInv'
    BY <1>1 DEF RegisteredInv, UpdateAsserts, Entry
  <1>4. MapInv'
    BY <1>1 DEF MapInv, TypeOK
  <1>5. FdInv'
    BY <1>1 DEF NewChannel, FdInv
  <1>6. IndicesMatch'
    BY <1>1 DEF IndicesMatch, Entry
  <1>7. ActiveInv'
    BY <1>1 DEF ActiveInv, TypeOK
  <1>8. QED
    BY <1>2, <1>3, <1>4, <1>5, <1>6, <1>7

LEMMA DestroyInv ==
  ASSUME NEW c \in Channels, RegistryInv, Destroy(c)
  PROVE  RegistryInv'
  BY DEF Destroy, RegistryInv, TypeOK, Lives, RegisteredInv, UpdateAsserts, MapInv, FdInv,
         IndicesMatch, Entry, ActiveInv

LEMMA PollInv ==
  ASSUME RegistryInv, Poll
  PROVE  RegistryInv'
  <1> USE DEF RegistryInv
  <1>1. activeChannels' \subseteq {channels_[fd] : fd \in DOMAIN channels_}
    BY DEF Poll, FindAsserts
  <1>2. UNCHANGED <<fd_, events_, idx_, life, pollFds_, channels_>>
    BY DEF Poll
  <1>3. TypeOK' /\ ActiveInv'
    BY <1>1, <1>2 DEF TypeOK, ActiveInv, MapInv
  <1>4. QED
    BY <1>2, <1>3 DEF RegisteredInv, UpdateAsserts, MapInv, FdInv, IndicesMatch, Entry

LEMMA StepInv == RegistryInv /\ [Next]_vars => RegistryInv'
  <1> SUFFICES ASSUME RegistryInv, [Next]_vars PROVE RegistryInv'
    OBVIOUS
  <1>1. ASSUME NEW c \in Channels, EnableReading(c) \/ EnableWriting(c) PROVE RegistryInv'
    <2>1. PICK events \in SUBSET Events : Add(c, events) \/ Update(c, events)
      BY <1>1 DEF EnableReading, EnableWriting, RegistryInv, TypeOK, Events
    <2>2. QED
      BY <2>1, AddInv, UpdateInv
  <1>2. ASSUME NEW c \in Channels, DisableWriting(c) \/ DisableAll(c) PROVE RegistryInv'
    <2>1. PICK events \in SUBSET Events : Update(c, events)
      BY <1>2 DEF DisableWriting, DisableAll, RegistryInv, TypeOK, Events
    <2>2. QED
      BY <2>1, UpdateInv
  <1>3. CASE UNCHANGED vars
    BY <1>3 DEF vars, RegistryInv, TypeOK, RegisteredInv, UpdateAsserts, MapInv, FdInv,
                IndicesMatch, Entry, ActiveInv
  <1>4. QED
    BY <1>1, <1>2, <1>3, NewChannelInv, RemoveInv, DestroyInv, PollInv DEF Next

THEOREM RegistryInvariant == Spec => []RegistryInv
  BY InitInv, StepInv, PTL DEF Spec

\* The members of every Channel and of the Poller keep their types.
THEOREM TypeCorrect == Spec => []TypeOK
  BY RegistryInvariant, PTL DEF RegistryInv

\* Swapping with the last entry keeps every other channel's index right
\* (Poller::removeChannel).
THEOREM IndicesStayRight == Spec => []IndicesMatch
  BY RegistryInvariant, PTL DEF RegistryInv

\* Every assertion of Poller::updateChannel, removeChannel and findActiveChannels holds
\* whenever the callers of reactor/s13 reach it, except for a channel that was removed:
\* an updateChannel() for it fails, whatever became of its descriptor and its index.
THEOREM AssertionsFailForRemovedOnly == Spec => []AssertsFailForRemovedOnly
  <1>1. RegistryInv => AssertsFailForRemovedOnly
    <2> SUFFICES ASSUME RegistryInv PROVE AssertsFailForRemovedOnly
      OBVIOUS
    <2> USE DEF RegistryInv
    <2>1. ASSUME NEW c \in Channels, life[c] = "new"
          PROVE  AddAsserts(c)
      BY <2>1 DEF AddAsserts, MapInv, FdInv, TypeOK
    <2>2. ASSUME NEW c \in Channels, life[c] = "registered"
          PROVE  UpdateAsserts(c) /\ (events_[c] = {} => RemoveAsserts(c))
      BY <2>2 DEF RegisteredInv, UpdateAsserts, RemoveAsserts
    <2>3. ASSUME NEW i \in Pollable
          PROVE  FindAsserts(i)
      <3>1. PICK c \in Channels : life[c] = "registered" /\ Entry(c) = i
        BY DEF Pollable, IndicesMatch
      <3>2. /\ fd_[c] \in DOMAIN channels_ /\ channels_[fd_[c]] = c
            /\ pollFds_[i].fd \in {fd_[c], Muted(fd_[c])}
        BY <3>1 DEF RegisteredInv, UpdateAsserts
      <3>3. pollFds_[i].fd = fd_[c]
        BY <3>2, PollerAssumption DEF Pollable, Muted, TypeOK
      <3>4. QED
        BY <3>2, <3>3 DEF FindAsserts
    <2>4. ASSUME NEW c \in Channels, life[c] = "removed"
          PROVE  ~UpdateAsserts(c)
      BY <2>4, UpdatesRegistered
    <2>5. QED
      BY <2>1, <2>2, <2>3, <2>4 DEF AssertsFailForRemovedOnly
  <1>2. QED
    BY <1>1, RegistryInvariant, PTL

-----------------------------------------------------------------------------
(* Poller implements PollSet.                                               *)

\* What the registry says of a descriptor is what its channel asked for, until the
\* entry is muted; an entry is muted exactly when its descriptor is negative.
LEMMA WatchedAt ==
  ASSUME RegistryInv
  PROVE  /\ DOMAIN Watched = DOMAIN channels_
         /\ \A c \in Channels : life[c] = "registered" =>
              /\ fd_[c] \in DOMAIN Watched
              /\ channels_[fd_[c]] = c
              /\ Watched[fd_[c]] = IF pollFds_[Entry(c)].fd < 0 THEN {}
                                   ELSE pollFds_[Entry(c)].events
  BY DEF RegistryInv, RegisteredInv, UpdateAsserts, Watched

\* The descriptors of the map are those of the registered channels.
LEMMA OwnerOf ==
  ASSUME RegistryInv, NEW fd \in DOMAIN channels_
  PROVE  /\ channels_[fd] \in Channels
         /\ life[channels_[fd]] = "registered"
         /\ fd_[channels_[fd]] = fd
  BY DEF RegistryInv, TypeOK, MapInv

LEMMA AddWatches ==
  ASSUME NEW c \in Channels, NEW events \in SUBSET Events, RegistryInv, RegistryInv',
         Add(c, events)
  PROVE  PS!Watch(fd_[c], events)
  <1>1. /\ fd_[c] \notin DOMAIN Watched
        /\ fd_[c] \in Nat
        /\ Len(pollFds_) \in Nat
        /\ DOMAIN pollFds_ = 1..Len(pollFds_)
        /\ pollFds_ \in Seq(PollFd)
    BY ArrayTypes, PollerAssumption DEF Add, AddAsserts, Watched, RegistryInv, TypeOK, PollFd
  <1>2. /\ life'[c] = "registered"
        /\ fd_' = fd_ /\ activeChannels' = activeChannels
        /\ idx_'[c] = Len(pollFds_)
        /\ \A d \in Channels : d # c => idx_'[d] = idx_[d]
        /\ DOMAIN channels_' = DOMAIN channels_ \cup {fd_[c]}
        /\ channels_'[fd_[c]] = c
        /\ \A fd \in DOMAIN channels_ : channels_'[fd] = channels_[fd]
    BY <1>1 DEF Add, RegistryInv, TypeOK, Watched
  <1>3. /\ \A i \in 1..Len(pollFds_) : pollFds_'[i] = pollFds_[i]
        /\ pollFds_'[Len(pollFds_) + 1] = [fd |-> fd_[c], events |-> events]
    <2>1. [fd |-> fd_[c], events |-> events] \in PollFd
      BY <1>1 DEF PollFd
    <2>2. QED
      BY <1>1, <2>1, AppendProperties DEF Add
  <1>4. Watched'[fd_[c]] = events /\ DOMAIN Watched' = DOMAIN Watched \cup {fd_[c]}
    BY <1>1, <1>2, <1>3 DEF Watched, Entry
  <1>5. ASSUME NEW fd \in DOMAIN Watched
        PROVE  Watched'[fd] = Watched[fd]
    <2>1. PICK d \in Channels : d = channels_[fd] /\ life[d] = "registered" /\ d # c
      BY <1>1, OwnerOf DEF Watched
    <2>2. Entry(d)' = Entry(d) /\ Entry(d) \in 1..Len(pollFds_)
      BY <1>1, <1>2, <2>1 DEF Entry, RegistryInv, RegisteredInv, UpdateAsserts
    <2>3. QED
      BY <1>2, <1>3, <2>1, <2>2 DEF Watched
  <1>6. Watched' = [fd \in DOMAIN Watched \cup {fd_[c]} |->
                      IF fd = fd_[c] THEN events ELSE Watched[fd]]
    <2>1. Watched' = [fd \in DOMAIN Watched' |-> Watched'[fd]]
      BY DEF Watched
    <2>2. QED
      BY <1>1, <1>4, <1>5, <2>1
  <1>7. QED
    BY <1>1, <1>2, <1>6 DEF PS!Watch

\* A channel that is muted may be enabled again: its entry stays muted, and nothing is seen.
LEMMA UpdateChanges ==
  ASSUME NEW c \in Channels, NEW events \in SUBSET Events, RegistryInv, RegistryInv',
         Update(c, events)
  PROVE  PS!Change(fd_[c], events) \/ UNCHANGED PS!vars
  <1>1. /\ life[c] = "registered" /\ life'[c] = "registered"
        /\ UNCHANGED <<fd_, idx_, life, channels_, activeChannels>>
        /\ fd_[c] \in Nat
        /\ pollFds_[Entry(c)].fd \in {fd_[c], Muted(fd_[c])}
        /\ channels_[fd_[c]] = c
        /\ fd_[c] \in DOMAIN channels_
    <2>1. life[c] = "registered"
      BY UpdatesRegistered DEF Update
    <2>2. QED
      BY <2>1, PollerAssumption DEF Update, UpdateAsserts, RegistryInv, TypeOK
  <1>2. pollFds_'[Entry(c)] = [fd |-> UpdatedFd(c, events), events |-> events]
    BY <1>1, UpdatedArray
  <1>3. Watched'[fd_[c]] = IF pollFds_[Entry(c)].fd < 0 THEN {} ELSE events
    <2>1. Watched'[fd_[c]] = IF UpdatedFd(c, events) < 0 THEN {} ELSE events
      BY <1>1, <1>2 DEF Watched, Entry
    <2>2. CASE events = {}
      BY <2>1, <2>2
    <2>3. CASE events # {}
      BY <2>1, <2>3 DEF UpdatedFd
    <2>4. QED
      BY <2>2, <2>3
  <1>4. Watched[fd_[c]] = IF pollFds_[Entry(c)].fd < 0 THEN {} ELSE pollFds_[Entry(c)].events
    BY <1>1 DEF Watched
  <1>5. ASSUME NEW fd \in DOMAIN Watched, fd # fd_[c]
        PROVE  Watched'[fd] = Watched[fd]
    <2>1. PICK d \in Channels : d = channels_[fd] /\ life[d] = "registered" /\ d # c
      BY <1>1, <1>5, OwnerOf DEF Watched
    <2>2. Entry(d) \in 1..Len(pollFds_) /\ Entry(d) # Entry(c)
      <3>1. Entry(d) \in 1..Len(pollFds_)
        BY <2>1, ArrayTypes DEF RegistryInv, RegisteredInv, UpdateAsserts
      <3>2. idx_[d] \in Int /\ idx_[c] \in Int /\ idx_[d] # idx_[c]
        BY <1>1, <2>1 DEF RegistryInv, IndicesMatch, TypeOK
      <3>3. QED
        BY <3>1, <3>2 DEF Entry
    <2>3. pollFds_'[Entry(d)] = pollFds_[Entry(d)]
      BY <1>1, <2>2, UpdatedArray
    <2>4. QED
      BY <1>1, <1>5, <2>1, <2>3 DEF Watched, Entry
  <1>6. DOMAIN Watched' = DOMAIN Watched /\ fd_[c] \in DOMAIN Watched
    BY <1>1 DEF Watched
  <1>7. Watched' = [Watched EXCEPT ![fd_[c]] = Watched'[fd_[c]]]
    <2>1. /\ Watched' = [fd \in DOMAIN Watched' |-> Watched'[fd]]
          /\ Watched = [fd \in DOMAIN Watched |-> Watched[fd]]
      BY DEF Watched
    <2>2. QED
      BY <1>5, <1>6, <2>1
  <1>8. CASE pollFds_[Entry(c)].fd < 0
    <2>1. Watched' = [Watched EXCEPT ![fd_[c]] = {}] /\ Watched[fd_[c]] = {}
      BY <1>3, <1>4, <1>7, <1>8
    <2>2. Watched' = Watched
      <3>1. Watched = [fd \in DOMAIN Watched |-> Watched[fd]]
        BY DEF Watched
      <3>2. QED
        BY <2>1, <3>1
    <2>3. QED
      BY <1>1, <2>2 DEF PS!vars
  <1>9. CASE ~(pollFds_[Entry(c)].fd < 0)
    <2>1. Watched' = [Watched EXCEPT ![fd_[c]] = events]
      BY <1>3, <1>7, <1>9
    <2>2. CASE Watched[fd_[c]] # {}
      BY <1>1, <1>6, <2>1, <2>2 DEF PS!Change
    <2>3. CASE Watched[fd_[c]] = {}
      <3>1. events_[c] = {}
        BY <1>1, <1>4, <1>9, <2>3 DEF RegistryInv, RegisteredInv
      <3>2. pollFds_[Entry(c)].fd = Muted(fd_[c])
        BY <1>1, <3>1 DEF RegistryInv, RegisteredInv
      <3>3. QED
        BY <1>1, <1>9, <3>2 DEF Muted
    <2>4. QED
      BY <2>2, <2>3
  <1>10. QED
    BY <1>8, <1>9

LEMMA RemoveForgets ==
  ASSUME NEW c \in Channels, RegistryInv, Remove(c)
  PROVE  PS!Forget(fd_[c])
  <1>1. /\ fd_[c] \in DOMAIN channels_ /\ channels_[fd_[c]] = c
        /\ fd_[c] \in Nat
        /\ pollFds_[Entry(c)].fd = Muted(fd_[c])
        /\ DOMAIN channels_' = DOMAIN channels_ \ {fd_[c]}
        /\ \A fd \in DOMAIN channels_ \ {fd_[c]} : channels_'[fd] = channels_[fd]
        /\ UNCHANGED <<fd_, activeChannels>>
    BY PollerAssumption
       DEF Remove, RemoveAsserts, RegistryInv, RegisteredInv, UpdateAsserts, TypeOK
  <1>2. fd_[c] \in DOMAIN Watched /\ Watched[fd_[c]] = {}
    BY <1>1 DEF Watched, Muted
  <1>3. DOMAIN Watched' = DOMAIN Watched \ {fd_[c]}
    BY <1>1 DEF Watched
  <1>4. ASSUME NEW fd \in DOMAIN Watched \ {fd_[c]}
        PROVE  Watched'[fd] = Watched[fd]
    <2>1. PICK d \in Channels : d = channels_[fd] /\ life[d] = "registered" /\ d # c
      BY <1>1, <1>4, OwnerOf DEF Watched
    <2>2. channels_'[fd] = d /\ fd \in DOMAIN channels_'
      BY <1>1, <2>1 DEF Watched
    <2>3. pollFds_'[Entry(d)'] = pollFds_[Entry(d)]
      BY <2>1, RemainingEntries
    <2>4. QED
      BY <2>1, <2>2, <2>3 DEF Watched, Entry
  <1>5. Watched' = [fd \in DOMAIN Watched \ {fd_[c]} |-> Watched[fd]]
    <2>1. Watched' = [fd \in DOMAIN Watched' |-> Watched'[fd]]
      BY DEF Watched
    <2>2. QED
      BY <1>3, <1>4, <2>1
  <1>6. QED
    BY <1>1, <1>2, <1>5 DEF PS!Forget

LEMMA PollReports ==
  ASSUME RegistryInv, Poll
  PROVE  \E fds \in SUBSET Fds : PS!Report(fds)
  <1> DEFINE now == {fd_[c] : c \in activeChannels'}
  <1>1. UNCHANGED <<fd_, events_, idx_, life, pollFds_, channels_>>
    BY DEF Poll
  <1>2. Watched' = Watched
    BY <1>1 DEF Watched, Entry
  <1>3. ASSUME NEW fd \in now
        PROVE  fd \in Fds /\ fd \in DOMAIN Watched /\ Watched[fd] # {}
    <2>1. PICK i \in Pollable : fd = fd_[channels_[pollFds_[i].fd]] /\ FindAsserts(i)
      BY DEF Poll
    <2>2. fd = pollFds_[i].fd /\ fd \in DOMAIN channels_ /\ fd \in Fds
      BY <2>1 DEF FindAsserts, RegistryInv, TypeOK
    <2>3. PICK c \in Channels : life[c] = "registered" /\ Entry(c) = i
      BY DEF Pollable, RegistryInv, IndicesMatch
    <2>4. /\ pollFds_[i].fd \in {fd_[c], Muted(fd_[c])}
          /\ pollFds_[i].events = events_[c]
          /\ channels_[fd_[c]] = c
          /\ events_[c] = {} => pollFds_[i].fd = Muted(fd_[c])
          /\ fd_[c] \in Nat
      BY <2>3, PollerAssumption DEF RegistryInv, RegisteredInv, UpdateAsserts, TypeOK
    <2>5. i \in DOMAIN pollFds_ /\ pollFds_[i].fd >= 0
      BY DEF Pollable
    <2>6. fd_[c] = fd /\ events_[c] # {}
      BY <2>2, <2>4, <2>5 DEF Muted
    <2>7. Watched[fd] = events_[c]
      BY <2>2, <2>3, <2>4, <2>6 DEF Watched
    <2>8. QED
      BY <2>2, <2>6, <2>7 DEF Watched
  <1>4. now \in SUBSET Fds
    BY <1>3
  <1>5. {fd_'[c] : c \in activeChannels'} = now
    BY <1>1
  <1>6. PICK fds \in SUBSET Fds : fds = now
    BY <1>4
  <1>7. QED
    BY <1>2, <1>3, <1>5, <1>6 DEF PS!Report

\* A new Channel object is no channel ::poll reported: it takes its descriptor unseen.
LEMMA NewChannelIsUnseen ==
  ASSUME NEW c \in Channels, NEW fd \in Fds, RegistryInv, NewChannel(c, fd)
  PROVE  UNCHANGED PS!vars
  <1>1. /\ life[c] = "none"
        /\ \A d \in Channels : d # c => fd_'[d] = fd_[d] /\ idx_'[d] = idx_[d]
        /\ UNCHANGED <<pollFds_, channels_, activeChannels>>
    BY DEF NewChannel, RegistryInv, TypeOK
  <1>2. c \notin activeChannels /\ activeChannels \subseteq Channels
    BY <1>1 DEF RegistryInv, ActiveInv, TypeOK
  <1>3. {fd_'[d] : d \in activeChannels'} = {fd_[d] : d \in activeChannels}
    BY <1>1, <1>2
  <1>4. \A f \in DOMAIN channels_ : Entry(channels_[f])' = Entry(channels_[f])
    BY <1>1, OwnerOf DEF Entry
  <1>5. Watched' = Watched
    BY <1>1, <1>4 DEF Watched
  <1>6. QED
    BY <1>3, <1>5 DEF PS!vars

LEMMA StepIsPollSetStep ==
  ASSUME RegistryInv, RegistryInv', [Next]_vars
  PROVE  [PS!Next]_PS!vars
  <1>1. ASSUME NEW c \in Channels PROVE fd_[c] \in Fds /\ events_[c] \subseteq Events
    BY DEF RegistryInv, TypeOK
  <1>2. ASSUME NEW c \in Channels, NEW events \in SUBSET Events,
               Add(c, events) \/ Update(c, events)
        PROVE  [PS!Next]_PS!vars
    <2>1. CASE Add(c, events)
      <3>1. events # {}
        BY <2>1 DEF Add
      <3>2. QED
        BY <1>1, <2>1, <3>1, AddWatches DEF PS!Next
    <2>2. CASE Update(c, events)
      BY <1>1, <2>2, UpdateChanges DEF PS!Next
    <2>3. QED
      BY <1>2, <2>1, <2>2
  <1>3. ASSUME NEW c \in Channels,
               EnableReading(c) \/ EnableWriting(c) \/ DisableWriting(c) \/ DisableAll(c)
        PROVE  [PS!Next]_PS!vars
    <2>1. PICK events \in SUBSET Events : Add(c, events) \/ Update(c, events)
      BY <1>1, <1>3 DEF EnableReading, EnableWriting, DisableWriting, DisableAll, Events
    <2>2. QED
      BY <1>2, <2>1
  <1>4. ASSUME NEW c \in Channels, Remove(c) PROVE [PS!Next]_PS!vars
    BY <1>1, <1>4, RemoveForgets DEF PS!Next
  <1>5. CASE Poll
    BY <1>5, PollReports DEF PS!Next
  <1>6. ASSUME NEW c \in Channels, Destroy(c) PROVE UNCHANGED PS!vars
    BY <1>6 DEF Destroy, PS!vars, Watched, Entry
  <1>7. CASE UNCHANGED vars
    BY <1>7 DEF vars, PS!vars, Watched, Entry
  <1>8. QED
    BY <1>3, <1>4, <1>5, <1>6, <1>7, NewChannelIsUnseen DEF Next

\* The array of ::poll, the indices of the channels into it and the swap that removes an
\* entry cannot be seen: Poller is the map from descriptors to interests of PollSet.
THEOREM PollerIsPollSet == Spec => ImplementsPollSet
  <1>1. Init => PS!Init
    <2> SUFFICES ASSUME Init PROVE PS!Init
      OBVIOUS
    <2>1. DOMAIN channels_ = {} /\ activeChannels = {}
      BY EmptySeq, LenProperties DEF Init
    <2>2. Watched = <<>>
      <3>1. DOMAIN Watched = {}
        BY <2>1 DEF Watched
      <3>2. Watched = [fd \in {} |-> {}]
        BY <3>1 DEF Watched
      <3>3. <<>> = [fd \in {} |-> {}]
        OBVIOUS
      <3>4. QED
        BY <3>2, <3>3
    <2>3. QED
      BY <2>1, <2>2 DEF PS!Init
  <1>2. QED
    BY <1>1, RegistryInvariant, StepIsPollSetStep, PTL DEF Spec, PS!Spec, ImplementsPollSet

=============================================================================
