------------------------------- MODULE Poller -------------------------------
(****************************************************************************)
(* reactor/s13/Poller and Channel: the array handed to ::poll, the map from *)
(* descriptor to channel, and the index each channel keeps into the array.  *)
(* All of it belongs to one loop's thread, so one call is one action.       *)
(*                                                                          *)
(* The callers are the ones of reactor/s13: a channel is first enabled for  *)
(* something, changes its events any number of times, disables everything   *)
(* and is removed.  It may be updated after that, by a sendInLoop() that    *)
(* was queued before and runs late (TcpConnection.cc:191): idx_ is not      *)
(* reset, and the assertions of updateChannel() have to tell.  A failed     *)
(* assertion aborts the process, so that there is no step.                  *)
(****************************************************************************)
EXTENDS Integers, Sequences, Functions

CONSTANTS
  Channels,   \* the Channel objects
  Fds         \* file descriptors, small numbers from 0

ASSUME PollerAssumption == Fds \subseteq Nat

VARIABLES
  fd_, events_, idx_,   \* the members of each Channel
  life,                 \* how far the owner of each Channel has got
  pollFds_,
  channels_,
  activeChannels        \* what the last ::poll reported

vars == <<fd_, events_, idx_, life, pollFds_, channels_, activeChannels>>

Events == {"read", "write"}
Lives  == {"none", "new", "registered", "removed"}

TypeOK ==
  /\ fd_ \in [Channels -> Fds]
  /\ events_ \in [Channels -> SUBSET Events]
  /\ idx_ \in [Channels -> Nat \cup {-1}]
  /\ life \in [Channels -> Lives]
  /\ pollFds_ \in Seq([fd : Int, events : SUBSET Events])
  /\ DOMAIN channels_ \subseteq Fds
  /\ channels_ \in [DOMAIN channels_ -> Channels]
  /\ activeChannels \subseteq Channels

Init ==
  /\ fd_ \in [Channels -> Fds]
  /\ events_ = [c \in Channels |-> {}]
  /\ idx_ = [c \in Channels |-> -1]
  /\ life = [c \in Channels |-> "none"]
  /\ pollFds_ = <<>>
  /\ channels_ = <<>>
  /\ activeChannels = {}

-----------------------------------------------------------------------------

\* How an ignored entry is written: ::poll skips negative descriptors.
Muted(fd) == -fd - 1

\* The array is indexed from 0 in the code.
Entry(c) == idx_[c] + 1

\* A Channel object is made for a descriptor no channel in use has: the kernel
\* does not give out an open descriptor twice, and Connector removes its own
\* channel before the connection makes one for the same socket.
NewChannel(c, fd) ==
  /\ life[c] = "none"
  /\ \A d \in Channels : fd_[d] = fd => life[d] \notin {"new", "registered"}
  /\ fd_' = [fd_ EXCEPT ![c] = fd]
  /\ events_' = [events_ EXCEPT ![c] = {}]
  /\ idx_' = [idx_ EXCEPT ![c] = -1]
  /\ life' = [life EXCEPT ![c] = "new"]
  /\ UNCHANGED <<pollFds_, channels_, activeChannels>>

\* updateChannel(), idx < 0: the assertion and the effect.
AddAsserts(c) == fd_[c] \notin DOMAIN channels_

Add(c, events) ==
  /\ life[c] = "new"
  /\ events # {}
  /\ AddAsserts(c)
  /\ events_' = [events_ EXCEPT ![c] = events]
  /\ pollFds_' = Append(pollFds_, [fd |-> fd_[c], events |-> events])
  /\ idx_' = [idx_ EXCEPT ![c] = Len(pollFds_)]
  /\ channels_' = [f \in DOMAIN channels_ \cup {fd_[c]} |->
                     IF f = fd_[c] THEN c ELSE channels_[f]]
  /\ life' = [life EXCEPT ![c] = "registered"]
  /\ UNCHANGED <<fd_, activeChannels>>

\* updateChannel(), idx >= 0: its four assertions ...
UpdateAsserts(c) ==
  /\ fd_[c] \in DOMAIN channels_
  /\ channels_[fd_[c]] = c
  /\ Entry(c) \in DOMAIN pollFds_
  /\ pollFds_[Entry(c)].fd \in {fd_[c], Muted(fd_[c])}

\* Mutant: a channel with nothing enabled stays in the poll set.
UpdatedFdNeverMutes(c, events) == pollFds_[Entry(c)].fd

\* ... and its effect.  The entry's descriptor is made negative when nothing is
\* enabled and is never made positive again.
UpdatedFd(c, events) == IF events = {} THEN Muted(fd_[c]) ELSE pollFds_[Entry(c)].fd

Update(c, events) ==
  /\ life[c] \in {"registered", "removed"}
  /\ UpdateAsserts(c)
  /\ events_' = [events_ EXCEPT ![c] = events]
  /\ pollFds_' = [pollFds_ EXCEPT ![Entry(c)] =
                    [fd |-> UpdatedFd(c, events), events |-> events]]
  /\ UNCHANGED <<fd_, idx_, life, channels_, activeChannels>>

\* The calls of Channel that end in updateChannel().
EnableReading(c)  == Add(c, events_[c] \cup {"read"}) \/ Update(c, events_[c] \cup {"read"})
EnableWriting(c)  == Add(c, events_[c] \cup {"write"}) \/ Update(c, events_[c] \cup {"write"})
DisableWriting(c) == Update(c, events_[c] \ {"write"})
DisableAll(c)     == Update(c, {})

\* removeChannel(): the assertions before erase ...
RemoveAsserts(c) ==
  /\ Entry(c) \in DOMAIN pollFds_
  /\ pollFds_[Entry(c)].fd = Muted(fd_[c])
  /\ fd_[c] \in DOMAIN channels_

\* ... the channel of the last entry, which is about to move ...
LastChannel ==
  LET fd == pollFds_[Len(pollFds_)].fd
  IN  channels_[IF fd < 0 THEN Muted(fd) ELSE fd]

\* Mutant: the moved channel keeps its old index.
ReindexNothing(c) == idx_

\* ... whose index follows it.  The removed channel's own idx_ is not reset.
ReindexedLast(c) ==
  IF Entry(c) = Len(pollFds_) THEN idx_ ELSE [idx_ EXCEPT ![LastChannel] = idx_[c]]

\* The array after the swap with its last entry and pop_back.
Without(c) ==
  SubSeq([pollFds_ EXCEPT ![Entry(c)] = pollFds_[Len(pollFds_)]], 1, Len(pollFds_) - 1)

Remove(c) ==
  /\ life[c] = "registered"
  /\ events_[c] = {}
  /\ RemoveAsserts(c)
  /\ channels_' = [f \in DOMAIN channels_ \ {fd_[c]} |-> channels_[f]]
  /\ pollFds_' = Without(c)
  /\ idx_' = ReindexedLast(c)
  /\ life' = [life EXCEPT ![c] = "removed"]
  /\ UNCHANGED <<fd_, events_, activeChannels>>

\* The object is destroyed, after the loop is done with the channels of the
\* last ::poll: both owners leave it to a queued functor.
Destroy(c) ==
  /\ life[c] = "removed"
  /\ c \notin activeChannels
  /\ life' = [life EXCEPT ![c] = "none"]
  /\ UNCHANGED <<fd_, events_, idx_, pollFds_, channels_, activeChannels>>

\* findActiveChannels(): the two assertions for a reported entry.
FindAsserts(i) ==
  LET fd == pollFds_[i].fd
  IN  fd \in DOMAIN channels_ /\ fd_[channels_[fd]] = fd

\* The entries ::poll may report: errors and hang-ups are reported whatever
\* events were asked for.
Pollable == {i \in DOMAIN pollFds_ : pollFds_[i].fd >= 0}

Poll ==
  \E ready \in SUBSET Pollable :
    /\ \A i \in ready : FindAsserts(i)
    /\ activeChannels' = {channels_[pollFds_[i].fd] : i \in ready}
    /\ UNCHANGED <<fd_, events_, idx_, life, pollFds_, channels_>>

Next ==
  \/ \E c \in Channels :
       \/ \E fd \in Fds : NewChannel(c, fd)
       \/ EnableReading(c)
       \/ EnableWriting(c)
       \/ DisableWriting(c)
       \/ DisableAll(c)
       \/ Remove(c)
       \/ Destroy(c)
  \/ Poll

Spec == Init /\ [][Next]_vars

-----------------------------------------------------------------------------
(* Properties.                                                              *)

\* The assertions of Poller.cc hold whenever updateChannel(), removeChannel() and poll()
\* reach them, but for an updateChannel() on a channel that was removed, which a late
\* sendInLoop() makes.  There they always fail, also when the descriptor and the place in
\* the array are another channel's by now: the stale index never changes its entry.
AssertsFailForRemovedOnly ==
  /\ \A c \in Channels :
       /\ life[c] = "new" => AddAsserts(c)
       /\ life[c] = "registered" => UpdateAsserts(c)
       /\ life[c] = "removed" => ~UpdateAsserts(c)
       /\ life[c] = "registered" /\ events_[c] = {} => RemoveAsserts(c)
  /\ \A i \in Pollable : FindAsserts(i)

\* Two channels never share an entry of the array and every entry is a
\* registered channel's: removing one by swapping with the last keeps the
\* indices of all the others right.
IndicesMatch ==
  /\ \A c, d \in Channels :
       life[c] = "registered" /\ life[d] = "registered" /\ idx_[c] = idx_[d] => c = d
  /\ \A i \in DOMAIN pollFds_ : \E c \in Channels : life[c] = "registered" /\ Entry(c) = i

\* The registry is a map from descriptors to the events they are watched for;
\* the array, the indices and the swap cannot be seen.
Watched ==
  [fd \in DOMAIN channels_ |->
     LET entry == pollFds_[Entry(channels_[fd])]
     IN  IF entry.fd < 0 THEN {} ELSE entry.events]

PS == INSTANCE PollSet WITH
        interest <- Watched,
        reported <- {fd_[c] : c \in activeChannels}

ImplementsPollSet == PS!Spec

-----------------------------------------------------------------------------
(* The inductive strengthening of AssertsFailForRemovedOnly and             *)
(* IndicesMatch.                                                            *)

\* Where a registered channel is found.
RegisteredInv ==
  \A c \in Channels : life[c] = "registered" =>
    /\ UpdateAsserts(c)
    /\ pollFds_[Entry(c)].events = events_[c]
    /\ events_[c] = {} => pollFds_[Entry(c)].fd = Muted(fd_[c])

\* The map holds nothing but registered channels under their own descriptors.
MapInv ==
  \A fd \in DOMAIN channels_ :
    life[channels_[fd]] = "registered" /\ fd_[channels_[fd]] = fd

\* One channel in use per descriptor.
FdInv ==
  \A c, d \in Channels :
    /\ life[c] \in {"new", "registered"}
    /\ life[d] \in {"new", "registered"}
    /\ fd_[c] = fd_[d]
    => c = d

\* A channel ::poll reported has been registered.
ActiveInv == \A c \in activeChannels : life[c] \in {"registered", "removed"}

RegistryInv == TypeOK /\ RegisteredInv /\ MapInv /\ FdInv /\ IndicesMatch /\ ActiveInv

=============================================================================
