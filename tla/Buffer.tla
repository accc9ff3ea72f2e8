-------------------------------- MODULE Buffer --------------------------------
(****************************************************************************)
(* reactor/s13/Buffer: one vector of bytes, the readable ones between two   *)
(* indices.  In front of them there is always room for kCheapPrepend bytes; *)
(* what has been read leaves more, and makeSpace() moves the readable bytes *)
(* back over it before it lets the vector grow.                             *)
(*                                                                          *)
(* Indices count from 0 as in the code: byte i is buffer_[i + 1].           *)
(****************************************************************************)
EXTENDS Naturals, Sequences, SequencesExt

CONSTANTS
  Bytes,          \* the values a byte can have
  Zero,           \* the byte resize() fills a vector with
  CheapPrepend,   \* kCheapPrepend
  InitialSize,    \* kInitialSize
  ExtraBuf,       \* size of readFd()'s buffer on the stack
  MaxReadable     \* bound on the bytes that wait to be read

ASSUME BufferAssumption ==
  /\ CheapPrepend \in Nat
  /\ InitialSize \in Nat
  /\ ExtraBuf \in Nat
  /\ MaxReadable \in Nat
  /\ Zero \in Bytes

VARIABLES
  buffer_, readIndex_, writeIndex_,
  input     \* history: the bytes the last call was given

vars == <<buffer_, readIndex_, writeIndex_, input>>

TypeOK ==
  /\ buffer_ \in Seq(Bytes)
  /\ readIndex_ \in CheapPrepend..writeIndex_
  /\ writeIndex_ \in CheapPrepend..Len(buffer_)
  /\ input \in Seq(Bytes)

Init ==
  /\ buffer_ = [i \in 1..(CheapPrepend + InitialSize) |-> Zero]
  /\ readIndex_ = CheapPrepend
  /\ writeIndex_ = CheapPrepend
  /\ input = <<>>

-----------------------------------------------------------------------------
(* A buffer as a value: what the members compute from the one they are      *)
(* called on.                                                               *)

This == [bytes |-> buffer_, read |-> readIndex_, write |-> writeIndex_]

Becomes(b) ==
  /\ buffer_' = b.bytes
  /\ readIndex_' = b.read
  /\ writeIndex_' = b.write

readableBytes(b) == b.write - b.read
writeableBytes(b) == Len(b.bytes) - b.write
prependableBytes(b) == b.read

\* The bytes that can be read, in order.
Readable(b) == SubSeq(b.bytes, b.read + 1, b.write)

\* std::copy of bytes to index at.
CopyTo(vector, at, bytes) ==
  [i \in DOMAIN vector |->
     IF i \in (at + 1)..(at + Len(bytes)) THEN bytes[i - at] ELSE vector[i]]

\* std::vector::resize.
Resize(vector, size) ==
  [i \in 1..size |-> IF i <= Len(vector) THEN vector[i] ELSE Zero]

\* hasWriten(len): the bytes were put there before.
hasWriten(b, len) == [b EXCEPT !.write = b.write + len]

\* Moving the readable bytes to the front makes room enough.
CanCompact(b, len) ==
  writeableBytes(b) + prependableBytes(b) - CheapPrepend >= len

Compact(b) ==
  [bytes |-> CopyTo(b.bytes, CheapPrepend, Readable(b)),
   read  |-> CheapPrepend,
   write |-> CheapPrepend + readableBytes(b)]

\* makeSpace(len): the vector grows only when compacting is not enough.
makeSpace(b, len) ==
  IF CanCompact(b, len)
  THEN Compact(b)
  ELSE [b EXCEPT !.bytes = Resize(b.bytes, b.write + len)]

ensureWriteableBytes(b, len) ==
  IF writeableBytes(b) < len THEN makeSpace(b, len) ELSE b

append(b, bytes) ==
  LET room == ensureWriteableBytes(b, Len(bytes))
  IN  hasWriten([room EXCEPT !.bytes = CopyTo(room.bytes, room.write, bytes)], Len(bytes))

\* Mutant: the rest of a long read goes in front of what fits.
readFdSwapped(b, bytes) ==
  LET fits == writeableBytes(b)
  IN  IF Len(bytes) < fits
      THEN hasWriten([b EXCEPT !.bytes = CopyTo(b.bytes, b.write, bytes)], Len(bytes))
      ELSE append(b, SubSeq(bytes, fits + 1, Len(bytes)) \o SubSeq(bytes, 1, fits))

\* readFd() when ::readv put bytes into the free part of the vector and, when
\* they do not fit, into extraBuf, from where they are appended.
readFd(b, bytes) ==
  LET fits == writeableBytes(b)
      filled == [b EXCEPT !.bytes = CopyTo(b.bytes, b.write, SubSeq(bytes, 1, fits))]
  IN  IF Len(bytes) < fits
      THEN hasWriten([b EXCEPT !.bytes = CopyTo(b.bytes, b.write, bytes)], Len(bytes))
      ELSE append(hasWriten(filled, fits), SubSeq(bytes, fits + 1, Len(bytes)))

\* The string retrieveAsString() constructs: writeableBytes() bytes from peek().
Retrieved(b) == SubSeq(b.bytes, b.read + 1, b.read + writeableBytes(b))

-----------------------------------------------------------------------------
(* The calls that change a buffer.                                          *)

\* The bytes one call can bring: the bound is on what is readable afterwards.
Incoming(max) ==
  UNION {[1..len -> Bytes] : len \in {n \in 0..max : readableBytes(This) + n <= MaxReadable}}

AppendBytes ==
  \E bytes \in Incoming(MaxReadable) :
    /\ Becomes(append(This, bytes))
    /\ input' = bytes

\* ensureWriteableBytes() is public too: a caller may make room and write later.
EnsureWriteableBytes ==
  \E len \in 0..(MaxReadable - readableBytes(This)) :
    /\ Becomes(ensureWriteableBytes(This, len))
    /\ input' = <<>>

\* A failed ::readv (n < 0) changes nothing.
ReadFd ==
  \E bytes \in Incoming(writeableBytes(This) + ExtraBuf) :
    /\ Becomes(readFd(This, bytes))
    /\ input' = bytes

\* retrieve(len), and retrieveUntil(end) with end - peek() = len.
Retrieve ==
  \E len \in 0..readableBytes(This) :
    /\ Becomes([This EXCEPT !.read = readIndex_ + len])
    /\ input' = <<>>

\* retrieveAll(), and retrieveAsString() once it has made its string.
RetrieveAll ==
  /\ Becomes([bytes |-> buffer_, read |-> CheapPrepend, write |-> CheapPrepend])
  /\ input' = <<>>

Next ==
  \/ AppendBytes
  \/ EnsureWriteableBytes
  \/ ReadFd
  \/ Retrieve
  \/ RetrieveAll

Spec == Init /\ [][Next]_vars

-----------------------------------------------------------------------------
(* Properties.                                                              *)

\* A buffer is a queue of bytes: what append() and readFd() bring is read back in
\* that order, and neither compacting nor growing nor the detour of a long read
\* through extraBuf loses, repeats or reorders a byte.
BQ == INSTANCE ByteQueue WITH contents <- Readable(This)

ImplementsByteQueue == BQ!Spec

\* ensureWriteableBytes() does what its name says and its assertion claims, for
\* every length, and compacts only when there is something in front to reclaim
\* (the assertion in makeSpace()).
RoomIsMade ==
  \A len \in 0..MaxReadable :
    LET room == ensureWriteableBytes(This, len)
    IN  /\ writeableBytes(room) >= len
        /\ writeableBytes(This) < len /\ CanCompact(This, len) => CheapPrepend < readIndex_

\* retrieveAsString() returns what was readable: the echo of reactor/s08 sends it
\* back, and reactor/s13 prints it as the message.
RetrievesReadable == readableBytes(This) > 0 => Retrieved(This) = Readable(This)

=============================================================================
