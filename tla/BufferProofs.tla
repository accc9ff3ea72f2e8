----------------------------- MODULE BufferProofs -----------------------------
(****************************************************************************)
(* Proofs about Buffer, for all values of its constants: the indices stay   *)
(* in order and within the vector, room is made where it is promised, and   *)
(* the buffer is a queue of bytes.  Each member has a law that says what    *)
(* becomes of the indices and of the bytes that can be read.                *)
(****************************************************************************)
EXTENDS Buffer, SequenceTheorems, TLAPS

\* TypeOK, of a buffer as a value.
Sound(b) ==
  /\ b \in [bytes : Seq(Bytes), read : Nat, write : Nat]
  /\ CheapPrepend <= b.read
  /\ b.read <= b.write
  /\ b.write <= Len(b.bytes)

-----------------------------------------------------------------------------
(* Sequences.                                                               *)

\* A part of a sequence.
LEMMA SubSeqLaw ==
  ASSUME NEW s \in Seq(Bytes), NEW m \in Nat \ {0}, NEW n \in Nat, n <= Len(s)
  PROVE  /\ SubSeq(s, m, n) \in Seq(Bytes)
         /\ Len(SubSeq(s, m, n)) = IF m <= n THEN n - m + 1 ELSE 0
         /\ \A i \in 1..(n - m + 1) : SubSeq(s, m, n)[i] = s[m + i - 1]
<1>1. \A i \in m..n : s[i] \in Bytes
  OBVIOUS
<1> QED
  BY <1>1, SubSeqProperties

\* A sequence is its beginning and its rest.
LEMMA SplitLaw ==
  ASSUME NEW s \in Seq(Bytes), NEW n \in 0..Len(s)
  PROVE  SubSeq(s, 1, n) \o SubSeq(s, n + 1, Len(s)) = s
<1> DEFINE first == SubSeq(s, 1, n)
           rest  == SubSeq(s, n + 1, Len(s))
<1>1. /\ first \in Seq(Bytes) /\ Len(first) = n
      /\ \A i \in 1..n : first[i] = s[i]
  BY SubSeqLaw
<1>2. /\ rest \in Seq(Bytes) /\ Len(rest) = Len(s) - n
      /\ \A i \in 1..(Len(s) - n) : rest[i] = s[n + i]
  <2>1. n + 1 \in Nat \ {0} /\ Len(s) \in Nat /\ Len(s) <= Len(s)
    OBVIOUS
  <2>2. /\ rest \in Seq(Bytes)
        /\ Len(rest) = IF n + 1 <= Len(s) THEN Len(s) - (n + 1) + 1 ELSE 0
        /\ \A i \in 1..(Len(s) - (n + 1) + 1) : rest[i] = s[(n + 1) + i - 1]
    BY <2>1, SubSeqLaw
  <2> QED
    BY <2>2
<1> HIDE DEF first, rest
<1>3. /\ first \o rest \in Seq(Bytes) /\ Len(first \o rest) = Len(s)
      /\ \A i \in 1..Len(s) :
           (first \o rest)[i] = IF i <= n THEN first[i] ELSE rest[i - n]
  BY <1>1, <1>2, ConcatProperties
<1>4. ASSUME NEW i \in 1..Len(s) PROVE (first \o rest)[i] = s[i]
  <2>1. CASE i <= n
    BY <1>1, <1>3, <2>1
  <2>2. CASE ~(i <= n)
    <3>1. i - n \in 1..(Len(s) - n) /\ n + (i - n) = i
      BY <2>2
    <3> QED
      BY <1>2, <1>3, <2>2, <3>1
  <2> QED
    BY <2>1, <2>2
<1>5. first \o rest = s
  BY <1>3, <1>4, SeqEqual
<1> QED
  BY <1>5 DEF first, rest

\* std::copy into a vector keeps its size and changes no other place.
LEMMA CopyToLaw ==
  ASSUME NEW vector \in Seq(Bytes), NEW at \in Nat, NEW bytes \in Seq(Bytes)
  PROVE  /\ CopyTo(vector, at, bytes) \in Seq(Bytes)
         /\ Len(CopyTo(vector, at, bytes)) = Len(vector)
         /\ \A i \in 1..Len(vector) :
              CopyTo(vector, at, bytes)[i] =
                IF i \in (at + 1)..(at + Len(bytes)) THEN bytes[i - at] ELSE vector[i]
<1> DEFINE copy == CopyTo(vector, at, bytes)
<1>1. DOMAIN vector = 1..Len(vector) /\ Len(vector) \in Nat
  OBVIOUS
<1>2. ASSUME NEW i \in 1..Len(vector)
      PROVE  (IF i \in (at + 1)..(at + Len(bytes)) THEN bytes[i - at] ELSE vector[i]) \in Bytes
  OBVIOUS
<1>3. copy \in [1..Len(vector) -> Bytes]
  BY <1>1, <1>2 DEF CopyTo
<1>4. ASSUME NEW i \in 1..Len(vector)
      PROVE  copy[i] = IF i \in (at + 1)..(at + Len(bytes)) THEN bytes[i - at] ELSE vector[i]
  BY <1>1 DEF CopyTo
<1> HIDE DEF copy
<1>5. copy \in Seq(Bytes) /\ Len(copy) = Len(vector)
  BY <1>1, <1>3
<1> QED
  BY <1>4, <1>5 DEF copy

\* resize() keeps what there was.
LEMMA ResizeLaw ==
  ASSUME NEW vector \in Seq(Bytes), NEW size \in Nat, Len(vector) <= size
  PROVE  /\ Resize(vector, size) \in Seq(Bytes)
         /\ Len(Resize(vector, size)) = size
         /\ \A i \in 1..Len(vector) : Resize(vector, size)[i] = vector[i]
<1>1. ASSUME NEW i \in 1..size
      PROVE  (IF i <= Len(vector) THEN vector[i] ELSE Zero) \in Bytes
  BY BufferAssumption
<1>2. Resize(vector, size) \in [1..size -> Bytes]
  BY <1>1 DEF Resize
<1>3. ASSUME NEW i \in 1..Len(vector) PROVE Resize(vector, size)[i] = vector[i]
  BY DEF Resize
<1>4. Resize(vector, size) \in Seq(Bytes) /\ Len(Resize(vector, size)) = size
  BY <1>2
<1> QED
  BY <1>3, <1>4

\* The bytes that can be read, one by one.
LEMMA ReadableLaw ==
  ASSUME NEW b, Sound(b)
  PROVE  /\ readableBytes(b) \in Nat
         /\ Readable(b) \in Seq(Bytes)
         /\ Len(Readable(b)) = readableBytes(b)
         /\ \A i \in 1..readableBytes(b) : Readable(b)[i] = b.bytes[b.read + i]
<1>1. /\ b.bytes \in Seq(Bytes) /\ b.read + 1 \in Nat \ {0}
      /\ b.write \in Nat /\ b.write <= Len(b.bytes)
      /\ readableBytes(b) = b.write - b.read /\ readableBytes(b) \in Nat
  BY DEF Sound, readableBytes
<1>2. /\ Readable(b) \in Seq(Bytes)
      /\ Len(Readable(b)) = IF b.read + 1 <= b.write THEN b.write - (b.read + 1) + 1 ELSE 0
      /\ \A i \in 1..(b.write - (b.read + 1) + 1) :
           Readable(b)[i] = b.bytes[(b.read + 1) + i - 1]
  BY <1>1, SubSeqLaw DEF Readable
<1>3. ASSUME NEW i \in 1..readableBytes(b) PROVE Readable(b)[i] = b.bytes[b.read + i]
  <2>1. i \in 1..(b.write - (b.read + 1) + 1) /\ (b.read + 1) + i - 1 = b.read + i
    BY <1>1 DEF Sound
  <2> QED
    BY <1>2, <2>1
<1> QED
  BY <1>1, <1>2, <1>3 DEF Sound

\* Two buffers with the same bytes between their indices.
LEMMA SameReadable ==
  ASSUME NEW b, Sound(b), NEW c, Sound(c), readableBytes(c) = readableBytes(b),
         \A i \in 1..readableBytes(b) : c.bytes[c.read + i] = b.bytes[b.read + i]
  PROVE  Readable(c) = Readable(b)
<1>1. /\ Readable(b) \in Seq(Bytes) /\ Readable(c) \in Seq(Bytes)
      /\ Len(Readable(b)) = readableBytes(b) /\ Len(Readable(c)) = readableBytes(b)
  BY ReadableLaw
<1>2. \A i \in 1..readableBytes(b) : Readable(c)[i] = Readable(b)[i]
  BY ReadableLaw
<1> QED
  BY <1>1, <1>2, SeqEqual

-----------------------------------------------------------------------------
(* The members.                                                             *)

\* Bytes put into the free part of the vector and declared written ...
Written(b, bytes) ==
  hasWriten([b EXCEPT !.bytes = CopyTo(b.bytes, b.write, bytes)], Len(bytes))

\* ... come after those that could be read.
LEMMA WrittenLaw ==
  ASSUME NEW b, Sound(b), NEW bytes \in Seq(Bytes), Len(bytes) <= writeableBytes(b)
  PROVE  /\ Sound(Written(b, bytes))
         /\ Readable(Written(b, bytes)) = Readable(b) \o bytes
<1> DEFINE v == CopyTo(b.bytes, b.write, bytes)
           c == Written(b, bytes)
<1>1. /\ b.bytes \in Seq(Bytes) /\ b.read \in Nat /\ b.write \in Nat
      /\ b.read <= b.write /\ b.write + Len(bytes) <= Len(b.bytes) /\ Len(bytes) \in Nat
      /\ CheapPrepend <= b.read
  BY DEF Sound, writeableBytes
<1>2. /\ v \in Seq(Bytes) /\ Len(v) = Len(b.bytes)
      /\ \A i \in 1..Len(b.bytes) :
           v[i] = IF i \in (b.write + 1)..(b.write + Len(bytes)) THEN bytes[i - b.write]
                  ELSE b.bytes[i]
  BY <1>1, CopyToLaw
<1> HIDE DEF v
<1>3. c = [bytes |-> v, read |-> b.read, write |-> b.write + Len(bytes)]
  <2> DEFINE full == [bytes |-> v, read |-> b.read, write |-> b.write]
  <2>1. [b EXCEPT !.bytes = v] = full
    BY DEF Sound
  <2>2. hasWriten(full, Len(bytes)) = [bytes |-> v, read |-> b.read, write |-> b.write + Len(bytes)]
    BY DEF hasWriten
  <2> QED
    BY <2>1, <2>2 DEF v, Written
<1> HIDE DEF c
<1>4. Sound(c) /\ readableBytes(c) = readableBytes(b) + Len(bytes)
  BY <1>1, <1>2, <1>3 DEF Sound, readableBytes
<1>5. /\ Readable(b) \in Seq(Bytes) /\ Readable(c) \in Seq(Bytes)
      /\ Len(Readable(b)) = readableBytes(b) /\ Len(Readable(c)) = readableBytes(b) + Len(bytes)
      /\ readableBytes(b) \in Nat
  BY <1>4, ReadableLaw
<1>6. /\ Readable(b) \o bytes \in Seq(Bytes)
      /\ Len(Readable(b) \o bytes) = readableBytes(b) + Len(bytes)
      /\ \A i \in 1..(readableBytes(b) + Len(bytes)) :
           (Readable(b) \o bytes)[i] =
             IF i <= readableBytes(b) THEN Readable(b)[i] ELSE bytes[i - readableBytes(b)]
  <2>1. /\ Readable(b) \o bytes \in Seq(Bytes)
        /\ Len(Readable(b) \o bytes) = Len(Readable(b)) + Len(bytes)
        /\ \A i \in 1..(Len(Readable(b)) + Len(bytes)) :
             (Readable(b) \o bytes)[i] =
               IF i <= Len(Readable(b)) THEN Readable(b)[i] ELSE bytes[i - Len(Readable(b))]
    BY <1>5, ConcatProperties
  <2> QED
    BY <1>5, <2>1
<1>7. ASSUME NEW i \in 1..(readableBytes(b) + Len(bytes))
      PROVE  Readable(c)[i] = (Readable(b) \o bytes)[i]
  <2>1. Readable(c)[i] = v[b.read + i]
    BY <1>3, <1>4, ReadableLaw
  <2>2. b.read + i \in 1..Len(b.bytes) /\ b.read + readableBytes(b) = b.write
    BY <1>1 DEF readableBytes
  <2>3. CASE i <= readableBytes(b)
    <3>1. b.read + i \notin (b.write + 1)..(b.write + Len(bytes)) /\ i \in 1..readableBytes(b)
      BY <1>1, <1>5, <2>2, <2>3
    <3>2. v[b.read + i] = b.bytes[b.read + i]
      BY <1>2, <2>2, <3>1
    <3>3. Readable(b)[i] = b.bytes[b.read + i]
      BY <3>1, ReadableLaw
    <3> QED
      BY <1>6, <2>1, <2>3, <3>2, <3>3
  <2>4. CASE ~(i <= readableBytes(b))
    <3>1. /\ b.read + i \in (b.write + 1)..(b.write + Len(bytes))
          /\ (b.read + i) - b.write = i - readableBytes(b)
      BY <1>1, <1>5, <2>2, <2>4
    <3>2. v[b.read + i] = bytes[i - readableBytes(b)]
      BY <1>2, <2>2, <3>1
    <3> QED
      BY <1>6, <2>1, <2>4, <3>2
  <2> QED
    BY <2>3, <2>4
<1> QED
  BY <1>4, <1>5, <1>6, <1>7, SeqEqual DEF c

\* makeSpace() makes the room it was called for, in one of its two ways, and keeps
\* what can be read.
LEMMA MakeSpaceLaw ==
  ASSUME NEW b, Sound(b), NEW len \in Nat, writeableBytes(b) < len
  PROVE  /\ Sound(makeSpace(b, len))
         /\ writeableBytes(makeSpace(b, len)) >= len
         /\ Readable(makeSpace(b, len)) = Readable(b)
<1> DEFINE c == makeSpace(b, len)
<1>0. /\ b.bytes \in Seq(Bytes) /\ b.read \in Nat /\ b.write \in Nat
      /\ b.read <= b.write /\ b.write <= Len(b.bytes) /\ Len(b.bytes) \in Nat
      /\ CheapPrepend <= b.read /\ CheapPrepend \in Nat
      /\ b \in [bytes : Seq(Bytes), read : Nat, write : Nat]
      /\ readableBytes(b) = b.write - b.read
  BY BufferAssumption DEF Sound, readableBytes
<1>1. CASE CanCompact(b, len)
  <2> DEFINE moved == CopyTo(b.bytes, CheapPrepend, Readable(b))
  <2>1. Readable(b) \in Seq(Bytes) /\ Len(Readable(b)) = readableBytes(b)
    BY ReadableLaw
  <2>2. /\ moved \in Seq(Bytes) /\ Len(moved) = Len(b.bytes)
        /\ \A i \in 1..Len(b.bytes) :
             moved[i] = IF i \in (CheapPrepend + 1)..(CheapPrepend + readableBytes(b))
                        THEN Readable(b)[i - CheapPrepend] ELSE b.bytes[i]
    BY <1>0, <2>1, CopyToLaw
  <2>3. c = [bytes |-> moved, read |-> CheapPrepend,
             write |-> CheapPrepend + readableBytes(b)]
    BY <1>1 DEF makeSpace, Compact
  <2> HIDE DEF moved, c
  <2>4. Sound(c) /\ readableBytes(c) = readableBytes(b)
    BY <1>0, <2>2, <2>3 DEF Sound, readableBytes
  <2>5. writeableBytes(c) >= len
    BY <1>0, <1>1, <2>2, <2>3 DEF CanCompact, writeableBytes, prependableBytes
  <2>6. ASSUME NEW i \in 1..readableBytes(b)
        PROVE  c.bytes[c.read + i] = b.bytes[b.read + i]
    <3>1. /\ CheapPrepend + i \in (CheapPrepend + 1)..(CheapPrepend + readableBytes(b))
          /\ CheapPrepend + i \in 1..Len(b.bytes)
          /\ (CheapPrepend + i) - CheapPrepend = i
      BY <1>0
    <3>2. moved[CheapPrepend + i] = Readable(b)[i]
      BY <2>2, <3>1
    <3> QED
      BY <2>3, <3>2, ReadableLaw
  <2> QED
    BY <2>4, <2>5, <2>6, SameReadable DEF c
<1>2. CASE ~CanCompact(b, len)
  <2> DEFINE grown == Resize(b.bytes, b.write + len)
  <2>0. b.write + len \in Nat /\ Len(b.bytes) <= b.write + len
    BY <1>0 DEF writeableBytes
  <2>1. /\ grown \in Seq(Bytes) /\ Len(grown) = b.write + len
        /\ \A i \in 1..Len(b.bytes) : grown[i] = b.bytes[i]
    BY <1>0, <2>0, ResizeLaw
  <2>2. c = [b EXCEPT !.bytes = grown]
    BY <1>2 DEF makeSpace
  <2> HIDE DEF grown, c
  <2>3. c = [bytes |-> grown, read |-> b.read, write |-> b.write]
    BY <1>0, <2>1, <2>2
  <2>4. Sound(c) /\ readableBytes(c) = readableBytes(b)
    BY <1>0, <2>0, <2>1, <2>3 DEF Sound, readableBytes
  <2>5. writeableBytes(c) >= len
    BY <1>0, <2>1, <2>3 DEF writeableBytes
  <2>6. ASSUME NEW i \in 1..readableBytes(b)
        PROVE  c.bytes[c.read + i] = b.bytes[b.read + i]
    BY <1>0, <2>1, <2>3
  <2> QED
    BY <2>4, <2>5, <2>6, SameReadable DEF c
<1> QED
  BY <1>1, <1>2

\* ensureWriteableBytes() keeps its promise for every length.
LEMMA EnsureLaw ==
  ASSUME NEW b, Sound(b), NEW len \in Nat
  PROVE  /\ Sound(ensureWriteableBytes(b, len))
         /\ writeableBytes(ensureWriteableBytes(b, len)) >= len
         /\ Readable(ensureWriteableBytes(b, len)) = Readable(b)
<1>1. CASE writeableBytes(b) < len
  BY <1>1, MakeSpaceLaw DEF ensureWriteableBytes
<1>2. CASE ~(writeableBytes(b) < len)
  BY <1>2 DEF ensureWriteableBytes, writeableBytes, Sound
<1> QED
  BY <1>1, <1>2

\* append() adds what it is given to what can be read.
LEMMA AppendLaw ==
  ASSUME NEW b, Sound(b), NEW bytes \in Seq(Bytes)
  PROVE  Sound(append(b, bytes)) /\ Readable(append(b, bytes)) = Readable(b) \o bytes
<1> DEFINE room == ensureWriteableBytes(b, Len(bytes))
<1>1. Sound(room) /\ writeableBytes(room) >= Len(bytes) /\ Readable(room) = Readable(b)
  BY EnsureLaw
<1>2. append(b, bytes) = Written(room, bytes)
  BY DEF append, Written
<1>3. Len(bytes) <= writeableBytes(room)
  <2>1. writeableBytes(room) \in Int
    BY <1>1 DEF Sound, writeableBytes
  <2> QED
    BY <1>1, <2>1
<1> HIDE DEF room
<1> QED
  BY <1>1, <1>2, <1>3, WrittenLaw

\* readFd() adds all that ::readv brought, whichever of its two parts it went to.
LEMMA ReadFdLaw ==
  ASSUME NEW b, Sound(b), NEW bytes \in Seq(Bytes)
  PROVE  Sound(readFd(b, bytes)) /\ Readable(readFd(b, bytes)) = Readable(b) \o bytes
<1> DEFINE fits == writeableBytes(b)
<1>0. fits \in Nat /\ Readable(b) \in Seq(Bytes)
  BY ReadableLaw DEF writeableBytes, Sound
<1>1. CASE Len(bytes) < fits
  <2>1. readFd(b, bytes) = Written(b, bytes)
    BY <1>1 DEF readFd, Written
  <2>2. Len(bytes) <= writeableBytes(b)
    BY <1>0, <1>1
  <2> QED
    BY <2>1, <2>2, WrittenLaw
<1>2. CASE ~(Len(bytes) < fits)
  <2> DEFINE first  == SubSeq(bytes, 1, fits)
             rest   == SubSeq(bytes, fits + 1, Len(bytes))
             filled == Written(b, first)
  <2>1. /\ first \in Seq(Bytes) /\ Len(first) = fits /\ rest \in Seq(Bytes)
        /\ first \o rest = bytes
    <3>1. fits \in 0..Len(bytes) /\ fits + 1 \in Nat \ {0} /\ Len(bytes) \in Nat
      BY <1>0, <1>2
    <3>2. first \in Seq(Bytes) /\ Len(first) = fits
      <4>1. /\ first \in Seq(Bytes)
            /\ Len(first) = IF 1 <= fits THEN fits - 1 + 1 ELSE 0
        BY <3>1, SubSeqLaw
      <4> HIDE DEF first, fits
      <4> QED
        BY <3>1, <4>1
    <3>3. rest \in Seq(Bytes)
      BY <3>1, SubSeqLaw
    <3>4. first \o rest = bytes
      BY <3>1, SplitLaw
    <3> HIDE DEF first, rest
    <3> QED
      BY <3>2, <3>3, <3>4
  <2>2. readFd(b, bytes) = append(filled, rest)
    BY <1>2, <2>1 DEF readFd, Written
  <2> HIDE DEF rest, first
  <2>3. Sound(filled) /\ Readable(filled) = Readable(b) \o first
    <3>1. Len(first) <= writeableBytes(b)
      BY <1>0, <2>1
    <3> QED
      BY <2>1, <3>1, WrittenLaw
  <2> HIDE DEF filled
  <2>4. /\ Sound(append(filled, rest))
        /\ Readable(append(filled, rest)) = (Readable(b) \o first) \o rest
    BY <2>1, <2>3, AppendLaw
  <2>5. (Readable(b) \o first) \o rest = Readable(b) \o (first \o rest)
    <3>1. \A s, t, u \in Seq(Bytes) : (s \o t) \o u = s \o (t \o u)
      BY ConcatAssociative
    <3>2. Readable(b) \in Seq(Bytes) /\ first \in Seq(Bytes) /\ rest \in Seq(Bytes)
      BY <1>0, <2>1
    <3> QED
      BY ONLY <3>1, <3>2, Zenon
  <2>6. (Readable(b) \o first) \o rest = Readable(b) \o bytes
    <3>1. first \o rest = bytes
      BY <2>1
    <3> QED
      BY ONLY <2>5, <3>1, Zenon
  <2> QED
    BY ONLY <2>2, <2>4, <2>6, Zenon
<1> QED
  BY <1>1, <1>2

\* retrieve() takes bytes from the front.
LEMMA RetrieveLaw ==
  ASSUME NEW b, Sound(b), NEW len \in 0..readableBytes(b),
         NEW c, c = [b EXCEPT !.read = b.read + len]
  PROVE  Sound(c) /\ Readable(c) = SubSeq(Readable(b), len + 1, Len(Readable(b)))
<1>0. /\ b.bytes \in Seq(Bytes) /\ b.read \in Nat /\ b.write \in Nat
      /\ b.read <= b.write /\ b.write <= Len(b.bytes)
      /\ CheapPrepend <= b.read /\ CheapPrepend \in Nat
      /\ b \in [bytes : Seq(Bytes), read : Nat, write : Nat]
      /\ readableBytes(b) = b.write - b.read /\ len \in Nat
  BY BufferAssumption DEF Sound, readableBytes
<1>1. c = [bytes |-> b.bytes, read |-> b.read + len, write |-> b.write]
  BY <1>0
<1>2. Sound(c) /\ readableBytes(c) = readableBytes(b) - len
  BY <1>0, <1>1 DEF Sound, readableBytes
<1> DEFINE rest == SubSeq(Readable(b), len + 1, Len(Readable(b)))
<1>3. /\ Readable(b) \in Seq(Bytes) /\ Len(Readable(b)) = readableBytes(b)
      /\ Readable(c) \in Seq(Bytes) /\ Len(Readable(c)) = readableBytes(b) - len
  BY <1>2, ReadableLaw
<1>4. /\ rest \in Seq(Bytes) /\ Len(rest) = readableBytes(b) - len
      /\ \A i \in 1..(readableBytes(b) - len) : rest[i] = Readable(b)[len + i]
  <2>1. /\ len + 1 \in Nat \ {0} /\ Len(Readable(b)) \in Nat
        /\ Len(Readable(b)) <= Len(Readable(b))
    BY <1>0, <1>3
  <2>2. /\ rest \in Seq(Bytes)
        /\ Len(rest) = IF len + 1 <= Len(Readable(b)) THEN Len(Readable(b)) - (len + 1) + 1 ELSE 0
        /\ \A i \in 1..(Len(Readable(b)) - (len + 1) + 1) :
             rest[i] = Readable(b)[(len + 1) + i - 1]
    BY <1>3, <2>1, SubSeqLaw
  <2> HIDE DEF rest
  <2>3. ASSUME NEW i \in 1..(readableBytes(b) - len) PROVE rest[i] = Readable(b)[len + i]
    <3>1. i \in 1..(Len(Readable(b)) - (len + 1) + 1) /\ (len + 1) + i - 1 = len + i
      BY <1>0, <1>3
    <3> QED
      BY <2>2, <3>1
  <2>4. Len(rest) = readableBytes(b) - len
    BY <1>0, <1>3, <2>2
  <2> QED
    BY <2>2, <2>3, <2>4
<1> HIDE DEF rest
<1>5. ASSUME NEW i \in 1..(readableBytes(b) - len) PROVE Readable(c)[i] = rest[i]
  <2>1. Readable(c)[i] = b.bytes[(b.read + len) + i]
    BY <1>1, <1>2, ReadableLaw
  <2>2. len + i \in 1..readableBytes(b) /\ b.read + (len + i) = (b.read + len) + i
    BY <1>0
  <2>3. Readable(b)[len + i] = b.bytes[b.read + (len + i)]
    BY <2>2, ReadableLaw
  <2> QED
    BY <1>4, <2>1, <2>2, <2>3
<1>6. Readable(c) = rest
  BY <1>3, <1>4, <1>5, SeqEqual
<1> QED
  BY <1>2, <1>6 DEF rest

\* A buffer with nothing to read.
LEMMA EmptyLaw ==
  ASSUME NEW b, Sound(b), b.read = b.write
  PROVE  Readable(b) = <<>>
<1>1. Readable(b) \in Seq(Bytes) /\ Len(Readable(b)) = 0
  BY ReadableLaw DEF readableBytes, Sound
<1> QED
  BY <1>1

-----------------------------------------------------------------------------
(* The state.                                                               *)

\* The members' values and the variables say the same.
LEMMA SoundIsTypeOK ==
  TypeOK <=> Sound(This) /\ input \in Seq(Bytes)
BY BufferAssumption DEF TypeOK, Sound, This

\* A buffer a member has computed becomes the state.
LEMMA BecomesLaw ==
  ASSUME NEW b, Sound(b), Becomes(b), input' \in Seq(Bytes)
  PROVE  TypeOK' /\ Readable(This)' = Readable(b)
<1>1. TypeOK'
  BY BufferAssumption DEF TypeOK, Sound, Becomes
<1>2. Readable(This)' = Readable(b)
  BY DEF Readable, This, Becomes
<1> QED
  BY <1>1, <1>2

\* What a call brings is a sequence of bytes.
LEMMA IncomingLaw ==
  ASSUME NEW max \in Nat, NEW bytes \in Incoming(max)
  PROVE  bytes \in Seq(Bytes)
<1>1. PICK len \in {n \in 0..max : readableBytes(This) + n <= MaxReadable} :
        bytes \in [1..len -> Bytes]
  BY DEF Incoming
<1> QED
  BY <1>1

\* A call that brings bytes is a Put of the queue, and so is one that changes nothing
\* that can be read.
LEMMA PutLaw ==
  ASSUME TypeOK, NEW b, Sound(b), Becomes(b), NEW bytes \in Seq(Bytes), input' = bytes,
         Readable(b) = Readable(This) \o bytes
  PROVE  TypeOK' /\ BQ!Put
BY BecomesLaw DEF BQ!Put

LEMMA IdleLaw ==
  ASSUME TypeOK, NEW b, Sound(b), Becomes(b), input' = <<>>,
         Readable(b) = Readable(This)
  PROVE  TypeOK' /\ BQ!Put
<1>1. Readable(This) \in Seq(Bytes)
  BY SoundIsTypeOK, ReadableLaw
<1>2. Readable(b) = Readable(This) \o <<>>
  BY <1>1, ConcatEmptySeq
<1>3. <<>> \in Seq(Bytes)
  OBVIOUS
<1> QED
  BY <1>2, <1>3, PutLaw

LEMMA InitLaw == Init => TypeOK /\ BQ!Init
<1> SUFFICES ASSUME Init PROVE TypeOK /\ BQ!Init
  OBVIOUS
<1>1. buffer_ \in [1..(CheapPrepend + InitialSize) -> Bytes]
  BY BufferAssumption DEF Init
<1>2. buffer_ \in Seq(Bytes) /\ Len(buffer_) = CheapPrepend + InitialSize
  BY <1>1, BufferAssumption
<1>3. TypeOK
  BY <1>2, BufferAssumption DEF Init, TypeOK
<1>4. Readable(This) = <<>>
  <2>1. This.read = This.write
    BY DEF Init, This
  <2> QED
    BY <1>3, <2>1, SoundIsTypeOK, EmptyLaw
<1> QED
  BY <1>3, <1>4 DEF Init, BQ!Init

LEMMA StepLaw == TypeOK /\ [Next]_vars => TypeOK' /\ [BQ!Next]_BQ!vars
<1> SUFFICES ASSUME TypeOK, [Next]_vars PROVE TypeOK' /\ [BQ!Next]_BQ!vars
  OBVIOUS
<1>0. Sound(This)
  BY SoundIsTypeOK
<1>1. CASE AppendBytes
  <2>1. PICK bytes \in Incoming(MaxReadable) : Becomes(append(This, bytes)) /\ input' = bytes
    BY <1>1 DEF AppendBytes
  <2>2. bytes \in Seq(Bytes)
    BY IncomingLaw, BufferAssumption
  <2>3. TypeOK' /\ BQ!Put
    BY <1>0, <2>1, <2>2, AppendLaw, PutLaw
  <2> QED
    BY <2>3 DEF BQ!Next
<1>2. CASE EnsureWriteableBytes
  <2>1. PICK len \in 0..(MaxReadable - readableBytes(This)) :
          Becomes(ensureWriteableBytes(This, len)) /\ input' = <<>>
    BY <1>2 DEF EnsureWriteableBytes
  <2>2. len \in Nat
    BY <2>1
  <2>3. TypeOK' /\ BQ!Put
    BY <1>0, <2>1, <2>2, EnsureLaw, IdleLaw
  <2> QED
    BY <2>3 DEF BQ!Next
<1>3. CASE ReadFd
  <2>1. PICK bytes \in Incoming(writeableBytes(This) + ExtraBuf) :
          Becomes(readFd(This, bytes)) /\ input' = bytes
    BY <1>3 DEF ReadFd
  <2>2. writeableBytes(This) + ExtraBuf \in Nat
    BY <1>0, BufferAssumption DEF Sound, writeableBytes
  <2>3. bytes \in Seq(Bytes)
    BY <2>2, IncomingLaw
  <2>4. TypeOK' /\ BQ!Put
    BY <1>0, <2>1, <2>3, ReadFdLaw, PutLaw
  <2> QED
    BY <2>4 DEF BQ!Next
<1>4. CASE Retrieve
  <2>1. PICK len \in 0..readableBytes(This) :
          Becomes([This EXCEPT !.read = readIndex_ + len]) /\ input' = <<>>
    BY <1>4 DEF Retrieve
  <2> DEFINE b == [This EXCEPT !.read = This.read + len]
  <2>2. Sound(b) /\ Readable(b) = SubSeq(Readable(This), len + 1, Len(Readable(This)))
    BY <1>0, RetrieveLaw
  <2>3. Becomes(b) /\ input' \in Seq(Bytes)
    BY <2>1 DEF This
  <2> HIDE DEF b
  <2>4. TypeOK' /\ Readable(This)' = SubSeq(Readable(This), len + 1, Len(Readable(This)))
    BY <2>2, <2>3, BecomesLaw
  <2>5. Len(Readable(This)) = readableBytes(This) /\ readableBytes(This) \in Nat
    BY <1>0, ReadableLaw
  <2>6. CASE len = 0
    <3>1. Readable(This)' = Readable(This)
      <4>1. Readable(This) \in Seq(Bytes)
        BY <1>0, ReadableLaw
      <4> QED
        BY <2>4, <2>6, <4>1, SubSeqFull
    <3>2. Sound(b) /\ Becomes(b) /\ Readable(b) = Readable(This)
      BY <2>2, <2>3, <2>4, <3>1
    <3>3. BQ!Put
      BY <2>1, <3>2, IdleLaw
    <3> QED
      BY <2>4, <3>3 DEF BQ!Next
  <2>7. CASE len # 0
    <3>1. len \in 1..Len(Readable(This))
      BY <2>5, <2>7
    <3>2. BQ!Take(len)
      BY <2>1, <2>4 DEF BQ!Take
    <3> QED
      BY <2>4, <3>1, <3>2 DEF BQ!Next
  <2> QED
    BY <2>6, <2>7
<1>5. CASE RetrieveAll
  <2> DEFINE b == [bytes |-> buffer_, read |-> CheapPrepend, write |-> CheapPrepend]
  <2>1. Becomes(b) /\ input' = <<>> /\ input' \in Seq(Bytes)
    BY <1>5 DEF RetrieveAll
  <2>2. Sound(b) /\ b.read = b.write
    BY <1>0, BufferAssumption DEF Sound, This
  <2> HIDE DEF b
  <2>3. Readable(b) = <<>>
    BY <2>2, EmptyLaw
  <2>4. TypeOK' /\ Readable(This)' = <<>>
    BY <2>1, <2>2, <2>3, BecomesLaw
  <2>5. Readable(This) \in Seq(Bytes) /\ Len(Readable(This)) \in Nat
    BY <1>0, ReadableLaw
  <2>6. CASE Len(Readable(This)) = 0
    <3>1. Readable(This) = <<>>
      BY <2>5, <2>6
    <3>2. BQ!Put
      BY <2>1, <2>2, <2>3, <3>1, IdleLaw
    <3> QED
      BY <2>4, <3>2 DEF BQ!Next
  <2>7. CASE Len(Readable(This)) # 0
    <3>1. Len(Readable(This)) \in 1..Len(Readable(This))
      BY <2>5, <2>7
    <3>2. SubSeq(Readable(This), Len(Readable(This)) + 1, Len(Readable(This))) = <<>>
      BY <2>5, SubSeqEmpty
    <3>3. BQ!Take(Len(Readable(This)))
      BY <2>1, <2>4, <3>2 DEF BQ!Take
    <3> QED
      BY <2>4, <3>1, <3>3 DEF BQ!Next
  <2> QED
    BY <2>6, <2>7
<1>6. CASE UNCHANGED vars
  BY <1>6 DEF TypeOK, vars, BQ!vars, Readable, This
<1> QED
  BY <1>1, <1>2, <1>3, <1>4, <1>5, <1>6 DEF Next

\* The indices of a Buffer stay in order behind the prepend area and within the
\* vector, whatever is appended, read or retrieved.
THEOREM TypeCorrect == Spec => []TypeOK
BY InitLaw, StepLaw, PTL DEF Spec

\* In every state ensureWriteableBytes() makes the room it was asked for, and the
\* assertion in makeSpace(), that there is something to reclaim, holds.
THEOREM RoomIsAlwaysMade == Spec => []RoomIsMade
<1>1. TypeOK => RoomIsMade
  <2> SUFFICES ASSUME TypeOK, NEW len \in 0..MaxReadable
               PROVE  /\ writeableBytes(ensureWriteableBytes(This, len)) >= len
                      /\ writeableBytes(This) < len /\ CanCompact(This, len)
                           => CheapPrepend < readIndex_
    BY DEF RoomIsMade
  <2>1. Sound(This) /\ len \in Nat
    BY SoundIsTypeOK
  <2>2. writeableBytes(ensureWriteableBytes(This, len)) >= len
    BY <2>1, EnsureLaw
  <2>3. ASSUME writeableBytes(This) < len, CanCompact(This, len)
        PROVE  CheapPrepend < readIndex_
    BY <2>1, <2>3, BufferAssumption
       DEF Sound, This, CanCompact, writeableBytes, prependableBytes
  <2> QED
    BY <2>2, <2>3
<1> QED
  BY <1>1, TypeCorrect, PTL

\* A Buffer of any size, with any prepend area and any extraBuf, is a queue of bytes:
\* no sequence of calls loses, repeats or reorders one.
THEOREM BufferIsByteQueue == Spec => ImplementsByteQueue
BY InitLaw, StepLaw, PTL DEF Spec, ImplementsByteQueue, BQ!Spec

=============================================================================
