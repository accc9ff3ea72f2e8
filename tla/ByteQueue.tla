------------------------------ MODULE ByteQueue ------------------------------
(****************************************************************************)
(* What Buffer promises to TcpConnection and to the application: a queue of *)
(* bytes.  Bytes are put at the end, taken from the front, and dropped all  *)
(* at once; nothing else changes what is readable.                          *)
(****************************************************************************)
EXTENDS Naturals, Sequences

CONSTANT Bytes

VARIABLES
  contents,   \* the bytes that wait, oldest first
  input       \* what the last call brought, if it brought anything

vars == <<contents, input>>

Init == contents = <<>> /\ input = <<>>

Put ==
  /\ input' \in Seq(Bytes)
  /\ contents' = contents \o input'

Take(len) ==
  /\ contents' = SubSeq(contents, len + 1, Len(contents))
  /\ input' = <<>>

Next ==
  \/ Put
  \/ \E len \in 1..Len(contents) : Take(len)

Spec == Init /\ [][Next]_vars

=============================================================================
