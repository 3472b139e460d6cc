------------------------------ MODULE ByteQueue ------------------------------
(***************************************************************************)
(* What a bounded byte queue promises: nf::buffer::ringbuffer::RingBuffer  *)
(* seen from outside.  The content is one sequence; a write appends the    *)
(* longest prefix that fits, a read takes the longest prefix that is       *)
(* there, and the bytes handed to the caller are exactly the oldest ones.  *)
(* RingBuffer.tla is shown to implement this specification.                *)
(***************************************************************************)
EXTENDS Integers, Sequences

CONSTANTS Cap, Byte, MaxChunk

VARIABLES content,   \* the bytes in the queue, oldest first
          moved      \* the bytes the last operation stored, or gave its caller

vars == <<content, moved>>

Smaller(a, b) == IF a < b THEN a ELSE b

Take(s, n) == SubSeq(s, 1, Smaller(n, Len(s)))
Drop(s, n) == SubSeq(s, Smaller(n, Len(s)) + 1, Len(s))

Chunks == UNION {[1..n -> Byte] : n \in 0..MaxChunk}

Init == content = <<>> /\ moved = <<>>

Put(bytes) ==
  /\ moved' = Take(bytes, Cap - Len(content))
  /\ content' = content \o moved'

Get(n) ==
  /\ moved' = Take(content, n)
  /\ content' = Drop(content, n)

Look(n) ==
  /\ moved' = Take(content, n)
  /\ UNCHANGED content

Skip(n) ==
  /\ content' = Drop(content, n)
  /\ moved' = <<>>

Empty == content' = <<>> /\ moved' = <<>>

Next ==
  \/ \E bytes \in Chunks : Put(bytes)
  \/ \E n \in 0..MaxChunk : Get(n) \/ Look(n) \/ Skip(n)
  \/ Empty

Spec == Init /\ [][Next]_vars
==============================================================================
