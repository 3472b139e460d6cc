----------------------------- MODULE RingBuffer ------------------------------
(***************************************************************************)
(* nf::buffer::ringbuffer::RingBuffer, the receive buffer of a session.    *)
(*                                                                         *)
(* The bytes live in buf[0 .. Cap-1]; mReadIndex, mWriteIndex and          *)
(* mUsedSize say which of them are unread.  A copy that reaches the end    *)
(* of the array is split in two memcpys.  The overlapped WSARecv of        *)
(* NetCore::RecvPost does not go through Enqueue: the kernel scatters the  *)
(* bytes into the one or two WSABUFs that RecvPost describes with          *)
(* GetDirectEnqueueSize, and NetworkRecvCompleted then only moves the      *)
(* write index (MoveWrite).                                                *)
(***************************************************************************)
EXTENDS Integers, Sequences

CONSTANTS Cap,        \* mMaxCapacity
          Byte,       \* the values a byte can have
          MaxChunk    \* bound: the longest run of bytes given to one call

ASSUME CapAssumption == Cap \in Nat \ {0}
ASSUME ByteAssumption == 0 \in Byte
ASSUME ChunkAssumption == MaxChunk \in Nat

VARIABLES buf,          \* *mBuffer
          mUsedSize,
          mWriteIndex,
          mReadIndex,
          moved         \* the bytes the last call stored, or copied to its caller

vars == <<buf, mUsedSize, mWriteIndex, mReadIndex, moved>>

Smaller(a, b) == IF a < b THEN a ELSE b

Chunks == UNION {[1..n -> Byte] : n \in 0..MaxChunk}

-----------------------------------------------------------------------------
(* Queries. *)

GetEnquableSize == Cap - mUsedSize

GetDirectEnqueueSize ==
  IF GetEnquableSize = 0 THEN 0
  ELSE IF mReadIndex <= mWriteIndex THEN Cap - mWriteIndex
       ELSE mReadIndex - mWriteIndex

-----------------------------------------------------------------------------
(* Copies and index moves. *)

\* memcpy(dst + at, src, Len(src)).
Memcpy(dst, at, src) ==
  [k \in 0..(Cap - 1) |->
     IF at <= k /\ k < at + Len(src) THEN src[k - at + 1] ELSE dst[k]]

AdvanceDropsFirstPart(i, n) ==
  IF n <= Cap - i THEN (IF i + n = Cap THEN 0 ELSE i + n) ELSE n

\* Where an index stands after n more bytes; it never rests on Cap.
Advance(i, n) ==
  IF n <= Cap - i
  THEN IF i + n = Cap THEN 0 ELSE i + n
  ELSE n - (Cap - i)

ScatterIgnoresWrap(bytes, fst) ==
  Memcpy(buf, mWriteIndex, bytes)

\* The array after bytes were stored from the write index on, the first
\* fst of them up to the end of the array and the rest from its start.
Scatter(bytes, fst) ==
  IF Len(bytes) <= fst
  THEN Memcpy(buf, mWriteIndex, bytes)
  ELSE Memcpy(Memcpy(buf, mWriteIndex, SubSeq(bytes, 1, fst)),
              0, SubSeq(bytes, fst + 1, Len(bytes)))

\* The n bytes from the read index on, gathered by one or two memcpys.
Gather(n) ==
  [k \in 1..n |-> IF k <= Cap - mReadIndex THEN buf[mReadIndex + k - 1]
                                           ELSE buf[k - (Cap - mReadIndex) - 1]]

-----------------------------------------------------------------------------
(* Operations. *)

Init ==
  /\ buf = [k \in 0..(Cap - 1) |-> 0]
  /\ mUsedSize = 0 /\ mWriteIndex = 0 /\ mReadIndex = 0
  /\ moved = <<>>

Enqueue(bytes) ==
  LET available == Smaller(Len(bytes), Cap - mUsedSize)
  IN  /\ buf' = Scatter(SubSeq(bytes, 1, available), Cap - mWriteIndex)
      /\ mWriteIndex' = Advance(mWriteIndex, available)
      /\ mUsedSize' = mUsedSize + available
      /\ moved' = SubSeq(bytes, 1, available)
      /\ UNCHANGED mReadIndex

DequeueForgetsUsedSize(n) ==
  LET available == Smaller(n, mUsedSize)
  IN  /\ moved' = Gather(available)
      /\ mReadIndex' = Advance(mReadIndex, available)
      /\ UNCHANGED <<buf, mWriteIndex, mUsedSize>>

Dequeue(n) ==
  LET available == Smaller(n, mUsedSize)
  IN  /\ moved' = Gather(available)
      /\ mReadIndex' = Advance(mReadIndex, available)
      /\ mUsedSize' = mUsedSize - available
      /\ UNCHANGED <<buf, mWriteIndex>>

Peek(n) ==
  /\ moved' = Gather(Smaller(n, mUsedSize))
  /\ UNCHANGED <<buf, mUsedSize, mWriteIndex, mReadIndex>>

MoveRead(n) ==
  LET available == Smaller(n, mUsedSize)
  IN  /\ mReadIndex' = Advance(mReadIndex, available)
      /\ mUsedSize' = mUsedSize - available
      /\ moved' = <<>>
      /\ UNCHANGED <<buf, mWriteIndex>>

\* A completed WSARecv: RecvPost offers the direct run and, when there is
\* more room, the run at the start of the array; the kernel fills them in
\* that order; NetworkRecvCompleted calls MoveWrite(transferred).  RecvPost
\* does not post when the buffer is full.
MoveWrite(bytes) ==
  /\ GetEnquableSize # 0
  /\ Len(bytes) \in 1..GetEnquableSize
  /\ buf' = Scatter(bytes, GetDirectEnqueueSize)
  /\ mWriteIndex' = Advance(mWriteIndex, Smaller(Len(bytes), Cap - mUsedSize))
  /\ mUsedSize' = mUsedSize + Smaller(Len(bytes), Cap - mUsedSize)
  /\ moved' = bytes
  /\ UNCHANGED mReadIndex

ClearBuffer ==
  /\ mUsedSize' = 0 /\ mWriteIndex' = 0 /\ mReadIndex' = 0
  /\ moved' = <<>>
  /\ UNCHANGED buf

Next ==
  \/ \E bytes \in Chunks : Enqueue(bytes) \/ MoveWrite(bytes)
  \/ \E n \in 0..MaxChunk : Dequeue(n) \/ Peek(n) \/ MoveRead(n)
  \/ ClearBuffer

Spec == Init /\ [][Next]_vars

-----------------------------------------------------------------------------
(* Properties. *)

\* The array holds bytes and the indices point into it.
TypeOK ==
  /\ buf \in [0..(Cap - 1) -> Byte]
  /\ mUsedSize \in 0..Cap
  /\ mWriteIndex \in 0..(Cap - 1)
  /\ mReadIndex \in 0..(Cap - 1)
  /\ moved \in Seq(Byte)

\* An index at or beyond the end of the array, brought back into it.
Wrap(i) == IF i >= Cap THEN i - Cap ELSE i

\* The three fields agree: the write index is mUsedSize bytes after the read
\* index.  They are updated independently (mWriteIndex by Enqueue and
\* MoveWrite, mReadIndex by Dequeue and MoveRead, mUsedSize by all four), and
\* a full and an empty buffer have the same two indices.
IndicesAgree == mWriteIndex = Wrap(mReadIndex + mUsedSize)

\* The two WSABUFs that RecvPost builds from GetEnquableSize and
\* GetDirectEnqueueSize are legal whenever it posts: the first is not empty
\* (the assert(directSize != 0) of RecvPost), the two together are the free
\* space, and neither reaches into the unread bytes.
DirectRunsAreFree ==
  LET direct == GetDirectEnqueueSize
      rest   == GetEnquableSize - direct
      unread == {Wrap(mReadIndex + k) : k \in 0..(mUsedSize - 1)}
  IN  GetEnquableSize # 0 =>
        /\ direct > 0 /\ rest >= 0
        /\ mWriteIndex + direct <= Cap
        /\ (mWriteIndex..(mWriteIndex + direct - 1)) \cap unread = {}
        /\ (0..(rest - 1)) \cap unread = {}

\* The unread bytes, oldest first: the refinement mapping.
Content == [k \in 1..mUsedSize |-> buf[Wrap(mReadIndex + k - 1)]]

Queue == INSTANCE ByteQueue WITH content <- Content, moved <- moved

\* Every operation of the ring buffer, kernel scatter included, is an
\* operation of a plain byte queue: no byte is lost, repeated, reordered or
\* overwritten, whatever the position of the indices.
ImplementsByteQueue == Queue!Spec
==============================================================================
