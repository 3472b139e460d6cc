-------------------------- MODULE RingBufferProofs ---------------------------
(***************************************************************************)
(* Proofs about RingBuffer, for every capacity, byte set and chunk length. *)
(* The inductive invariant is TypeOK /\ IndicesAgree: the bounds of the    *)
(* indices are kept only because the three fields agree, and they agree    *)
(* only within the bounds.  That the buffer is a first-in, first-out queue *)
(* rests on Content, the bytes between the indices as a sequence: a store  *)
(* behind them extends it, a move of the read index drops from its front.  *)
(***************************************************************************)
EXTENDS RingBuffer, SequenceTheorems, TLAPS

IInv == TypeOK /\ IndicesAgree

USE CapAssumption, ByteAssumption, ChunkAssumption

\* A chunk is a sequence of bytes, and so is every part of it.
LEMMA ChunkIsSeq ==
  ASSUME NEW bytes \in Chunks
  PROVE  bytes \in Seq(Byte) /\ Len(bytes) \in 0..MaxChunk
<1>1. PICK n \in 0..MaxChunk : bytes \in [1..n -> Byte]
  BY DEF Chunks
<1>2. bytes \in Seq(Byte) /\ Len(bytes) = n
  BY <1>1
<1>. QED  BY <1>2

\* SubSeq keeps the elements and has the expected length.
LEMMA PartOfChunk ==
  ASSUME NEW src \in Seq(Byte), NEW m \in 1..(Len(src) + 1), NEW n \in 0..Len(src), m <= n + 1
  PROVE  SubSeq(src, m, n) \in Seq(Byte) /\ Len(SubSeq(src, m, n)) = n - m + 1
  BY SubSeqProperties

\* memcpy within the array yields an array of bytes.
LEMMA MemcpyType ==
  ASSUME NEW dst \in [0..(Cap - 1) -> Byte], NEW at \in Nat, NEW src \in Seq(Byte)
  PROVE  Memcpy(dst, at, src) \in [0..(Cap - 1) -> Byte]
<1>1. ASSUME NEW k \in 0..(Cap - 1), at <= k, k < at + Len(src)
      PROVE  src[k - at + 1] \in Byte
  BY <1>1
<1>. QED  BY <1>1 DEF Memcpy

\* Storing a chunk, in one or two pieces, keeps the array an array of bytes.
LEMMA ScatterType ==
  ASSUME TypeOK, NEW bytes \in Seq(Byte), NEW fst \in Nat
  PROVE  Scatter(bytes, fst) \in [0..(Cap - 1) -> Byte]
<1>1. CASE Len(bytes) <= fst
  BY <1>1, MemcpyType DEF Scatter, TypeOK
<1>2. CASE ~(Len(bytes) <= fst)
  <2>1. /\ SubSeq(bytes, 1, fst) \in Seq(Byte)
        /\ SubSeq(bytes, fst + 1, Len(bytes)) \in Seq(Byte)
    BY <1>2, PartOfChunk
  <2>0. buf \in [0..(Cap - 1) -> Byte] /\ mWriteIndex \in Nat
    BY DEF TypeOK
  <2>2. Memcpy(buf, mWriteIndex, SubSeq(bytes, 1, fst)) \in [0..(Cap - 1) -> Byte]
    BY <2>0, <2>1, MemcpyType
  <2>. QED  BY <1>2, <2>1, <2>2, MemcpyType DEF Scatter
<1>. QED  BY <1>1, <1>2

\* What is copied to the caller is a sequence of bytes.
LEMMA GatherType ==
  ASSUME TypeOK, NEW n \in 0..mUsedSize
  PROVE  Gather(n) \in Seq(Byte)
<1>1. ASSUME NEW k \in 1..n
      PROVE  (IF k <= Cap - mReadIndex THEN buf[mReadIndex + k - 1]
                                       ELSE buf[k - (Cap - mReadIndex) - 1]) \in Byte
  BY <1>1 DEF TypeOK
<1>2. Gather(n) \in [1..n -> Byte]
  BY <1>1 DEF Gather
<1>. QED  BY <1>2 DEF TypeOK

\* Moving an index forward keeps it inside the array, and lands where the
\* wrapped sum says.
LEMMA AdvanceWraps ==
  ASSUME NEW i \in 0..(Cap - 1), NEW n \in 0..Cap
  PROVE  Advance(i, n) \in 0..(Cap - 1) /\ Advance(i, n) = Wrap(i + n)
  BY DEF Advance, Wrap

\* The index invariant is preserved by every operation.
LEMMA InductiveStep == IInv /\ [Next]_vars => IInv'
<1> SUFFICES ASSUME TypeOK, IndicesAgree, [Next]_vars
             PROVE  TypeOK' /\ IndicesAgree'
  BY DEF IInv
<1>. USE DEF Smaller
<1>1. ASSUME NEW bytes \in Chunks, Enqueue(bytes)
      PROVE  TypeOK' /\ IndicesAgree'
  <2> DEFINE n == Smaller(Len(bytes), Cap - mUsedSize)
  <2>1. bytes \in Seq(Byte) /\ n \in 0..(Cap - mUsedSize) /\ n \in 0..Len(bytes)
    BY ChunkIsSeq DEF TypeOK
  <2>2. SubSeq(bytes, 1, n) \in Seq(Byte)
    BY <2>1, PartOfChunk
  <2>a. /\ buf' = Scatter(SubSeq(bytes, 1, n), Cap - mWriteIndex)
        /\ mWriteIndex' = Advance(mWriteIndex, n)
        /\ mUsedSize' = mUsedSize + n
        /\ moved' = SubSeq(bytes, 1, n) /\ mReadIndex' = mReadIndex
    BY <1>1 DEF Enqueue
  <2>b. Cap - mWriteIndex \in Nat /\ mWriteIndex \in 0..(Cap - 1) /\ n \in 0..Cap
    BY <2>1 DEF TypeOK
  <2>. HIDE DEF n
  <2>3. buf' \in [0..(Cap - 1) -> Byte]
    BY <2>2, <2>a, <2>b, ScatterType
  <2>4. mWriteIndex' \in 0..(Cap - 1) /\ mWriteIndex' = Wrap(mWriteIndex + n)
    BY <2>a, <2>b, AdvanceWraps
  <2>. QED  BY <2>1, <2>2, <2>3, <2>4, <2>a DEF TypeOK, IndicesAgree, Wrap
<1>2. ASSUME NEW bytes \in Chunks, MoveWrite(bytes)
      PROVE  TypeOK' /\ IndicesAgree'
  <2>1. bytes \in Seq(Byte) /\ Len(bytes) \in 1..(Cap - mUsedSize)
    BY <1>2, ChunkIsSeq DEF MoveWrite, GetEnquableSize
  <2>2. GetDirectEnqueueSize \in Nat
    BY DEF GetDirectEnqueueSize, GetEnquableSize, TypeOK
  <2>3. buf' \in [0..(Cap - 1) -> Byte]
    BY <1>2, <2>1, <2>2, ScatterType DEF MoveWrite
  <2>a. mWriteIndex' = Advance(mWriteIndex, Len(bytes)) /\ mUsedSize' = mUsedSize + Len(bytes)
    BY <1>2, <2>1 DEF MoveWrite, TypeOK
  <2>b. mWriteIndex \in 0..(Cap - 1) /\ Len(bytes) \in 0..Cap
    BY <2>1 DEF TypeOK
  <2>4. mWriteIndex' \in 0..(Cap - 1) /\ mWriteIndex' = Wrap(mWriteIndex + Len(bytes))
    BY <2>a, <2>b, AdvanceWraps
  <2>5. mUsedSize' \in 0..Cap /\ mReadIndex' = mReadIndex /\ moved' \in Seq(Byte)
    BY <1>2, <2>1, <2>a DEF MoveWrite, TypeOK
  <2>6. TypeOK'
    BY <2>3, <2>4, <2>5 DEF TypeOK
  <2>. QED  BY <2>1, <2>4, <2>5, <2>6, <2>a DEF TypeOK, IndicesAgree, Wrap
<1>3. ASSUME NEW n \in 0..MaxChunk, Dequeue(n) \/ Peek(n) \/ MoveRead(n)
      PROVE  TypeOK' /\ IndicesAgree'
  <2> DEFINE m == Smaller(n, mUsedSize)
  <2>1. m \in 0..mUsedSize
    BY DEF TypeOK
  <2>2. Gather(m) \in Seq(Byte)
    BY <2>1, GatherType
  <2>b. mReadIndex \in 0..(Cap - 1) /\ m \in 0..Cap
    BY <2>1 DEF TypeOK
  <2>. HIDE DEF m
  <2>3. Advance(mReadIndex, m) \in 0..(Cap - 1) /\ Advance(mReadIndex, m) = Wrap(mReadIndex + m)
    BY <2>b, AdvanceWraps
  <2>4. CASE Dequeue(n)
    <3>1. /\ moved' = Gather(m) /\ mReadIndex' = Advance(mReadIndex, m)
          /\ mUsedSize' = mUsedSize - m /\ buf' = buf /\ mWriteIndex' = mWriteIndex
      BY <2>4 DEF Dequeue, m
    <3>. QED  BY <2>1, <2>2, <2>3, <3>1 DEF TypeOK, IndicesAgree, Wrap
  <2>5. CASE Peek(n)
    BY <2>1, <2>2, <2>5 DEF Peek, TypeOK, IndicesAgree, Wrap, m
  <2>6. CASE MoveRead(n)
    <3>1. /\ mReadIndex' = Advance(mReadIndex, m) /\ moved' = <<>>
          /\ mUsedSize' = mUsedSize - m /\ buf' = buf /\ mWriteIndex' = mWriteIndex
      BY <2>6 DEF MoveRead, m
    <3>. QED  BY <2>1, <2>3, <3>1 DEF TypeOK, IndicesAgree, Wrap
  <2>. QED  BY <1>3, <2>4, <2>5, <2>6
<1>4. CASE ClearBuffer
  BY <1>4 DEF ClearBuffer, TypeOK, IndicesAgree, Wrap
<1>5. CASE UNCHANGED vars
  BY <1>5 DEF vars, TypeOK, IndicesAgree, Wrap
<1>. QED  BY <1>1, <1>2, <1>3, <1>4, <1>5 DEF Next

\* The array stays an array of bytes and the indices stay inside it, for
\* every sequence of Enqueue, Dequeue, Peek, MoveRead, MoveWrite, ClearBuffer.
THEOREM TypeCorrect == Spec => []TypeOK
<1>1. Init => IInv
  BY DEF Init, IInv, TypeOK, IndicesAgree, Wrap
<1>. QED  BY <1>1, InductiveStep, PTL DEF Spec, IInv

\* The write index is always mUsedSize bytes after the read index.
THEOREM IndicesAlwaysAgree == Spec => []IndicesAgree
<1>1. Init => IInv
  BY DEF Init, IInv, TypeOK, IndicesAgree, Wrap
<1>. QED  BY <1>1, InductiveStep, PTL DEF Spec, IInv

\* The buffers RecvPost hands to WSARecv are never empty, lie inside the
\* array and never overlap the unread bytes.
THEOREM ReceiveBuffersAreFree == Spec => []DirectRunsAreFree
<1>1. Init => IInv
  BY DEF Init, IInv, TypeOK, IndicesAgree, Wrap
<1>2. IInv => DirectRunsAreFree
  BY DEF IInv, TypeOK, IndicesAgree, DirectRunsAreFree, GetDirectEnqueueSize,
         GetEnquableSize, Wrap
<1>. QED  BY <1>1, <1>2, InductiveStep, PTL DEF Spec

-----------------------------------------------------------------------------
(* The ring buffer is a byte queue.                                        *)

Array == [0..(Cap - 1) -> Byte]

\* The u unread bytes of the array b from r on; Content is such a view.
View(b, r, u) == [k \in 1..u |-> b[Wrap(r + k - 1)]]

\* A view is a sequence of bytes.
LEMMA ViewIsSeq ==
  ASSUME NEW b \in Array, NEW r \in 0..(Cap - 1), NEW u \in 0..Cap
  PROVE  /\ View(b, r, u) \in Seq(Byte) /\ Len(View(b, r, u)) = u
         /\ \A k \in 1..u : View(b, r, u)[k] = b[Wrap(r + k - 1)]
<1>1. ASSUME NEW k \in 1..u PROVE b[Wrap(r + k - 1)] \in Byte
  BY DEF Array, Wrap
<1>2. View(b, r, u) \in [1..u -> Byte]
  BY <1>1 DEF View
<1>3. View(b, r, u) \in Seq(Byte) /\ Len(View(b, r, u)) = u
  BY <1>2
<1>. QED  BY <1>3 DEF View

\* Bytes written behind the view, with the view untouched, extend it.
LEMMA ViewPut ==
  ASSUME NEW b \in Array, NEW c \in Array, NEW r \in 0..(Cap - 1), NEW u \in 0..Cap,
         NEW bytes \in Seq(Byte), u + Len(bytes) <= Cap,
         \A i \in 1..Len(bytes) : c[Wrap(Wrap(r + u) + i - 1)] = bytes[i],
         \A i \in 1..u : c[Wrap(r + i - 1)] = b[Wrap(r + i - 1)]
  PROVE  View(c, r, u + Len(bytes)) = View(b, r, u) \o bytes
<1>. DEFINE n == Len(bytes)
            x == View(c, r, u + n)
            y == View(b, r, u)
            z == y \o bytes
<1>1. n \in Nat /\ u + n \in 0..Cap
  OBVIOUS
<1>2. /\ x \in Seq(Byte) /\ Len(x) = u + n
      /\ \A k \in 1..(u + n) : x[k] = c[Wrap(r + k - 1)]
  BY <1>1, ViewIsSeq
<1>3. /\ y \in Seq(Byte) /\ Len(y) = u
      /\ \A k \in 1..u : y[k] = b[Wrap(r + k - 1)]
  BY ViewIsSeq
<1>. HIDE DEF x, y
<1>4. /\ z \in Seq(Byte) /\ Len(z) = u + n
      /\ \A k \in 1..(u + n) : z[k] = IF k <= u THEN y[k] ELSE bytes[k - u]
  BY <1>3, ConcatProperties DEF z
<1>. HIDE DEF z
<1>5. ASSUME NEW k \in 1..(u + n) PROVE x[k] = z[k]
  <2>1. CASE k <= u
    <3>1. k \in 1..u
      BY <1>1, <2>1
    <3>2. x[k] = c[Wrap(r + k - 1)] /\ z[k] = y[k]
      BY <1>2, <1>4, <2>1
    <3>3. y[k] = b[Wrap(r + k - 1)] /\ c[Wrap(r + k - 1)] = b[Wrap(r + k - 1)]
      BY <1>3, <3>1
    <3>. QED  BY <3>2, <3>3
  <2>2. CASE k > u
    <3>1. k - u \in 1..n /\ Wrap(Wrap(r + u) + (k - u) - 1) = Wrap(r + k - 1)
      BY <1>1, <2>2 DEF Wrap
    <3>2. c[Wrap(r + k - 1)] = bytes[k - u]
      BY <3>1
    <3>3. ~ (k <= u)
      BY <2>2
    <3>4. z[k] = bytes[k - u]
      BY <1>4, <3>3
    <3>. QED  BY <1>2, <3>2, <3>4
  <2>3. k <= u \/ k > u
    BY <1>1
  <2>. QED  BY <2>1, <2>2, <2>3
<1>6. x = z
  BY <1>2, <1>4, <1>5, SeqEqual
<1>. QED  BY <1>6 DEF x, y, z

\* A view from m bytes further on is the view without its first m bytes.
LEMMA ViewDrop ==
  ASSUME NEW b \in Array, NEW r \in 0..(Cap - 1), NEW u \in 0..Cap, NEW m \in 0..u
  PROVE  View(b, Wrap(r + m), u - m) = SubSeq(View(b, r, u), m + 1, u)
<1>. DEFINE x == View(b, Wrap(r + m), u - m)
            y == View(b, r, u)
            z == SubSeq(y, m + 1, u)
<1>1. Wrap(r + m) \in 0..(Cap - 1) /\ u - m \in 0..Cap
  BY DEF Wrap
<1>2. /\ x \in Seq(Byte) /\ Len(x) = u - m
      /\ \A k \in 1..(u - m) : x[k] = b[Wrap(Wrap(r + m) + k - 1)]
  BY <1>1, ViewIsSeq
<1>3. /\ y \in Seq(Byte) /\ Len(y) = u
      /\ \A k \in 1..u : y[k] = b[Wrap(r + k - 1)]
  BY ViewIsSeq
<1>. HIDE DEF x, y
<1>4. \A i \in (m + 1)..u : y[i] \in Byte
  BY <1>3
<1>5. /\ z \in Seq(Byte) /\ Len(z) = u - m
      /\ \A i \in 1..(u - m) : z[i] = y[m + i]
  <2>1. m + 1 \in Int /\ u \in Int
    OBVIOUS
  <2>2. /\ z \in Seq(Byte) /\ Len(z) = IF m + 1 <= u THEN u - (m + 1) + 1 ELSE 0
        /\ \A i \in 1..(u - (m + 1) + 1) : z[i] = y[(m + 1) + i - 1]
    BY <1>4, <2>1, SubSeqProperties
  <2>. QED  BY <2>2
<1>. HIDE DEF z
<1>6. ASSUME NEW k \in 1..(u - m) PROVE x[k] = z[k]
  <2>1. m + k \in 1..u /\ Wrap(Wrap(r + m) + k - 1) = Wrap(r + (m + k) - 1)
    BY DEF Wrap
  <2>. QED  BY <1>2, <1>3, <1>5, <2>1
<1>7. x = z
  BY <1>2, <1>5, <1>6, SeqEqual
<1>. QED  BY <1>7 DEF x, y, z

\* What Dequeue and Peek copy are the first bytes of the view.
LEMMA GatherTakes ==
  ASSUME TypeOK, NEW m \in 0..mUsedSize
  PROVE  Gather(m) = SubSeq(Content, 1, m)
<1>. DEFINE x == Gather(m)
            y == Content
            z == SubSeq(y, 1, m)
<1>1. buf \in Array /\ mReadIndex \in 0..(Cap - 1) /\ mUsedSize \in 0..Cap /\ m \in Nat /\ m <= mUsedSize
  BY DEF TypeOK, Array
<1>2. /\ y \in Seq(Byte) /\ Len(y) = mUsedSize
      /\ \A k \in 1..mUsedSize : y[k] = buf[Wrap(mReadIndex + k - 1)]
  <2>1. y = View(buf, mReadIndex, mUsedSize)
    BY DEF Content, View
  <2>. HIDE DEF y
  <2>. QED  BY <1>1, <2>1, ViewIsSeq
<1>3. \A k \in 1..m : x[k] = buf[Wrap(mReadIndex + k - 1)]
  <2>1. ASSUME NEW k \in 1..m
        PROVE  (IF k <= Cap - mReadIndex THEN buf[mReadIndex + k - 1]
                ELSE buf[k - (Cap - mReadIndex) - 1]) = buf[Wrap(mReadIndex + k - 1)]
    BY <1>1 DEF Wrap
  <2>. QED  BY <2>1 DEF Gather
<1>4. x \in Seq(Byte) /\ Len(x) = m
  BY <1>1, GatherType DEF Gather
<1>. HIDE DEF x, y
<1>5. /\ z \in Seq(Byte) /\ Len(z) = m
      /\ \A i \in 1..m : z[i] = y[i]
  <2>1. \A i \in 1..m : y[i] \in Byte
    BY <1>1, <1>2
  <2>2. /\ z \in Seq(Byte) /\ Len(z) = IF 1 <= m THEN m - 1 + 1 ELSE 0
        /\ \A i \in 1..(m - 1 + 1) : z[i] = y[1 + i - 1]
    BY <1>1, <2>1, SubSeqProperties
  <2>. QED  BY <1>1, <2>2
<1>. HIDE DEF z
<1>6. \A k \in 1..m : x[k] = z[k]
  BY <1>1, <1>2, <1>3, <1>5
<1>7. x = z
  BY <1>4, <1>5, <1>6, SeqEqual
<1>. QED  BY <1>7 DEF x, y, z

\* What memcpy leaves in the array.
LEMMA MemcpyAt ==
  ASSUME NEW dst, NEW at, NEW src, NEW k \in 0..(Cap - 1)
  PROVE  Memcpy(dst, at, src)[k] =
           IF at <= k /\ k < at + Len(src) THEN src[k - at + 1] ELSE dst[k]
  BY DEF Memcpy

\* The bytes stored are found from the write index on, across the end of the
\* array, and the unread bytes are as they were.  In one piece they end before
\* the end of the array; in two, the first ends there.
LEMMA ScatterStores ==
  ASSUME IInv, NEW bytes \in Seq(Byte), NEW fst \in Nat, mUsedSize + Len(bytes) <= Cap,
         \/ Len(bytes) <= fst /\ mWriteIndex + Len(bytes) <= Cap
         \/ Len(bytes) > fst /\ fst = Cap - mWriteIndex
  PROVE  /\ \A i \in 1..Len(bytes) : Scatter(bytes, fst)[Wrap(mWriteIndex + i - 1)] = bytes[i]
         /\ \A i \in 1..mUsedSize :
              Scatter(bytes, fst)[Wrap(mReadIndex + i - 1)] = buf[Wrap(mReadIndex + i - 1)]
<1>. DEFINE n == Len(bytes)
            W == mWriteIndex
            R == mReadIndex
<1>1. /\ n \in Nat /\ mUsedSize \in 0..Cap /\ W \in 0..(Cap - 1) /\ R \in 0..(Cap - 1)
      /\ W = Wrap(R + mUsedSize)
  BY DEF IInv, TypeOK, IndicesAgree
<1>2. \A i \in 1..n : Wrap(W + i - 1) \in 0..(Cap - 1)
  BY <1>1 DEF Wrap
<1>3. \A i \in 1..mUsedSize : Wrap(R + i - 1) \in 0..(Cap - 1)
  BY <1>1 DEF Wrap
<1>4. CASE n <= fst /\ W + n <= Cap
  <2>1. Scatter(bytes, fst) = Memcpy(buf, W, bytes)
    BY <1>4 DEF Scatter
  <2>2. ASSUME NEW i \in 1..n PROVE Scatter(bytes, fst)[Wrap(W + i - 1)] = bytes[i]
    <3>1. Wrap(W + i - 1) = W + i - 1 /\ W + i - 1 \in 0..(Cap - 1)
      BY <1>1, <1>4 DEF Wrap
    <3>2. W <= W + i - 1 /\ W + i - 1 < W + n /\ (W + i - 1) - W + 1 = i
      BY <1>1
    <3>. QED  BY <2>1, <3>1, <3>2, MemcpyAt
  <2>3. ASSUME NEW i \in 1..mUsedSize
        PROVE  Scatter(bytes, fst)[Wrap(R + i - 1)] = buf[Wrap(R + i - 1)]
    <3>1. ~ (W <= Wrap(R + i - 1) /\ Wrap(R + i - 1) < W + n)
      BY <1>1, <1>4 DEF Wrap
    <3>. QED  BY <1>3, <2>1, <3>1, MemcpyAt
  <2>. QED  BY <2>2, <2>3
<1>5. CASE n > fst /\ fst = Cap - W
  <2>. DEFINE a == SubSeq(bytes, 1, fst)
              b == SubSeq(bytes, fst + 1, n)
              m == Memcpy(buf, W, a)
  <2>1. /\ Len(a) = fst /\ \A i \in 1..fst : a[i] = bytes[i]
    <3>1. 1 \in Int /\ fst \in Int /\ \A i \in 1..fst : bytes[i] \in Byte
      BY <1>1, <1>5
    <3>2. /\ Len(a) = IF 1 <= fst THEN fst - 1 + 1 ELSE 0
          /\ \A i \in 1..(fst - 1 + 1) : a[i] = bytes[1 + i - 1]
      BY <3>1, SubSeqProperties
    <3>. QED  BY <3>2
  <2>2. /\ Len(b) = n - fst /\ \A i \in 1..(n - fst) : b[i] = bytes[fst + i]
    <3>1. fst + 1 \in Int /\ n \in Int /\ \A i \in (fst + 1)..n : bytes[i] \in Byte
      BY <1>1, <1>5
    <3>2. /\ Len(b) = IF fst + 1 <= n THEN n - (fst + 1) + 1 ELSE 0
          /\ \A i \in 1..(n - (fst + 1) + 1) : b[i] = bytes[(fst + 1) + i - 1]
      BY <3>1, SubSeqProperties
    <3>3. n - (fst + 1) + 1 = n - fst /\ fst + 1 <= n
      BY <1>1, <1>5
    <3>4. \A i \in 1..(n - fst) : (fst + 1) + i - 1 = fst + i
      BY <1>1, <1>5
    <3>. HIDE DEF b
    <3>. QED  BY <3>2, <3>3, <3>4
  <2>3. Scatter(bytes, fst) = Memcpy(m, 0, b)
    BY <1>1, <1>5 DEF Scatter
  <2>. HIDE DEF a, b, m
  <2>4. ASSUME NEW k \in 0..(Cap - 1)
        PROVE  Scatter(bytes, fst)[k] = IF k < n - fst THEN b[k + 1]
                                        ELSE IF W <= k THEN a[k - W + 1] ELSE buf[k]
    <3>1. Memcpy(m, 0, b)[k] = IF 0 <= k /\ k < 0 + Len(b) THEN b[k - 0 + 1] ELSE m[k]
      BY MemcpyAt
    <3>2. m[k] = IF W <= k /\ k < W + Len(a) THEN a[k - W + 1] ELSE buf[k]
      BY MemcpyAt DEF m
    <3>3. 0 + Len(b) = n - fst /\ k - 0 + 1 = k + 1 /\ W + Len(a) = Cap /\ 0 <= k /\ k < Cap
      BY <1>1, <1>5, <2>1, <2>2
    <3>. QED  BY <2>3, <3>1, <3>2, <3>3
  <2>5. ASSUME NEW i \in 1..n PROVE Scatter(bytes, fst)[Wrap(W + i - 1)] = bytes[i]
    <3>1. CASE i <= fst
      <4>1. /\ Wrap(W + i - 1) = W + i - 1 /\ W + i - 1 \in 0..(Cap - 1)
            /\ ~ (W + i - 1 < n - fst) /\ W <= W + i - 1 /\ (W + i - 1) - W + 1 = i
            /\ i \in 1..fst
        BY <1>1, <1>5, <3>1 DEF Wrap
      <4>. QED  BY <2>1, <2>4, <4>1
    <3>2. CASE i > fst
      <4>1. /\ Wrap(W + i - 1) = i - fst - 1 /\ i - fst - 1 \in 0..(Cap - 1)
            /\ i - fst - 1 < n - fst /\ (i - fst - 1) + 1 = i - fst
            /\ i - fst \in 1..(n - fst) /\ fst + (i - fst) = i
        BY <1>1, <1>5, <3>2 DEF Wrap
      <4>2. Scatter(bytes, fst)[i - fst - 1] = b[i - fst]
        BY <2>4, <4>1
      <4>3. b[i - fst] = bytes[i]
        BY <2>2, <4>1
      <4>. QED  BY <4>1, <4>2, <4>3
    <3>. QED  BY <1>1, <3>1, <3>2
  <2>6. ASSUME NEW i \in 1..mUsedSize
        PROVE  Scatter(bytes, fst)[Wrap(R + i - 1)] = buf[Wrap(R + i - 1)]
    <3>1. ~ (Wrap(R + i - 1) < n - fst) /\ ~ (W <= Wrap(R + i - 1))
      BY <1>1, <1>5 DEF Wrap
    <3>. QED  BY <1>3, <2>4, <3>1
  <2>. QED  BY <2>5, <2>6
<1>. QED  BY <1>4, <1>5

\* Storing n bytes and moving the write index and mUsedSize appends them.
LEMMA StoreStep ==
  ASSUME IInv, NEW bytes \in Seq(Byte), NEW fst \in Nat, mUsedSize + Len(bytes) <= Cap,
         \/ Len(bytes) <= fst /\ mWriteIndex + Len(bytes) <= Cap
         \/ Len(bytes) > fst /\ fst = Cap - mWriteIndex,
         buf' = Scatter(bytes, fst), mUsedSize' = mUsedSize + Len(bytes), mReadIndex' = mReadIndex
  PROVE  Content' = Content \o bytes
<1>1. /\ buf \in Array /\ mReadIndex \in 0..(Cap - 1) /\ mUsedSize \in 0..Cap
      /\ mWriteIndex = Wrap(mReadIndex + mUsedSize)
  BY DEF IInv, TypeOK, IndicesAgree, Array
<1>2. buf' \in Array
  BY ScatterType DEF IInv, Array
<1>3. /\ \A i \in 1..Len(bytes) : buf'[Wrap(Wrap(mReadIndex + mUsedSize) + i - 1)] = bytes[i]
      /\ \A i \in 1..mUsedSize : buf'[Wrap(mReadIndex + i - 1)] = buf[Wrap(mReadIndex + i - 1)]
  <2>1. /\ \A i \in 1..Len(bytes) : buf'[Wrap(mWriteIndex + i - 1)] = bytes[i]
        /\ \A i \in 1..mUsedSize : buf'[Wrap(mReadIndex + i - 1)] = buf[Wrap(mReadIndex + i - 1)]
    BY ScatterStores
  <2>. QED  BY <1>1, <2>1
<1>4. View(buf', mReadIndex, mUsedSize + Len(bytes)) = View(buf, mReadIndex, mUsedSize) \o bytes
  BY <1>1, <1>2, <1>3, ViewPut
<1>5. Content' = View(buf', mReadIndex, mUsedSize + Len(bytes))
  BY DEF Content, View
<1>6. Content = View(buf, mReadIndex, mUsedSize)
  BY DEF Content, View
<1>. QED  BY <1>4, <1>5, <1>6

\* Moving the read index and mUsedSize by m drops the first m bytes.
LEMMA SkipStep ==
  ASSUME IInv, NEW m \in 0..mUsedSize, buf' = buf, mUsedSize' = mUsedSize - m,
         mReadIndex' = Advance(mReadIndex, m)
  PROVE  Content' = SubSeq(Content, m + 1, mUsedSize)
<1>1. /\ buf \in Array /\ mReadIndex \in 0..(Cap - 1) /\ mUsedSize \in 0..Cap /\ m \in 0..Cap
  BY DEF IInv, TypeOK, Array
<1>2. mReadIndex' = Wrap(mReadIndex + m)
  BY <1>1, AdvanceWraps
<1>3. View(buf, Wrap(mReadIndex + m), mUsedSize - m) = SubSeq(View(buf, mReadIndex, mUsedSize), m + 1, mUsedSize)
  BY <1>1, ViewDrop
<1>4. Content' = View(buf, Wrap(mReadIndex + m), mUsedSize - m)
  BY <1>2 DEF Content, View
<1>5. Content = View(buf, mReadIndex, mUsedSize)
  BY DEF Content, View
<1>. QED  BY <1>3, <1>4, <1>5

\* Every step of the ring buffer is a step of the byte queue.
LEMMA RefinementStep == IInv /\ [Next]_vars => [Queue!Next]_(Queue!vars)
<1>. SUFFICES ASSUME IInv, [Next]_vars PROVE [Queue!Next]_(Queue!vars)
  OBVIOUS
<1>0. /\ mUsedSize \in 0..Cap /\ mWriteIndex \in 0..(Cap - 1) /\ mReadIndex \in 0..(Cap - 1)
      /\ Content \in Seq(Byte) /\ Len(Content) = mUsedSize
  <2>1. /\ buf \in Array /\ mUsedSize \in 0..Cap /\ mWriteIndex \in 0..(Cap - 1)
        /\ mReadIndex \in 0..(Cap - 1)
    BY DEF IInv, TypeOK, Array
  <2>2. Content = View(buf, mReadIndex, mUsedSize)
    BY DEF Content, View
  <2>. QED  BY <2>1, <2>2, ViewIsSeq
<1>1. ASSUME NEW bytes \in Chunks, Enqueue(bytes) PROVE Queue!Put(bytes)
  <2>1. bytes \in Seq(Byte) /\ Len(bytes) \in Nat
    BY ChunkIsSeq
  <2>2. PICK n : n = Smaller(Len(bytes), Cap - mUsedSize)
    OBVIOUS
  <2>3. n \in 0..(Cap - mUsedSize) /\ n \in 0..Len(bytes)
    BY <1>0, <2>1, <2>2 DEF Smaller
  <2>4. PICK x : x = SubSeq(bytes, 1, n)
    OBVIOUS
  <2>5. x \in Seq(Byte) /\ Len(x) = n
    BY <2>1, <2>3, <2>4, PartOfChunk
  <2>6. /\ buf' = Scatter(x, Cap - mWriteIndex) /\ mUsedSize' = mUsedSize + n
        /\ moved' = x /\ mReadIndex' = mReadIndex
    BY <1>1, <2>2, <2>4 DEF Enqueue
  <2>7. Cap - mWriteIndex \in Nat /\ mUsedSize + n <= Cap
    BY <1>0, <2>3
  <2>8. \/ n <= Cap - mWriteIndex /\ mWriteIndex + n <= Cap
        \/ n > Cap - mWriteIndex
    BY <1>0, <2>3
  <2>9. Content' = Content \o x
    BY <2>5, <2>6, <2>7, <2>8, StoreStep
  <2>10. x = Queue!Take(bytes, Cap - Len(Content))
    <3>1. Smaller(Cap - Len(Content), Len(bytes)) = n
      BY <1>0, <2>1, <2>2 DEF Smaller
    <3>2. Queue!Smaller(Cap - Len(Content), Len(bytes)) = n
      BY <3>1 DEF Smaller, Queue!Smaller
    <3>. QED  BY <2>4, <3>2 DEF Queue!Take
  <2>. QED  BY <2>6, <2>9, <2>10 DEF Queue!Put
<1>2. ASSUME NEW bytes \in Chunks, MoveWrite(bytes) PROVE Queue!Put(bytes)
  <2>1. bytes \in Seq(Byte) /\ Len(bytes) \in 1..(Cap - mUsedSize)
    BY <1>2, ChunkIsSeq DEF MoveWrite, GetEnquableSize
  <2>2. PICK fst : fst = GetDirectEnqueueSize
    OBVIOUS
  <2>3. /\ buf' = Scatter(bytes, fst) /\ mUsedSize' = mUsedSize + Len(bytes)
        /\ moved' = bytes /\ mReadIndex' = mReadIndex
    BY <1>0, <1>2, <2>1, <2>2 DEF MoveWrite, Smaller
  <2>4. /\ fst \in Nat
        /\ \/ Len(bytes) <= fst /\ mWriteIndex + Len(bytes) <= Cap
           \/ Len(bytes) > fst /\ fst = Cap - mWriteIndex
    BY <1>0, <2>1, <2>2 DEF GetDirectEnqueueSize, GetEnquableSize, IInv, IndicesAgree, Wrap
  <2>5. mUsedSize + Len(bytes) <= Cap
    BY <1>0, <2>1
  <2>6. Content' = Content \o bytes
    BY <2>1, <2>3, <2>4, <2>5, StoreStep
  <2>7. bytes = Queue!Take(bytes, Cap - Len(Content))
    <3>1. Queue!Smaller(Cap - Len(Content), Len(bytes)) = Len(bytes)
      BY <1>0, <2>1 DEF Queue!Smaller
    <3>2. SubSeq(bytes, 1, Len(bytes)) = bytes
      BY <2>1, SubSeqFull
    <3>. QED  BY <3>1, <3>2 DEF Queue!Take
  <2>. QED  BY <2>3, <2>6, <2>7 DEF Queue!Put
<1>3. ASSUME NEW n \in 0..MaxChunk
      PROVE  /\ Dequeue(n) => Queue!Get(n)
             /\ Peek(n) => Queue!Look(n)
             /\ MoveRead(n) => Queue!Skip(n)
  <2>1. PICK m : m = Smaller(n, mUsedSize)
    OBVIOUS
  <2>2. m \in 0..mUsedSize
    BY <1>0, <2>1 DEF Smaller
  <2>3. Queue!Smaller(n, Len(Content)) = m
    BY <1>0, <2>1 DEF Queue!Smaller, Smaller
  <2>4. Gather(m) = Queue!Take(Content, n)
    BY <2>2, <2>3, GatherTakes DEF IInv, Queue!Take
  <2>5. Queue!Drop(Content, n) = SubSeq(Content, m + 1, mUsedSize)
    BY <1>0, <2>3 DEF Queue!Drop
  <2>6. ASSUME buf' = buf, mUsedSize' = mUsedSize - m, mReadIndex' = Advance(mReadIndex, m)
        PROVE  Content' = Queue!Drop(Content, n)
    BY <2>2, <2>5, <2>6, SkipStep
  <2>7. ASSUME Dequeue(n) PROVE Queue!Get(n)
    BY <2>1, <2>4, <2>6, <2>7 DEF Dequeue, Queue!Get
  <2>8. ASSUME Peek(n) PROVE Queue!Look(n)
    BY <2>1, <2>4, <2>8 DEF Peek, Queue!Look, Content
  <2>9. ASSUME MoveRead(n) PROVE Queue!Skip(n)
    BY <2>1, <2>6, <2>9 DEF MoveRead, Queue!Skip
  <2>. QED  BY <2>7, <2>8, <2>9
<1>4. CASE ClearBuffer
  <2>1. Content' = <<>>
    BY <1>4 DEF ClearBuffer, Content
  <2>2. Queue!Empty
    BY <1>4, <2>1 DEF ClearBuffer, Queue!Empty
  <2>. QED  BY <2>2 DEF Queue!Next
<1>5. CASE UNCHANGED vars
  BY <1>5 DEF vars, Queue!vars, Content
<1>6. Chunks = Queue!Chunks
  BY DEF Chunks, Queue!Chunks
<1>. QED  BY <1>1, <1>2, <1>3, <1>4, <1>5, <1>6 DEF Next, Queue!Next

\* The ring buffer, kernel scatter included, is a byte queue: for every
\* capacity and every position of the indices a write appends the longest
\* prefix that fits, a read returns the oldest bytes, and nothing is lost,
\* repeated, reordered or overwritten.
THEOREM RingBufferIsAByteQueue == Spec => ImplementsByteQueue
<1>1. Init => IInv
  BY DEF Init, IInv, TypeOK, IndicesAgree, Wrap
<1>2. Init => Queue!Init
  BY DEF Init, Queue!Init, Content
<1>. QED  BY <1>1, <1>2, InductiveStep, RefinementStep, PTL DEF Spec, ImplementsByteQueue, Queue!Spec
==============================================================================
