------------------------------ MODULE PacketPool ------------------------------
(***************************************************************************)
(* nf::network::packet::PacketPool over nf::objectpool::ObjectPoolTLS: the *)
(* packets the server rents for receiving and sending, counted references  *)
(* to them, and the chunks they come from.                                 *)
(*                                                                         *)
(* A thread rents from the chunk in its thread-local slot, from the last   *)
(* block to the first; who drops the last reference to a packet, any       *)
(* thread, gives its block back, and who gives the last block of a chunk   *)
(* back returns the chunk to the shared pool, which constructs it anew for *)
(* the next renter.  Blocks are never given to a second packet before      *)
(* their chunk has gone through the pool.                                  *)
(*                                                                         *)
(* A packet is <<chunk, block index>>.  The pool of chunks is a set (the   *)
(* lock-free list that keeps it is the matter of ObjectPoolLockFree); the  *)
(* chunks not allocated yet are in it too.  A step is one access to memory *)
(* that other threads see.                                                 *)
(***************************************************************************)
EXTENDS Integers, FiniteSets

CONSTANTS
  Thread,
  Chunk,         \* bound: the chunks malloc may provide
  Blocks,        \* MAX_BLOCK_BUFFER_SIZE
  Null

Packet == Chunk \X (0..(Blocks - 1))

ASSUME PoolAssumption ==
  /\ IsFiniteSet(Thread) /\ IsFiniteSet(Chunk)
  /\ Blocks \in Nat \ {0} /\ Null \notin Chunk

VARIABLES
  pooled,        \* mChunkPool
  tls,           \* TlsGetValue(mTlsIndexForChunk), per thread
  index,         \* BufferAllocIndex, per chunk
  free,          \* AvailableFreeCount, per chunk
  refCount,      \* Packet::mRefCount
  size,          \* mTLSAllocatedSize
  refs,          \* the references the threads have: <<thread, packet>>
  pc,
  cur            \* the packet a thread allocates or frees

vars == <<pooled, tls, index, free, refCount, size, refs, pc, cur>>

Goto(t, l) == pc' = [pc EXCEPT ![t] = l]

-----------------------------------------------------------------------------
(* AllocSend, AllocRecv: Rent, then AddRef. *)

\* mChunkPool.Rent() constructs the chunk and its packets; TlsSetValue.
RentChunk(t, c) ==
  /\ pooled' = pooled \ {c}
  /\ tls' = [tls EXCEPT ![t] = c]
  /\ index' = [index EXCEPT ![c] = Blocks]
  /\ free' = [free EXCEPT ![c] = Blocks]
  /\ refCount' = [p \in Packet |-> IF p[1] = c THEN 0 ELSE refCount[p]]

\* The thread has no chunk yet.
RentFirst(t) ==
  /\ pc[t] = "idle" /\ tls[t] = Null
  /\ \E c \in pooled : RentChunk(t, c)
  /\ Goto(t, "rent")
  /\ UNCHANGED <<size, refs, cur>>

\* chunk->BufferAllocIndex--; the block of that index is the thread's.
RentBlock(t) ==
  LET c == tls[t] IN
  /\ pc[t] \in {"idle", "rent"} /\ c # Null
  /\ index' = [index EXCEPT ![c] = @ - 1]
  /\ cur' = [cur EXCEPT ![t] = <<c, index[c] - 1>>]
  /\ Goto(t, IF index[c] - 1 = 0 THEN "swap" ELSE "construct")
  /\ UNCHANGED <<pooled, tls, free, refCount, size, refs>>

\* The chunk is used up: the next one goes to the thread-local slot.
SwapChunk(t) ==
  /\ pc[t] = "swap"
  /\ \E c \in pooled : RentChunk(t, c)
  /\ Goto(t, "construct")
  /\ UNCHANGED <<size, refs, cur>>

\* new (t) T(), InterlockedIncrement64(&mTLSAllocatedSize), AddRef.
Construct(t) ==
  /\ pc[t] = "construct"
  /\ refCount' = [refCount EXCEPT ![cur[t]] = 1]
  /\ size' = size + 1
  /\ refs' = refs \cup {<<t, cur[t]>>}
  /\ Goto(t, "idle")
  /\ UNCHANGED <<pooled, tls, index, free, cur>>

-----------------------------------------------------------------------------
(* References. *)

ShareUncounted(t, u, p) ==
  /\ pc[t] = "idle" /\ <<t, p>> \in refs /\ <<u, p>> \notin refs
  /\ refs' = refs \cup {<<u, p>>}
  /\ UNCHANGED <<pooled, tls, index, free, refCount, size, pc, cur>>

\* AddRef by a thread that has the packet, on behalf of another (the send
\* queue of a session, a job) which will free it.
Share(t, u, p) ==
  /\ pc[t] = "idle" /\ <<t, p>> \in refs /\ <<u, p>> \notin refs
  /\ refCount' = [refCount EXCEPT ![p] = @ + 1]
  /\ refs' = refs \cup {<<u, p>>}
  /\ UNCHANGED <<pooled, tls, index, free, size, pc, cur>>

\* TryFreeSend, TryFreeRecv: the last reference returns the packet.
TryFree(t, p) ==
  /\ pc[t] = "idle" /\ <<t, p>> \in refs
  /\ refCount' = [refCount EXCEPT ![p] = @ - 1]
  /\ refs' = refs \ {<<t, p>>}
  /\ cur' = [cur EXCEPT ![t] = p]
  /\ Goto(t, IF refCount[p] - 1 = 0 THEN "return" ELSE "idle")
  /\ UNCHANGED <<pooled, tls, index, free, size>>

ReturnAtOne(t) ==
  LET c == cur[t][1] IN
  /\ pc[t] = "return"
  /\ free' = [free EXCEPT ![c] = @ - 1]
  /\ Goto(t, IF free[c] - 1 = 1 THEN "return_chunk" ELSE "count_down")
  /\ UNCHANGED <<pooled, tls, index, refCount, size, refs, cur>>

\* InterlockedDecrement64(&chunk->AvailableFreeCount).
Return(t) ==
  LET c == cur[t][1] IN
  /\ pc[t] = "return"
  /\ free' = [free EXCEPT ![c] = @ - 1]
  /\ Goto(t, IF free[c] - 1 = 0 THEN "return_chunk" ELSE "count_down")
  /\ UNCHANGED <<pooled, tls, index, refCount, size, refs, cur>>

\* mChunkPool.Return(chunk).
ReturnChunk(t) ==
  /\ pc[t] = "return_chunk"
  /\ pooled' = pooled \cup {cur[t][1]}
  /\ Goto(t, "count_down")
  /\ UNCHANGED <<tls, index, free, refCount, size, refs, cur>>

\* InterlockedDecrement64(&mTLSAllocatedSize).
CountDown(t) ==
  /\ pc[t] = "count_down"
  /\ size' = size - 1
  /\ Goto(t, "idle")
  /\ UNCHANGED <<pooled, tls, index, free, refCount, refs, cur>>

-----------------------------------------------------------------------------
Init ==
  /\ pooled = Chunk /\ tls = [t \in Thread |-> Null]
  /\ index = [c \in Chunk |-> Blocks] /\ free = index
  /\ refCount = [p \in Packet |-> 0] /\ size = 0 /\ refs = {}
  /\ pc = [t \in Thread |-> "idle"]
  /\ cur = [t \in Thread |-> CHOOSE p \in Packet : TRUE]

Next ==
  \E t \in Thread :
    \/ RentFirst(t) \/ RentBlock(t) \/ SwapChunk(t) \/ Construct(t)
    \/ \E p \in Packet : TryFree(t, p) \/ \E u \in Thread : Share(t, u, p)
    \/ Return(t) \/ ReturnChunk(t) \/ CountDown(t)

Spec == Init /\ [][Next]_vars

-----------------------------------------------------------------------------
(* Properties. *)

At(labels) == {t \in Thread : pc[t] \in labels}

\* Packets that are being allocated, in use, or being given back.
Live == {cur[t] : t \in At({"swap", "construct", "return"})} \cup {r[2] : r \in refs}

\* A packet in use belongs to those who have a reference to it and to nobody
\* else: its count is theirs, it is in a block that was handed out of a chunk
\* that is not in the pool, and no thread is constructing or returning it.
RefCountIsExact ==
  \A r \in refs :
    LET p == r[2] IN
    /\ refCount[p] = Cardinality({t \in Thread : <<t, p>> \in refs})
    /\ p[1] \notin pooled /\ p[2] >= index[p[1]]
    /\ \A t \in At({"swap", "construct", "return"}) : cur[t] # p

\* GetUsedSize is the number of packets in use or being given back: what the
\* monitor shows returns to zero when all packets are freed.
UsedSizeIsExact ==
  size = Cardinality({r[2] : r \in refs}) + Cardinality(At({"return", "return_chunk", "count_down"}))

\* The owners of the packets are known, one by one and in total: a packet
\* shared by several threads goes back with the last of them, once.
PacketHasItsOwners == RefCountIsExact /\ UsedSizeIsExact

\* A chunk is in exactly one place: in the pool; the one thread's that rents
\* from it; or used up, and then it has a live packet or exactly one thread is
\* about to return it.  So a chunk is neither returned twice or early (which
\* would hand one block to two packets) nor lost.
ChunkIsInOnePlace ==
  \A c \in Chunk :
    LET renters == {t \in Thread : tls[t] = c}
        returners == {t \in At({"return_chunk"}) : cur[t][1] = c}
        live == {p \in Live : p[1] = c}
    IN  /\ \A t, u \in renters : t = u
        /\ \A t, u \in returners : t = u
        /\ c \in pooled => renters = {} /\ returners = {} /\ live = {}
        /\ returners # {} => live = {} /\ renters = {} /\ index[c] = 0
        /\ c \notin pooled =>
             /\ free[c] = index[c] + Cardinality(live)
             /\ index[c] = 0 \/ renters # {}
             /\ live # {} \/ renters # {} \/ returners # {}
===============================================================================
