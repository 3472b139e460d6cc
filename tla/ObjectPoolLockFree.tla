--------------------------- MODULE ObjectPoolLockFree ---------------------------
(***************************************************************************)
(* nf::objectpool::ObjectPoolLockFree<T>, the pool behind every packet and *)
(* behind the nodes of LockFreeStack and LockFreeQueue: Rent and Return by *)
(* any number of threads.                                                  *)
(*                                                                         *)
(* Blocks that were returned are linked from mHead; mCachedSize counts     *)
(* them and is decremented first, so that a thread either has a claim on a *)
(* linked block or allocates a new one.  One label per access to shared    *)
(* memory.  A block may be returned by another thread than the one that    *)
(* rented it, as packets are.                                              *)
(***************************************************************************)
EXTENDS Integers, FiniteSets

CONSTANTS
  Thread,
  Block,         \* the blocks malloc may provide
  Null,          \* nullptr
  MaxRented,     \* bound: blocks the callers have at once
  MaxOps         \* bound: calls of Rent and Return

ASSUME PoolAssumption ==
  /\ IsFiniteSet(Thread) /\ Thread # {}
  /\ IsFiniteSet(Block) /\ Null \notin Block
  /\ MaxRented \in Nat /\ MaxOps \in Nat

VARIABLES
  mHead,         \* [UID, Node]
  next,          \* the Next fields of the blocks
  mCachedSize, mUsedSize, mMaxCapacity,
  heap,          \* blocks not yet allocated
  rented,        \* blocks the callers have
  pc,
  node,          \* Rent's allocBlockNode, Return's curNode
  snap,          \* headSnapshot
  snapNext,      \* Rent's headSnapshot.Node->Next
  ops            \* calls made so far

counters == <<mCachedSize, mUsedSize, mMaxCapacity>>
vars == <<mHead, next, counters, heap, rented, pc, node, snap, snapNext, ops>>

Goto(t, l) == pc' = [pc EXCEPT ![t] = l]
At(labels) == {t \in Thread : pc[t] \in labels}

RentLabel   == {"rent_restore", "rent_alloc", "rent_node", "rent_uid", "rent_next",
                "rent_cas", "rent_count"}
ReturnLabel == {"return_node", "return_uid", "return_link", "return_cas",
                "return_cached", "return_used"}

-----------------------------------------------------------------------------
(* Rent. *)

\* InterlockedDecrement64(&mCachedSize) < 0: nothing cached.
RentReserve(t) ==
  /\ pc[t] = "idle" /\ ops < MaxOps
  /\ Cardinality(rented) + Cardinality(At(RentLabel)) < MaxRented
  /\ ops' = ops + 1
  /\ mCachedSize' = mCachedSize - 1
  /\ Goto(t, IF mCachedSize - 1 < 0 THEN "rent_restore" ELSE "rent_node")
  /\ UNCHANGED <<mHead, next, mUsedSize, mMaxCapacity, heap, rented, node, snap, snapNext>>

RentForgetsRestore(t) ==
  /\ pc[t] = "rent_restore"
  /\ Goto(t, "rent_alloc")
  /\ UNCHANGED <<mHead, next, counters, heap, rented, node, snap, snapNext, ops>>

RentRestore(t) ==
  /\ pc[t] = "rent_restore"
  /\ mCachedSize' = mCachedSize + 1
  /\ Goto(t, "rent_alloc")
  /\ UNCHANGED <<mHead, next, mUsedSize, mMaxCapacity, heap, rented, node, snap, snapNext, ops>>

\* AllocateFreeBlockNodes(1), InterlockedIncrement(&mMaxCapacity).
RentAllocate(t) ==
  /\ pc[t] = "rent_alloc"
  /\ \E n \in heap :
       /\ heap' = heap \ {n}
       /\ node' = [node EXCEPT ![t] = n]
       /\ next' = [next EXCEPT ![n] = Null]
  /\ mMaxCapacity' = mMaxCapacity + 1
  /\ Goto(t, "rent_count")
  /\ UNCHANGED <<mHead, mCachedSize, mUsedSize, rented, snap, snapNext, ops>>

RentNode(t) ==
  /\ pc[t] = "rent_node"
  /\ snap' = [snap EXCEPT ![t].Node = mHead.Node]
  /\ Goto(t, "rent_uid")
  /\ UNCHANGED <<mHead, next, counters, heap, rented, node, snapNext, ops>>

RentUid(t) ==
  /\ pc[t] = "rent_uid"
  /\ snap' = [snap EXCEPT ![t].UID = mHead.UID]
  /\ Goto(t, "rent_next")
  /\ UNCHANGED <<mHead, next, counters, heap, rented, node, snapNext, ops>>

\* headSnapshot.Node->Next; without a node the process ends here.
RentNext(t) ==
  /\ pc[t] = "rent_next" /\ snap[t].Node # Null
  /\ snapNext' = [snapNext EXCEPT ![t] = next[snap[t].Node]]
  /\ Goto(t, "rent_cas")
  /\ UNCHANGED <<mHead, next, counters, heap, rented, node, snap, ops>>

RentCasIgnoresUid(t) ==
  /\ pc[t] = "rent_cas"
  /\ IF mHead.Node = snap[t].Node
     THEN /\ mHead' = [UID |-> snap[t].UID + 1, Node |-> snapNext[t]]
          /\ node' = [node EXCEPT ![t] = snap[t].Node]
          /\ Goto(t, "rent_count") /\ UNCHANGED snap
     ELSE /\ snap' = [snap EXCEPT ![t] = mHead]
          /\ Goto(t, "rent_next") /\ UNCHANGED <<mHead, node>>
  /\ UNCHANGED <<next, counters, heap, rented, snapNext, ops>>

\* InterlockedCompareExchange128, which reloads the snapshot when it fails.
RentCas(t) ==
  /\ pc[t] = "rent_cas"
  /\ IF mHead = snap[t]
     THEN /\ mHead' = [UID |-> snap[t].UID + 1, Node |-> snapNext[t]]
          /\ node' = [node EXCEPT ![t] = snap[t].Node]
          /\ Goto(t, "rent_count") /\ UNCHANGED snap
     ELSE /\ snap' = [snap EXCEPT ![t] = mHead]
          /\ Goto(t, "rent_next") /\ UNCHANGED <<mHead, node>>
  /\ UNCHANGED <<next, counters, heap, rented, snapNext, ops>>

\* InterlockedIncrement64(&mUsedSize), and the block is the caller's.
RentCount(t) ==
  /\ pc[t] = "rent_count"
  /\ mUsedSize' = mUsedSize + 1
  /\ rented' = rented \cup {node[t]}
  /\ Goto(t, "idle")
  /\ UNCHANGED <<mHead, next, mCachedSize, mMaxCapacity, heap, node, snap, snapNext, ops>>

Rent(t) ==
  \/ RentRestore(t) \/ RentAllocate(t) \/ RentNode(t) \/ RentUid(t)
  \/ RentNext(t) \/ RentCas(t) \/ RentCount(t)

-----------------------------------------------------------------------------
(* Return. *)

ReturnBegin(t, n) ==
  /\ pc[t] = "idle" /\ ops < MaxOps /\ n \in rented
  /\ ops' = ops + 1
  /\ rented' = rented \ {n}
  /\ node' = [node EXCEPT ![t] = n]
  /\ Goto(t, "return_node")
  /\ UNCHANGED <<mHead, next, counters, heap, snap, snapNext>>

ReturnNode(t) ==
  /\ pc[t] = "return_node"
  /\ snap' = [snap EXCEPT ![t].Node = mHead.Node]
  /\ Goto(t, "return_uid")
  /\ UNCHANGED <<mHead, next, counters, heap, rented, node, snapNext, ops>>

ReturnUid(t) ==
  /\ pc[t] = "return_uid"
  /\ snap' = [snap EXCEPT ![t].UID = mHead.UID]
  /\ Goto(t, "return_link")
  /\ UNCHANGED <<mHead, next, counters, heap, rented, node, snapNext, ops>>

ReturnLink(t) ==
  /\ pc[t] = "return_link"
  /\ next' = [next EXCEPT ![node[t]] = snap[t].Node]
  /\ Goto(t, "return_cas")
  /\ UNCHANGED <<mHead, counters, heap, rented, node, snap, snapNext, ops>>

ReturnCas(t) ==
  /\ pc[t] = "return_cas"
  /\ IF mHead = snap[t]
     THEN /\ mHead' = [UID |-> snap[t].UID + 1, Node |-> node[t]]
          /\ Goto(t, "return_cached") /\ UNCHANGED snap
     ELSE /\ snap' = [snap EXCEPT ![t] = mHead]
          /\ Goto(t, "return_link") /\ UNCHANGED mHead
  /\ UNCHANGED <<next, counters, heap, rented, node, snapNext, ops>>

\* InterlockedIncrement64(&mCachedSize), only after the block is linked.
ReturnCached(t) ==
  /\ pc[t] = "return_cached"
  /\ mCachedSize' = mCachedSize + 1
  /\ Goto(t, "return_used")
  /\ UNCHANGED <<mHead, next, mUsedSize, mMaxCapacity, heap, rented, node, snap, snapNext, ops>>

ReturnUsed(t) ==
  /\ pc[t] = "return_used"
  /\ mUsedSize' = mUsedSize - 1
  /\ Goto(t, "idle")
  /\ UNCHANGED <<mHead, next, mCachedSize, mMaxCapacity, heap, rented, node, snap, snapNext, ops>>

Return(t) ==
  \/ ReturnNode(t) \/ ReturnUid(t) \/ ReturnLink(t) \/ ReturnCas(t)
  \/ ReturnCached(t) \/ ReturnUsed(t)

-----------------------------------------------------------------------------
(* The specification. *)

Init ==
  /\ mHead = [UID |-> 0, Node |-> Null]
  /\ next = [n \in Block |-> Null]
  /\ mCachedSize = 0 /\ mUsedSize = 0 /\ mMaxCapacity = 0
  /\ heap = Block /\ rented = {}
  /\ pc = [t \in Thread |-> "idle"]
  /\ node = [t \in Thread |-> Null]
  /\ snap = [t \in Thread |-> [UID |-> 0, Node |-> Null]]
  /\ snapNext = [t \in Thread |-> Null]
  /\ ops = 0

Next ==
  \E t \in Thread :
    \/ RentReserve(t) \/ Rent(t) \/ Return(t)
    \/ \E n \in Block : ReturnBegin(t, n)

Spec == Init /\ [][Next]_vars

\* The blocks linked from h: the least set that has h and with each block the
\* one behind it.
Linked(h, nx) ==
  LET closed == {S \in SUBSET Block : /\ h \in S \cup {Null}
                                      /\ \A n \in S : nx[n] \in S \cup {Null}}
  IN  {n \in Block : \A S \in closed : n \in S}

Cached == Linked(mHead.Node, next)

\* Clear(false) by the owner while nobody else uses the pool, as Init does:
\* the cached blocks are freed, mCachedSize keeps its value.  (It throws while
\* blocks are rented.)
Clear ==
  /\ At(RentLabel \cup ReturnLabel) = {} /\ mUsedSize = 0
  /\ heap' = heap \cup Cached
  /\ mHead' = [mHead EXCEPT !.Node = Null]
  /\ mMaxCapacity' = 0 /\ mUsedSize' = 0
  /\ UNCHANGED <<next, mCachedSize, rented, pc, node, snap, snapNext, ops>>

ClearSpec == Init /\ [][Next \/ Clear]_vars

-----------------------------------------------------------------------------
(* Properties. *)

\* The threads that have a block taken off the list or not yet linked.
Holding == At({"rent_count", "return_node", "return_uid", "return_link", "return_cas"})
InHand  == {node[t] : t \in Holding}

\* A block is in exactly one place, although blocks come back to the list
\* while other threads hold them in a snapshot: not allocated, rented, in the
\* hands of one thread inside Rent or Return, or cached, where the list comes
\* to it once.  So no block is rented twice at a time and none is lost.
BlockHasOneOwner ==
  /\ heap \cup rented \cup InHand \cup Cached = Block
  /\ heap \cap (rented \cup InHand \cup Cached) = {}
  /\ rented \cap (InHand \cup Cached) = {}
  /\ InHand \cap Cached = {}
  /\ \A t, u \in Holding : node[t] = node[u] => t = u
  /\ \A m, n \in Cached : next[m] = next[n] /\ next[m] # Null => m = n
  /\ \A n \in Cached : next[n] # mHead.Node

\* Rent's assert(headSnapshot.Node != nullptr): a thread whose decrement of
\* mCachedSize succeeded finds a block, at first and after every failed
\* exchange.
RentFindsBlock == \A t \in Thread : pc[t] = "rent_next" => snap[t].Node # Null

\* GetUsedSize and GetMaxCapacity are what the tests of playground_pool take
\* them for: blocks rented and blocks in existence, but for the updates under
\* way; mCachedSize never promises more blocks than are linked.
CountersAreExact ==
  /\ mUsedSize = Cardinality(rented) + Cardinality(At(ReturnLabel))
  /\ mMaxCapacity = Cardinality(Block \ heap)
  /\ mCachedSize = Cardinality(Cached)
                   - Cardinality(At({"rent_restore", "rent_node", "rent_uid", "rent_next",
                                     "rent_cas", "return_cached"}))

\* A reservation in mCachedSize is a promise of a block: the counters are exact
\* and the assert holds.
ReservationsAreBacked == CountersAreExact /\ RentFindsBlock

\* The pool does not grow without need: it allocates at most one block more
\* than were ever rented at once per thread that can be between linking a
\* block and counting it.
CapacityIsBounded == mMaxCapacity <= MaxRented + Cardinality(Thread) - 1
================================================================================
