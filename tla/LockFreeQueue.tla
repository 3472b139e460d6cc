----------------------------- MODULE LockFreeQueue -----------------------------
(***************************************************************************)
(* nf::system::collections::concurrent::LockFreeQueue<T>, the queue of     *)
(* packets waiting on a session: Enqueue by Producers, TryDequeue by       *)
(* Consumers.                                                              *)
(*                                                                         *)
(* A linked list from a dummy node (mHead) to mTail, which may lag one     *)
(* node behind.  One label per access to shared memory.  The node pool     *)
(* (mPool) is the set of nodes that are free: Rent takes any of them, so a *)
(* node comes back while other threads still hold it in a snapshot.        *)
(***************************************************************************)
EXTENDS Integers, Sequences, FiniteSets

CONSTANTS
  Producer, Consumer, Value,
  Node,          \* the nodes malloc may provide
  Null,          \* nullptr
  MaxOps         \* bound: calls of Enqueue and TryDequeue

Thread == Producer \cup Consumer

ASSUME QueueAssumption ==
  /\ IsFiniteSet(Thread) /\ Producer \cap Consumer = {}
  /\ IsFiniteSet(Node) /\ IsFiniteSet(Value)
  /\ Value # {} /\ Null \notin Node /\ MaxOps \in Nat
  /\ Cardinality(Node) > Cardinality(Value) + Cardinality(Consumer)

VARIABLES
  mHead, mTail,  \* [UID, DummyNode]
  next, data,    \* the fields of the nodes
  mUsedSize,
  pool,          \* nodes free in mPool
  pc,
  node,          \* Enqueue's newNode
  snapHead, snapTail,
  headNext,      \* TryDequeue's nextDummyNode
  tailNext,      \* snapshotTailNodeNext; (2) of Enqueue: the node it links to
  output,        \* *outputData
  outside,       \* the values the callers have
  ops            \* calls made so far

nodeVars == <<next, data, pool>>
regVars  == <<node, snapHead, snapTail, headNext, tailNext, output>>
vars == <<mHead, mTail, mUsedSize, nodeVars, pc, regVars, outside, ops>>

Goto(t, l) == pc' = [pc EXCEPT ![t] = l]

\* One half of a snapshot is read; the other keeps its value.
ReadTailNode(t) == snapTail' = [snapTail EXCEPT ![t].DummyNode = mTail.DummyNode]
ReadTailUid(t)  == snapTail' = [snapTail EXCEPT ![t].UID = mTail.UID]

\* InterlockedCompareExchange128(&mTail, n, snapshotTail.UID + 1, &snapshotTail)
TailCas(t, n) ==
  mTail' = IF mTail = snapTail[t] THEN [UID |-> snapTail[t].UID + 1, DummyNode |-> n]
           ELSE mTail

-----------------------------------------------------------------------------
(* Enqueue. *)

\* mPool.Rent(), Data and Next of the new node.
EnqueueRent(t, v) ==
  /\ pc[t] = "idle" /\ v \in outside /\ ops < MaxOps
  /\ ops' = ops + 1
  /\ outside' = outside \ {v}
  /\ \E n \in pool :
       /\ pool' = pool \ {n}
       /\ node' = [node EXCEPT ![t] = n]
       /\ data' = [data EXCEPT ![n] = v]
       /\ next' = [next EXCEPT ![n] = Null]
  /\ Goto(t, "enq_node")
  /\ UNCHANGED <<mHead, mTail, mUsedSize, snapHead, snapTail, headNext, tailNext, output>>

EnqueueTailNode(t) ==
  /\ pc[t] = "enq_node"
  /\ ReadTailNode(t)
  /\ Goto(t, "enq_uid")
  /\ UNCHANGED <<mHead, mTail, mUsedSize, nodeVars, node, snapHead, headNext, tailNext,
                 output, outside, ops>>

EnqueueTailUid(t) ==
  /\ pc[t] = "enq_uid"
  /\ ReadTailUid(t)
  /\ Goto(t, "enq_next")
  /\ UNCHANGED <<mHead, mTail, mUsedSize, nodeVars, node, snapHead, headNext, tailNext,
                 output, outside, ops>>

\* snapshotTail.DummyNode->Next decides between (1) and (2).
EnqueueTailNext(t) ==
  LET n == next[snapTail[t].DummyNode] IN
  /\ pc[t] = "enq_next"
  /\ tailNext' = [tailNext EXCEPT ![t] = n]
  /\ Goto(t, IF n # Null THEN "enq_help" ELSE "enq_target")
  /\ UNCHANGED <<mHead, mTail, mUsedSize, nodeVars, node, snapHead, snapTail, headNext,
                 output, outside, ops>>

\* (1) move the tail for somebody else, and start over.
EnqueueHelp(t) ==
  /\ pc[t] = "enq_help"
  /\ TailCas(t, tailNext[t])
  /\ Goto(t, "enq_node")
  /\ UNCHANGED <<mHead, mUsedSize, nodeVars, regVars, outside, ops>>

\* (2) mTail.DummyNode is read again to form &mTail.DummyNode->Next ...
EnqueueTarget(t) ==
  /\ pc[t] = "enq_target"
  /\ tailNext' = [tailNext EXCEPT ![t] = mTail.DummyNode]
  /\ Goto(t, "enq_link")
  /\ UNCHANGED <<mHead, mTail, mUsedSize, nodeVars, node, snapHead, snapTail, headNext,
                 output, outside, ops>>

EnqueueLinksBlindly(t) ==
  LET n == tailNext[t] IN
  /\ pc[t] = "enq_link"
  /\ next' = [next EXCEPT ![n] = node[t]]
  /\ Goto(t, "enq_swing")
  /\ UNCHANGED <<mHead, mTail, mUsedSize, data, pool, regVars, outside, ops>>

\* ... and the new node is linked there if nobody else was faster.
EnqueueLink(t) ==
  LET n == tailNext[t] IN
  /\ pc[t] = "enq_link"
  /\ IF next[n] = Null
     THEN next' = [next EXCEPT ![n] = node[t]] /\ Goto(t, "enq_swing")
     ELSE Goto(t, "enq_node") /\ UNCHANGED next
  /\ UNCHANGED <<mHead, mTail, mUsedSize, data, pool, regVars, outside, ops>>

\* (3) move the tail.
EnqueueSwing(t) ==
  /\ pc[t] = "enq_swing"
  /\ TailCas(t, node[t])
  /\ Goto(t, "enq_count")
  /\ UNCHANGED <<mHead, mUsedSize, nodeVars, regVars, outside, ops>>

EnqueueCount(t) ==
  /\ pc[t] = "enq_count"
  /\ mUsedSize' = mUsedSize + 1
  /\ Goto(t, "idle")
  /\ UNCHANGED <<mHead, mTail, nodeVars, regVars, outside, ops>>

Enqueue(t) ==
  \/ EnqueueTailNode(t) \/ EnqueueTailUid(t) \/ EnqueueTailNext(t) \/ EnqueueHelp(t)
  \/ EnqueueTarget(t) \/ EnqueueLink(t) \/ EnqueueSwing(t) \/ EnqueueCount(t)

-----------------------------------------------------------------------------
(* TryDequeue. *)

DequeueTestsBeforeDecrement(t) ==
  /\ pc[t] = "idle" /\ ops < MaxOps
  /\ ops' = ops + 1
  /\ mUsedSize' = mUsedSize - 1
  /\ Goto(t, IF mUsedSize < 0 THEN "deq_restore" ELSE "deq_head_node")
  /\ UNCHANGED <<mHead, mTail, nodeVars, regVars, outside>>

\* InterlockedDecrement64(&mUsedSize) < 0: nothing to dequeue.
DequeueReserve(t) ==
  /\ pc[t] = "idle" /\ ops < MaxOps
  /\ ops' = ops + 1
  /\ mUsedSize' = mUsedSize - 1
  /\ Goto(t, IF mUsedSize - 1 < 0 THEN "deq_restore" ELSE "deq_head_node")
  /\ UNCHANGED <<mHead, mTail, nodeVars, regVars, outside>>

DequeueForgetsRestore(t) ==
  /\ pc[t] = "deq_restore"
  /\ Goto(t, "idle")
  /\ UNCHANGED <<mHead, mTail, mUsedSize, nodeVars, regVars, outside, ops>>

DequeueRestore(t) ==
  /\ pc[t] = "deq_restore"
  /\ mUsedSize' = mUsedSize + 1
  /\ Goto(t, "idle")
  /\ UNCHANGED <<mHead, mTail, nodeVars, regVars, outside, ops>>

DequeueHeadNode(t) ==
  /\ pc[t] = "deq_head_node"
  /\ snapHead' = [snapHead EXCEPT ![t].DummyNode = mHead.DummyNode]
  /\ Goto(t, "deq_head_uid")
  /\ UNCHANGED <<mHead, mTail, mUsedSize, nodeVars, node, snapTail, headNext, tailNext,
                 output, outside, ops>>

DequeueHeadUid(t) ==
  /\ pc[t] = "deq_head_uid"
  /\ snapHead' = [snapHead EXCEPT ![t].UID = mHead.UID]
  /\ Goto(t, "deq_tail_node")
  /\ UNCHANGED <<mHead, mTail, mUsedSize, nodeVars, node, snapTail, headNext, tailNext,
                 output, outside, ops>>

DequeueTailNode(t) ==
  /\ pc[t] = "deq_tail_node"
  /\ ReadTailNode(t)
  /\ Goto(t, "deq_tail_uid")
  /\ UNCHANGED <<mHead, mTail, mUsedSize, nodeVars, node, snapHead, headNext, tailNext,
                 output, outside, ops>>

DequeueTailUid(t) ==
  /\ pc[t] = "deq_tail_uid"
  /\ ReadTailUid(t)
  /\ Goto(t, "deq_head_next")
  /\ UNCHANGED <<mHead, mTail, mUsedSize, nodeVars, node, snapHead, headNext, tailNext,
                 output, outside, ops>>

DequeueHeadNext(t) ==
  /\ pc[t] = "deq_head_next"
  /\ headNext' = [headNext EXCEPT ![t] = next[snapHead[t].DummyNode]]
  /\ Goto(t, "deq_tail_next")
  /\ UNCHANGED <<mHead, mTail, mUsedSize, nodeVars, node, snapHead, snapTail, tailNext,
                 output, outside, ops>>

\* (1) nothing to dequeue yet, start over; (2) the tail lags, push it.
DequeueTailNext(t) ==
  LET n == next[snapTail[t].DummyNode] IN
  /\ pc[t] = "deq_tail_next"
  /\ tailNext' = [tailNext EXCEPT ![t] = n]
  /\ Goto(t, IF headNext[t] = Null THEN "deq_head_node"
             ELSE IF n # Null THEN "deq_help" ELSE "deq_data")
  /\ UNCHANGED <<mHead, mTail, mUsedSize, nodeVars, node, snapHead, snapTail, headNext,
                 output, outside, ops>>

\* (2-1)
DequeueHelp(t) ==
  /\ pc[t] = "deq_help"
  /\ TailCas(t, tailNext[t])
  /\ Goto(t, IF mTail = snapTail[t] THEN "deq_check" ELSE "deq_head_node")
  /\ UNCHANGED <<mHead, mUsedSize, nodeVars, regVars, outside, ops>>

\* (2-2) mTail.DummyNode->Next != nullptr.
DequeueCheckTail(t) ==
  /\ pc[t] = "deq_check"
  /\ Goto(t, IF next[mTail.DummyNode] # Null THEN "deq_head_node" ELSE "deq_data")
  /\ UNCHANGED <<mHead, mTail, mUsedSize, nodeVars, regVars, outside, ops>>

DequeueData(t) ==
  /\ pc[t] = "deq_data"
  /\ output' = [output EXCEPT ![t] = data[headNext[t]]]
  /\ Goto(t, "deq_cas")
  /\ UNCHANGED <<mHead, mTail, mUsedSize, nodeVars, node, snapHead, snapTail, headNext,
                 tailNext, outside, ops>>

\* (3) InterlockedCompareExchange128(&mHead, ...).
DequeueCas(t) ==
  /\ pc[t] = "deq_cas"
  /\ IF mHead = snapHead[t]
     THEN /\ mHead' = [UID |-> snapHead[t].UID + 1, DummyNode |-> headNext[t]]
          /\ Goto(t, "deq_return")
     ELSE Goto(t, "deq_head_node") /\ UNCHANGED mHead
  /\ UNCHANGED <<mTail, mUsedSize, nodeVars, regVars, outside, ops>>

\* mPool.Return(snapshotHead.DummyNode).
DequeueReturn(t) ==
  /\ pc[t] = "deq_return"
  /\ pool' = pool \cup {snapHead[t].DummyNode}
  /\ outside' = outside \cup {output[t]}
  /\ Goto(t, "idle")
  /\ UNCHANGED <<mHead, mTail, mUsedSize, next, data, regVars, ops>>

TryDequeue(t) ==
  \/ DequeueRestore(t) \/ DequeueHeadNode(t) \/ DequeueHeadUid(t) \/ DequeueTailNode(t)
  \/ DequeueTailUid(t) \/ DequeueHeadNext(t) \/ DequeueTailNext(t) \/ DequeueHelp(t)
  \/ DequeueCheckTail(t) \/ DequeueData(t) \/ DequeueCas(t) \/ DequeueReturn(t)

-----------------------------------------------------------------------------
(* The specification. *)

\* Init, Clear: one dummy node from the pool.
Init ==
  /\ \E d \in Node :
       /\ mHead = [UID |-> 0, DummyNode |-> d] /\ mTail = mHead
       /\ pool = Node \ {d}
       /\ snapHead = [t \in Thread |-> mHead] /\ snapTail = snapHead
       /\ node = [t \in Thread |-> d]
  /\ next = [n \in Node |-> Null]
  /\ data = [n \in Node |-> CHOOSE v \in Value : TRUE]
  /\ mUsedSize = 0
  /\ pc = [t \in Thread |-> "idle"]
  /\ headNext = [t \in Thread |-> Null] /\ tailNext = headNext
  /\ output = [t \in Thread |-> CHOOSE v \in Value : TRUE]
  /\ outside = Value /\ ops = 0

Next ==
  \/ \E t \in Producer : Enqueue(t) \/ \E v \in Value : EnqueueRent(t, v)
  \/ \E t \in Consumer : DequeueReserve(t) \/ TryDequeue(t)

Spec == Init /\ [][Next]_vars

\* Threads inside a call are scheduled.
LiveSpec ==
  /\ Spec
  /\ \A t \in Producer : WF_vars(Enqueue(t))
  /\ \A t \in Consumer : WF_vars(TryDequeue(t))

-----------------------------------------------------------------------------
(* Properties. *)

\* c are the nodes linked from h, the first one first.
Links(c, h, nx) ==
  /\ h = IF c = <<>> THEN Null ELSE c[1]
  /\ \A i \in 1..Len(c) : nx[c[i]] = IF i = Len(c) THEN Null ELSE c[i + 1]

\* The nodes from h on, by the links nx.
List(h, nx) ==
  LET length == CHOOSE k \in 0..Cardinality(Node) : \E c \in [1..k -> Node] : Links(c, h, nx)
  IN  CHOOSE c \in [1..length -> Node] : Links(c, h, nx)

\* The nodes linked after node n, the oldest first.
After(n) == List(next[n], next)

Chain == After(mHead.DummyNode)

At(labels) == {t \in Thread : pc[t] \in labels}
Linking == At({"enq_node", "enq_uid", "enq_next", "enq_help", "enq_target", "enq_link"})

\* Enqueue reads mTail.DummyNode again before it links.  That node may since
\* have been dequeued, returned to the pool and rented by another producer:
\* the nodes linked behind one that is not in the queue yet.
Hanging == UNION {{After(node[t])[i] : i \in DOMAIN After(node[t])} : t \in Linking}

Queue == INSTANCE ValueQueue WITH
  queue   <- [i \in 1..Len(Chain) |-> data[Chain[i]]],
  outside <- outside \cup {data[node[t]] : t \in Linking} \cup {data[n] : n \in Hanging}
                     \cup {output[t] : t \in At({"deq_return"})}

\* Values enter the queue where their node becomes reachable, which may be after
\* Enqueue has returned, and leave it where TryDequeue moves mHead: none is lost,
\* repeated or overwritten in a reused node, and they leave in the order they
\* became reachable (not the order in which Enqueue was called or returned).
ImplementsQueue == Queue!Spec

\* mUsedSize is the number of values linked, hanging ones included, less the
\* reservations, the failed reservations not yet given back and the links not
\* yet counted; TryDequeue relies on it to find a value in the end.
SizeIsExact ==
  mUsedSize = Len(Chain) + Cardinality(Hanging)
     - Cardinality(At({"enq_swing", "enq_count", "deq_restore"} \cup
     {"deq_head_node", "deq_head_uid", "deq_tail_node", "deq_tail_uid", "deq_head_next",
      "deq_tail_next", "deq_help", "deq_check", "deq_data", "deq_cas"}))

\* mTail never points to a node that was given back to the pool, so that
\* linking behind it is linking to the queue.
TailIsInQueue == mTail.DummyNode \notin pool

\* When no call is under way, every value is either in the queue, once, or with
\* the callers, mUsedSize counts the queue, and every node is in it or free.
NothingLost ==
  At({"idle"}) = Thread =>
    LET values == [i \in 1..Len(Chain) |-> data[Chain[i]]]
        queued == {values[i] : i \in 1..Len(Chain)}
    IN  /\ mUsedSize = Len(Chain) /\ Cardinality(queued) = Len(Chain)
        /\ queued \cup outside = Value /\ queued \cap outside = {}
        /\ pool = Node \ ({mHead.DummyNode} \cup {Chain[i] : i \in 1..Len(Chain)})

\* The queue's three records of its content agree: the count, the list and the
\* pool of nodes, during and after calls.
QueueIsConsistent == SizeIsExact /\ TailIsInQueue /\ NothingLost

\* A call returns once it has begun. In particular a consumer whose reservation
\* counted a value that is only hanging yet does not spin
\* forever: the producer it waits for links its node.
CallsReturn == \A t \in Thread : pc[t] # "idle" ~> pc[t] = "idle"
================================================================================
