----------------------------- MODULE LockFreeStack -----------------------------
(***************************************************************************)
(* nf::system::collections::concurrent::LockFreeStack<T>, the stack of     *)
(* unused sessions: Push and TryPop by any number of threads.              *)
(*                                                                         *)
(* One label per access to shared memory.  The node pool (mPool) is the    *)
(* set of nodes that are free: Rent takes any of them, so a node comes     *)
(* back while other threads still hold it in a snapshot.  The values are   *)
(* the sessions: each is on the stack or outside, and callers push only    *)
(* what is outside.                                                        *)
(***************************************************************************)
EXTENDS Integers, Sequences, FiniteSets

CONSTANTS
  Thread, Value,
  Node,          \* the nodes malloc may provide
  Null,          \* nullptr
  MaxCapacity,   \* mMaxCapacity
  MaxOps         \* bound: calls of Push and TryPop

ASSUME StackAssumption ==
  /\ IsFiniteSet(Thread) /\ IsFiniteSet(Node) /\ IsFiniteSet(Value)
  /\ Null \notin Node /\ Value # {} /\ Cardinality(Node) >= Cardinality(Value)
  /\ MaxCapacity \in Nat /\ MaxOps \in Nat

VARIABLES
  head,          \* mHead: [UID, Node]
  next, data,    \* the fields of the nodes
  usedSize,      \* mUsedSize
  pool,          \* nodes free in mPool
  pc, val,       \* program counter, the value pushed
  node,          \* Push's newNode
  snap,          \* snapshotHead
  snapNext,      \* TryPop's snapshotHead.Node->Next
  outside,       \* the values the callers have
  ops            \* calls made so far

regVars == <<pc, val, node, snap, snapNext>>
vars == <<head, next, data, usedSize, pool, regVars, outside, ops>>

Goto(t, l) == pc' = [pc EXCEPT ![t] = l]

-----------------------------------------------------------------------------
(* Push. *)

\* static_cast<size_t>(mUsedSize) > mMaxCapacity: a negative size is huge.
PushCheck(t, v) ==
  /\ pc[t] = "idle" /\ v \in outside /\ ops < MaxOps
  /\ ops' = ops + 1
  /\ IF usedSize < 0 \/ usedSize > MaxCapacity
     THEN Goto(t, "push_false") /\ UNCHANGED <<outside, val>>
     ELSE /\ outside' = outside \ {v}
          /\ val' = [val EXCEPT ![t] = v]
          /\ Goto(t, "push_rent")
  /\ UNCHANGED <<head, next, data, usedSize, pool, node, snap, snapNext>>

\* return false; NetSessionManager::TryReleaseSession throws.
PushRefused(t) ==
  /\ pc[t] = "push_false"
  /\ Goto(t, "idle")
  /\ UNCHANGED <<head, next, data, usedSize, pool, val, node, snap, snapNext, outside, ops>>

\* mPool.Rent(), newNode->Data, and the snapshot's UID.
PushRent(t) ==
  /\ pc[t] = "push_rent"
  /\ \E n \in pool :
       /\ pool' = pool \ {n}
       /\ node' = [node EXCEPT ![t] = n]
       /\ data' = [data EXCEPT ![n] = val[t]]
  /\ snap' = [snap EXCEPT ![t].UID = head.UID]
  /\ Goto(t, "push_node")
  /\ UNCHANGED <<head, next, usedSize, val, snapNext, outside, ops>>

PushNode(t) ==
  /\ pc[t] = "push_node"
  /\ snap' = [snap EXCEPT ![t].Node = head.Node]
  /\ Goto(t, "push_link")
  /\ UNCHANGED <<head, next, data, usedSize, pool, val, node, snapNext, outside, ops>>

\* newNode->Next = snapshotHead.Node;
PushLink(t) ==
  /\ pc[t] = "push_link"
  /\ next' = [next EXCEPT ![node[t]] = snap[t].Node]
  /\ Goto(t, "push_cas")
  /\ UNCHANGED <<head, data, usedSize, pool, val, node, snap, snapNext, outside, ops>>

\* InterlockedCompareExchange128, which reloads the snapshot when it fails.
PushCas(t) ==
  /\ pc[t] = "push_cas"
  /\ IF head = snap[t]
     THEN /\ head' = [UID |-> snap[t].UID + 1, Node |-> node[t]]
          /\ Goto(t, "push_count") /\ UNCHANGED snap
     ELSE /\ snap' = [snap EXCEPT ![t] = head]
          /\ Goto(t, "push_link") /\ UNCHANGED head
  /\ UNCHANGED <<next, data, usedSize, pool, val, node, snapNext, outside, ops>>

PushCount(t) ==
  /\ pc[t] = "push_count"
  /\ usedSize' = usedSize + 1
  /\ Goto(t, "idle")
  /\ UNCHANGED <<head, next, data, pool, val, node, snap, snapNext, outside, ops>>

-----------------------------------------------------------------------------
(* TryPop. *)

PopTestsBeforeDecrement(t) ==
  /\ pc[t] = "idle" /\ ops < MaxOps
  /\ ops' = ops + 1
  /\ usedSize' = usedSize - 1
  /\ Goto(t, IF usedSize < 0 THEN "pop_restore" ELSE "pop_uid")
  /\ UNCHANGED <<head, next, data, pool, val, node, snap, snapNext, outside>>

\* InterlockedDecrement64(&mUsedSize) < 0: nothing to pop.
PopReserve(t) ==
  /\ pc[t] = "idle" /\ ops < MaxOps
  /\ ops' = ops + 1
  /\ usedSize' = usedSize - 1
  /\ Goto(t, IF usedSize - 1 < 0 THEN "pop_restore" ELSE "pop_uid")
  /\ UNCHANGED <<head, next, data, pool, val, node, snap, snapNext, outside>>

PopRestore(t) ==
  /\ pc[t] = "pop_restore"
  /\ usedSize' = usedSize + 1
  /\ Goto(t, "idle")
  /\ UNCHANGED <<head, next, data, pool, val, node, snap, snapNext, outside, ops>>

PopUid(t) ==
  /\ pc[t] = "pop_uid"
  /\ snap' = [snap EXCEPT ![t].UID = head.UID]
  /\ Goto(t, "pop_node")
  /\ UNCHANGED <<head, next, data, usedSize, pool, val, node, snapNext, outside, ops>>

PopNode(t) ==
  /\ pc[t] = "pop_node"
  /\ snap' = [snap EXCEPT ![t].Node = head.Node]
  /\ Goto(t, "pop_next")
  /\ UNCHANGED <<head, next, data, usedSize, pool, val, node, snapNext, outside, ops>>

\* snapshotHead.Node->Next; without a node the process ends here.
PopNext(t) ==
  /\ pc[t] = "pop_next" /\ snap[t].Node # Null
  /\ snapNext' = [snapNext EXCEPT ![t] = next[snap[t].Node]]
  /\ Goto(t, "pop_cas")
  /\ UNCHANGED <<head, next, data, usedSize, pool, val, node, snap, outside, ops>>

PopCasIgnoresUid(t) ==
  /\ pc[t] = "pop_cas"
  /\ IF head.Node = snap[t].Node
     THEN /\ head' = [UID |-> snap[t].UID + 1, Node |-> snapNext[t]]
          /\ Goto(t, "pop_data") /\ UNCHANGED snap
     ELSE /\ snap' = [snap EXCEPT ![t] = head]
          /\ Goto(t, "pop_next") /\ UNCHANGED head
  /\ UNCHANGED <<next, data, usedSize, pool, val, node, snapNext, outside, ops>>

PopCas(t) ==
  /\ pc[t] = "pop_cas"
  /\ IF head = snap[t]
     THEN /\ head' = [UID |-> snap[t].UID + 1, Node |-> snapNext[t]]
          /\ Goto(t, "pop_data") /\ UNCHANGED snap
     ELSE /\ snap' = [snap EXCEPT ![t] = head]
          /\ Goto(t, "pop_next") /\ UNCHANGED head
  /\ UNCHANGED <<next, data, usedSize, pool, val, node, snapNext, outside, ops>>

\* The value is read, then the node goes back to the pool.
PopData(t) ==
  /\ pc[t] = "pop_data"
  /\ outside' = outside \cup {data[snap[t].Node]}
  /\ pool' = pool \cup {snap[t].Node}
  /\ Goto(t, "idle")
  /\ UNCHANGED <<head, next, data, usedSize, val, node, snap, snapNext, ops>>

-----------------------------------------------------------------------------
(* The specification. *)

Init ==
  /\ head = [UID |-> 0, Node |-> Null]
  /\ next = [n \in Node |-> Null]
  /\ data = [n \in Node |-> CHOOSE v \in Value : TRUE]
  /\ usedSize = 0 /\ pool = Node
  /\ pc = [t \in Thread |-> "idle"]
  /\ val = [t \in Thread |-> CHOOSE v \in Value : TRUE]
  /\ node = [t \in Thread |-> Null]
  /\ snap = [t \in Thread |-> [UID |-> 0, Node |-> Null]]
  /\ snapNext = [t \in Thread |-> Null]
  /\ outside = Value /\ ops = 0

\* The steps of a call that has begun.
Continue(t) ==
  \/ PushRefused(t) \/ PushRent(t) \/ PushNode(t) \/ PushLink(t) \/ PushCas(t) \/ PushCount(t)
  \/ PopRestore(t) \/ PopUid(t) \/ PopNode(t) \/ PopNext(t) \/ PopCas(t) \/ PopData(t)

Next ==
  \E t \in Thread :
    \/ PopReserve(t) \/ Continue(t)
    \/ \E v \in Value : PushCheck(t, v)

Spec == Init /\ [][Next]_vars

\* Init(maxCapacity) by the owner while nobody else uses the stack: the nodes
\* go back to the pool and the sessions are new; mUsedSize keeps its value.
Reinit ==
  /\ \A t \in Thread : pc[t] = "idle"
  /\ head' = [UID |-> 0, Node |-> Null]
  /\ pool' = Node /\ outside' = Value
  /\ UNCHANGED <<next, data, usedSize, regVars, ops>>

RestartSpec == Init /\ [][Next \/ Reinit]_vars

-----------------------------------------------------------------------------
(* Properties. *)

\* c are the nodes linked from h, the first one first.
Links(c, h, nx) ==
  /\ h = IF c = <<>> THEN Null ELSE c[1]
  /\ \A i \in 1..Len(c) : nx[c[i]] = IF i = Len(c) THEN Null ELSE c[i + 1]

\* The nodes reachable from mHead, the top first.
Chain ==
  CHOOSE c \in UNION {[1..k -> Node] : k \in 0..Cardinality(Node)} : Links(c, head.Node, next)

Pushing(t) == pc[t] \in {"push_rent", "push_node", "push_link", "push_cas"}

Stack == INSTANCE ValueStack WITH
  stack   <- [i \in 1..Len(Chain) |-> data[Chain[i]]],
  outside <- outside \cup {val[t] : t \in {u \in Thread : Pushing(u)}}
                     \cup {data[snap[t].Node] : t \in {u \in Thread : pc[u] = "pop_data"}}

\* Push and TryPop are atomic at their compare exchange: no value is lost,
\* popped twice or overwritten in its node, and values come back last in,
\* first out, although nodes are reused while other threads still hold them
\* in a snapshot.
ImplementsStack == Stack!Spec

\* TryPop's assert(snapshotHead.Node != nullptr), at first and after every failed
\* exchange.
PopFindsNode == \A t \in Thread : pc[t] = "pop_next" => snap[t].Node # Null

At(labels) == {t \in Thread : pc[t] \in labels}

\* mUsedSize is the number of linked nodes, less the reservations, the failed
\* reservations not yet given back and the pushes not yet counted.
SizeIsExact ==
  usedSize = Len(Chain) - Cardinality(At({"pop_uid", "pop_node", "pop_next", "pop_cas",
                                          "pop_restore", "push_count"}))

\* A reservation in mUsedSize is a promise of a node, although nodes are linked
\* before they are counted and counted out before they are unlinked.
ReservationsAreBacked == SizeIsExact /\ PopFindsNode

\* Push accepts every session there is ("Unable to reuse sesion index" is an
\* error that cannot happen). The code breaks this: see PushRefused.
PushAccepts == \A t \in Thread : pc[t] # "push_false"
==============================================================================
