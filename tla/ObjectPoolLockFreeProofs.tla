------------------------ MODULE ObjectPoolLockFreeProofs ------------------------
(***************************************************************************)
(* The lock-free pool for any number of threads, blocks and calls: a block *)
(* is in one place, a reservation is backed by a block, and the pool does  *)
(* not grow without need.                                                  *)
(*                                                                         *)
(* The list is seen as the set Cached of the blocks on it, the least set   *)
(* closed under next.  An exchange that succeeds takes its first block or  *)
(* adds one before it; everybody else writes to blocks that are not on it. *)
(***************************************************************************)
EXTENDS ObjectPoolLockFree, FiniteSetTheorems, TLAPS

-----------------------------------------------------------------------------
(* Linked lists. *)

Pointer == Block \cup {Null}
Tagged == [UID : Nat, Node : Pointer]

\* S has h and with each block the one behind it.
Closed(S, h, nx) == h \in S \cup {Null} /\ \A n \in S : nx[n] \in S \cup {Null}

\* The list from h comes to each block once.
Once(h, nx) ==
  /\ \A m, n \in Linked(h, nx) : nx[m] = nx[n] /\ nx[m] # Null => m = n
  /\ \A n \in Linked(h, nx) : nx[n] # h

\* The blocks linked from h are a closed set ...
LEMMA LinkedClosed ==
  ASSUME NEW h \in Pointer, NEW nx \in [Block -> Pointer]
  PROVE  Linked(h, nx) \in SUBSET Block /\ Closed(Linked(h, nx), h, nx)
<1> DEFINE closed == {S \in SUBSET Block : Closed(S, h, nx)}
           L == Linked(h, nx)
<1>1. L = {n \in Block : \A S \in closed : n \in S}
  BY DEF Linked, Closed
<1> HIDE DEF L
<1>2. h # Null => h \in L
  BY <1>1 DEF Pointer, Closed
<1>3. ASSUME NEW n \in L, nx[n] # Null PROVE nx[n] \in L
  <2>1. n \in Block /\ nx[n] \in Block
    BY <1>1, <1>3 DEF Pointer
  <2>2. ASSUME NEW S \in closed PROVE nx[n] \in S
    BY <1>1, <1>3, <2>2 DEF Closed
  <2>. QED  BY <1>1, <2>1, <2>2
<1>4. L \in SUBSET Block
  BY <1>1
<1>5. Closed(L, h, nx)
  BY <1>2, <1>3 DEF Closed
<1>. QED  BY <1>4, <1>5 DEF L

\* ... and the least one.
LEMMA LinkedLeast ==
  ASSUME NEW h, NEW nx, NEW S \in SUBSET Block, Closed(S, h, nx)
  PROVE  Linked(h, nx) \subseteq S
  BY DEF Linked, Closed

\* Nothing is linked from nullptr.
LEMMA LinkedNothing ==
  ASSUME NEW nx
  PROVE  Linked(Null, nx) = {}
<1>1. Closed({}, Null, nx)
  BY DEF Closed
<1>. QED  BY <1>1, LinkedLeast

\* A write to blocks that are not on the list does not change it.
LEMMA LinkedKept ==
  ASSUME NEW h \in Pointer, NEW nx \in [Block -> Pointer], NEW ny \in [Block -> Pointer],
         \A n \in Linked(h, nx) : ny[n] = nx[n]
  PROVE  Linked(h, ny) = Linked(h, nx)
<1>1. Linked(h, nx) \in SUBSET Block /\ Closed(Linked(h, nx), h, nx)
  BY LinkedClosed
<1>2. Closed(Linked(h, nx), h, ny)
  BY <1>1 DEF Closed
<1>3. Linked(h, ny) \subseteq Linked(h, nx)
  BY <1>1, <1>2, LinkedLeast
<1>4. Linked(h, ny) \in SUBSET Block /\ Closed(Linked(h, ny), h, ny)
  BY LinkedClosed
<1>5. Closed(Linked(h, ny), h, nx)
  BY <1>3, <1>4 DEF Closed
<1>6. Linked(h, nx) \subseteq Linked(h, ny)
  BY <1>4, <1>5, LinkedLeast
<1>. QED  BY <1>3, <1>6

\* Taking the first block leaves the others.
LEMMA LinkedPop ==
  ASSUME NEW h \in Block, NEW nx \in [Block -> Pointer], Once(h, nx), Null \notin Block
  PROVE  Linked(nx[h], nx) = Linked(h, nx) \ {h} /\ h \in Linked(h, nx) /\ Once(nx[h], nx)
<1> DEFINE L == Linked(h, nx)
<1>1. L \in SUBSET Block /\ Closed(L, h, nx)
  BY LinkedClosed DEF Pointer
<1>2. h \in L
  BY <1>1 DEF Closed
<1>3. nx[h] \in Pointer
  OBVIOUS
<1>4. Linked(nx[h], nx) \in SUBSET Block /\ Closed(Linked(nx[h], nx), nx[h], nx)
  BY <1>3, LinkedClosed
<1>5. Closed(L \ {h}, nx[h], nx)
  BY <1>1, <1>2 DEF Closed, Once
<1>6. Linked(nx[h], nx) \subseteq L \ {h}
  <2>1. L \ {h} \in SUBSET Block
    BY <1>1
  <2>. QED  BY <1>5, <2>1, LinkedLeast
<1>7. L \subseteq Linked(nx[h], nx) \cup {h}
  <2>1. Closed(Linked(nx[h], nx) \cup {h}, h, nx)
    BY <1>4 DEF Closed
  <2>2. Linked(nx[h], nx) \cup {h} \in SUBSET Block
    BY <1>4
  <2>. QED  BY <2>1, <2>2, LinkedLeast
<1>8. Linked(nx[h], nx) = L \ {h}
  BY <1>6, <1>7
<1>9. Once(nx[h], nx)
  <2>1. \A m, n \in L \ {h} : nx[m] = nx[n] /\ nx[m] # Null => m = n
    BY DEF Once
  <2>2. ASSUME NEW n \in L \ {h} PROVE nx[n] # nx[h]
    <3>1. CASE nx[h] # Null
      BY <1>2, <2>2, <3>1 DEF Once
    <3>2. CASE nx[h] = Null
      BY <1>8, <2>2, <3>2, LinkedNothing
    <3>. QED  BY <3>1, <3>2
  <2>. QED  BY <1>8, <2>1, <2>2 DEF Once
<1>. QED  BY <1>2, <1>8, <1>9

\* Linking a block before the first one adds it.
LEMMA LinkedPush ==
  ASSUME NEW h \in Pointer, NEW nx \in [Block -> Pointer], Once(h, nx), Null \notin Block,
         NEW n \in Block, n \notin Linked(h, nx), nx[n] = h
  PROVE  Linked(n, nx) = Linked(h, nx) \cup {n} /\ Once(n, nx)
<1> DEFINE L == Linked(h, nx)
<1>1. L \in SUBSET Block /\ Closed(L, h, nx)
  BY LinkedClosed
<1>2. Linked(n, nx) \in SUBSET Block /\ Closed(Linked(n, nx), n, nx)
  BY LinkedClosed DEF Pointer
<1>3. Linked(n, nx) \subseteq L \cup {n}
  <2>1. Closed(L \cup {n}, n, nx)
    BY <1>1 DEF Closed
  <2>2. L \cup {n} \in SUBSET Block
    BY <1>1
  <2>. QED  BY <2>1, <2>2, LinkedLeast
<1>4. n \in Linked(n, nx) /\ Closed(Linked(n, nx), h, nx)
  BY <1>2 DEF Closed
<1>5. L \subseteq Linked(n, nx)
  BY <1>2, <1>4, LinkedLeast
<1>6. Linked(n, nx) = L \cup {n}
  BY <1>3, <1>4, <1>5
<1>7. Once(n, nx)
  <2>1. \A m \in L \cup {n} : nx[m] # n
    <3>1. n # Null
      OBVIOUS
    <3>2. \A m \in L : nx[m] \in L \cup {Null}
      BY <1>1 DEF Closed
    <3>3. nx[n] # n
      BY <1>1, <3>1 DEF Closed
    <3>. QED  BY <3>1, <3>2, <3>3
  <2>2. \A k, m \in L \cup {n} : nx[k] = nx[m] /\ nx[k] # Null => k = m
    BY DEF Once
  <2>. QED  BY <1>6, <2>1, <2>2 DEF Once
<1>. QED  BY <1>6, <1>7

-----------------------------------------------------------------------------
(* Threads at labels. *)

Label == {"idle"} \cup RentLabel \cup ReturnLabel
HandLabel == {"rent_count", "return_node", "return_uid", "return_link", "return_cas"}
ClaimLabel == {"rent_node", "rent_uid", "rent_next", "rent_cas"}
AllocLabel == {"rent_restore", "rent_alloc"}
ReservedLabel == {"rent_restore", "rent_node", "rent_uid", "rent_next", "rent_cas",
                  "return_cached"}

\* The number of threads at given labels, of program counters p.
Count(p, labels) == Cardinality({t \in Thread : p[t] \in labels})

\* It is a number not above that of the threads, and it is that of the threads
\* at each of two disjoint sets of labels together.
LEMMA CountIsNat ==
  ASSUME NEW p, NEW labels
  PROVE  Count(p, labels) \in Nat /\ IsFiniteSet({t \in Thread : p[t] \in labels})
<1>1. IsFiniteSet({t \in Thread : p[t] \in labels})
  BY PoolAssumption, FS_Subset
<1>. QED  BY <1>1, FS_CardinalityType DEF Count

LEMMA CountSum ==
  ASSUME NEW p, NEW A, NEW B, A \cap B = {}
  PROVE  Count(p, A \cup B) = Count(p, A) + Count(p, B)
<1> DEFINE at(L) == {t \in Thread : p[t] \in L}
<1>1. at(A \cup B) = at(A) \cup at(B) /\ at(A) \cap at(B) = {}
  OBVIOUS
<1>2. IsFiniteSet(at(A)) /\ IsFiniteSet(at(B))
  BY CountIsNat
<1>3. Cardinality(at(A) \cup at(B)) = Cardinality(at(A)) + Cardinality(at(B))
  <2>1. Cardinality(at(A) \cup at(B))
          = Cardinality(at(A)) + Cardinality(at(B)) - Cardinality(at(A) \cap at(B))
    BY <1>2, FS_Union
  <2>2. Cardinality(at(A) \cap at(B)) = 0
    BY <1>1, FS_EmptySet
  <2>3. Cardinality(at(A)) \in Nat /\ Cardinality(at(B)) \in Nat
    BY <1>2, FS_CardinalityType
  <2>. QED  BY <2>1, <2>2, <2>3
<1>. QED  BY <1>1, <1>3 DEF Count

LEMMA CountSums ==
  ASSUME NEW p, NEW A, NEW B, NEW C, A \cap B = {}, (A \cup B) \cap C = {}
  PROVE  Count(p, (A \cup B) \cup C) = Count(p, A) + Count(p, B) + Count(p, C)
<1>1. PICK D : D = A \cup B
  OBVIOUS
<1>2. Count(p, D \cup C) = Count(p, D) + Count(p, C)
  BY <1>1, CountSum
<1>3. Count(p, A \cup B) = Count(p, A) + Count(p, B)
  BY CountSum
<1>. QED  BY <1>1, <1>2, <1>3

\* A thread that is elsewhere is not counted.
LEMMA CountOthers ==
  ASSUME NEW p, NEW labels, NEW t \in Thread, p[t] \notin labels
  PROVE  Count(p, labels) <= Cardinality(Thread) - 1
<1>1. {u \in Thread : p[u] \in labels} \in SUBSET (Thread \ {t})
  OBVIOUS
<1>2. IsFiniteSet(Thread \ {t}) /\ Cardinality(Thread \ {t}) = Cardinality(Thread) - 1
  BY PoolAssumption, FS_RemoveElement
<1>3. Count(p, labels) <= Cardinality(Thread \ {t})
  BY <1>1, <1>2, FS_Subset DEF Count
<1>. QED  BY <1>2, <1>3

\* What the step of one thread does to the number.
Moved(p, t, l, labels) ==
  Count(p, labels) + (IF l \in labels THEN 1 ELSE 0) - (IF p[t] \in labels THEN 1 ELSE 0)

OnlyStepped(p, q, t, l) == q[t] = l /\ \A u \in Thread \ {t} : q[u] = p[u]

LEMMA CountMoved ==
  ASSUME NEW p, NEW q, NEW t \in Thread, NEW l, NEW labels, OnlyStepped(p, q, t, l)
  PROVE  Count(q, labels) = Moved(p, t, l, labels)
<1> DEFINE P == {u \in Thread : p[u] \in labels}
           Q == {u \in Thread : q[u] \in labels}
<1>1. IsFiniteSet(P) /\ Cardinality(P) \in Nat
  BY CountIsNat, FS_CardinalityType
<1>2. Count(p, labels) = Cardinality(P) /\ Count(q, labels) = Cardinality(Q)
  BY DEF Count
<1>3. q[t] = l /\ \A u \in Thread \ {t} : q[u] = p[u]
  BY DEF OnlyStepped
<1>4. CASE l \in labels /\ p[t] \notin labels
  <2>1. Q = P \cup {t} /\ t \notin P
    BY <1>3, <1>4
  <2>2. Cardinality(Q) = Cardinality(P) + 1
    BY <1>1, <2>1, FS_AddElement
  <2>. QED  BY <1>1, <1>2, <1>4, <2>2 DEF Moved
<1>5. CASE l \notin labels /\ p[t] \in labels
  <2>1. Q = P \ {t} /\ t \in P
    BY <1>3, <1>5
  <2>2. Cardinality(P \ {t}) = Cardinality(P) - 1
    <3> HIDE DEF P
    <3>. QED  BY <1>1, <2>1, FS_RemoveElement
  <2>3. Cardinality(Q) = Cardinality(P) - 1
    BY <2>1, <2>2, Zenon
  <2>. QED  BY <1>1, <1>2, <1>5, <2>3 DEF Moved
<1>6. CASE l \in labels <=> p[t] \in labels
  <2>1. Q = P
    BY <1>3, <1>6
  <2>2. (IF l \in labels THEN 1 ELSE 0) = (IF p[t] \in labels THEN 1 ELSE 0)
    BY <1>6, Zenon
  <2>3. (IF l \in labels THEN 1 ELSE 0) \in {0, 1}
    OBVIOUS
  <2>4. Moved(p, t, l, labels) = Cardinality(P)
    BY <1>1, <1>2, <2>2, <2>3 DEF Moved
  <2>. QED  BY <1>2, <2>1, <2>4
<1>. QED  BY <1>4, <1>5, <1>6, Zenon

-----------------------------------------------------------------------------
(* The inductive invariant. *)

TypeInv ==
  /\ mHead \in Tagged
  /\ next \in [Block -> Pointer]
  /\ mCachedSize \in Int /\ mUsedSize \in Int /\ mMaxCapacity \in Int
  /\ heap \in SUBSET Block /\ rented \in SUBSET Block
  /\ pc \in [Thread -> Label]
  /\ node \in [Thread -> Pointer]
  /\ snap \in [Thread -> Tagged]
  /\ snapNext \in [Thread -> Pointer]

\* What a thread has in its hands is its alone.
HandInv ==
  /\ \A t \in Holding : node[t] \in Block /\ node[t] \notin heap \cup rented \cup Cached
  /\ \A t, u \in Holding : node[t] = node[u] => t = u

\* The other places are apart, and a block is somewhere.
PlaceInv ==
  /\ heap \cap rented = {} /\ heap \cap Cached = {} /\ rented \cap Cached = {}
  /\ \A n \in Block : n \in heap \cup rented \cup Cached \cup InHand

ListInv == Once(mHead.Node, next)

\* A snapshot is never from the future, so that a head that equals it has not
\* changed since; what was read of the first block is then still true, and so
\* is what was written to the own one.
SnapOf(t) ==
  /\ snap[t].UID <= mHead.UID
  /\ pc[t] \in {"rent_uid", "rent_next", "rent_cas"} => snap[t].Node # Null
  /\ pc[t] = "rent_cas" /\ snap[t] = mHead => snapNext[t] = next[mHead.Node]
  /\ pc[t] = "return_cas" => next[node[t]] = snap[t].Node

SnapInv == \A t \in Thread : SnapOf(t)

\* The counters are exact; there is a block for every thread with a claim and
\* every block not counted yet; the threads that will allocate are within the
\* bound.
CountInv ==
  LET cached == Cardinality(Cached)
      rent   == Cardinality(rented)
  IN  /\ mUsedSize = rent + Count(pc, ReturnLabel)
      /\ mMaxCapacity = rent + Count(pc, HandLabel) + cached
      /\ mCachedSize = cached - Count(pc, ReservedLabel)
      /\ Count(pc, ClaimLabel) + Count(pc, {"return_cached"}) <= cached
      /\ rent + Count(pc, RentLabel) <= MaxRented
      /\ mMaxCapacity + Count(pc, AllocLabel) <= MaxRented + Cardinality(Thread) - 1

IInv ==
  TypeInv /\ HandInv /\ PlaceInv /\ ListInv /\ SnapInv /\ CountInv
  /\ mMaxCapacity = Cardinality(Block \ heap)

-----------------------------------------------------------------------------
(* Types. *)

\* The cached blocks are finitely many.
LEMMA CachedFinite ==
  ASSUME TypeInv
  PROVE  /\ Cached \in SUBSET Block /\ IsFiniteSet(Cached) /\ Cardinality(Cached) \in Nat
         /\ IsFiniteSet(rented) /\ Cardinality(rented) \in Nat
         /\ mHead.Node # Null => mHead.Node \in Cached
         /\ mHead.Node = Null => Cached = {}
<1>1. PICK h \in Pointer, nx \in [Block -> Pointer] : h = mHead.Node /\ nx = next
  BY DEF TypeInv, Tagged
<1>2. Linked(h, nx) \in SUBSET Block /\ Closed(Linked(h, nx), h, nx)
  BY LinkedClosed
<1>3. Cached = Linked(h, nx)
  BY <1>1 DEF Cached
<1>4. IsFiniteSet(Cached) /\ IsFiniteSet(rented)
  BY <1>2, <1>3, PoolAssumption, FS_Subset DEF TypeInv
<1>5. h = Null => Linked(h, nx) = {}
  BY LinkedNothing
<1>. QED  BY <1>1, <1>2, <1>3, <1>4, <1>5, FS_CardinalityType DEF Closed

LEMMA InitType == Init => TypeInv
  BY DEF Init, TypeInv, Pointer, Tagged, Label

\* The steps that may change the list or the types.
LEMMA TypeStep == TypeInv /\ HandInv /\ SnapInv /\ [Next]_vars => TypeInv'
<1> SUFFICES ASSUME TypeInv, HandInv, SnapInv, [Next]_vars PROVE TypeInv'
  OBVIOUS
<1> USE DEF TypeInv, Goto, Label, RentLabel, ReturnLabel, counters
<1>1. ASSUME NEW t \in Thread, RentReserve(t) PROVE TypeInv'
  BY <1>1 DEF RentReserve
<1>2. ASSUME NEW t \in Thread, RentRestore(t) PROVE TypeInv'
  BY <1>2 DEF RentRestore
<1>3. ASSUME NEW t \in Thread, RentAllocate(t) PROVE TypeInv'
  BY <1>3 DEF RentAllocate, Pointer
<1>4. ASSUME NEW t \in Thread, RentNode(t) \/ ReturnNode(t) PROVE TypeInv'
  <2>1. [snap[t] EXCEPT !.Node = mHead.Node] \in Tagged
    BY DEF Tagged
  <2>. QED  BY <1>4, <2>1 DEF RentNode, ReturnNode
<1>5. ASSUME NEW t \in Thread, RentUid(t) \/ ReturnUid(t) PROVE TypeInv'
  <2>1. [snap[t] EXCEPT !.UID = mHead.UID] \in Tagged
    BY DEF Tagged
  <2>. QED  BY <1>5, <2>1 DEF RentUid, ReturnUid
<1>6. ASSUME NEW t \in Thread, RentNext(t) PROVE TypeInv'
  <2>1. next[snap[t].Node] \in Pointer
    BY <1>6 DEF RentNext, Tagged, Pointer
  <2>. QED  BY <1>6, <2>1 DEF RentNext
<1>7. ASSUME NEW t \in Thread, RentCas(t) PROVE TypeInv'
  <2>1. [UID |-> snap[t].UID + 1, Node |-> snapNext[t]] \in Tagged /\ snap[t].Node \in Pointer
    BY DEF Tagged
  <2>. QED  BY <1>7, <2>1 DEF RentCas
<1>8. ASSUME NEW t \in Thread, RentCount(t) PROVE TypeInv'
  BY <1>8 DEF RentCount, HandInv, Holding, At
<1>9. ASSUME NEW t \in Thread, NEW n \in Block, ReturnBegin(t, n) PROVE TypeInv'
  <2>1. n \in Pointer
    BY DEF Pointer
  <2>. QED  BY <1>9, <2>1 DEF ReturnBegin
<1>10. ASSUME NEW t \in Thread, ReturnLink(t) PROVE TypeInv'
  <2>1. snap[t].Node \in Pointer
    BY DEF Tagged
  <2>. QED  BY <1>10, <2>1 DEF ReturnLink
<1>11. ASSUME NEW t \in Thread, ReturnCas(t) PROVE TypeInv'
  <2>1. [UID |-> snap[t].UID + 1, Node |-> node[t]] \in Tagged
    BY DEF Tagged
  <2>. QED  BY <1>11, <2>1 DEF ReturnCas
<1>12. ASSUME NEW t \in Thread, ReturnCached(t) \/ ReturnUsed(t) PROVE TypeInv'
  BY <1>12 DEF ReturnCached, ReturnUsed
<1>13. CASE UNCHANGED vars
  BY <1>13 DEF vars
<1>. QED
  BY <1>1, <1>2, <1>3, <1>4, <1>5, <1>6, <1>7, <1>8, <1>9, <1>10, <1>11, <1>12, <1>13
  DEF Next, Rent, Return

-----------------------------------------------------------------------------
(* What steps keep. *)

\* A list whose blocks nobody wrote to, and whose head stays, is the same list.
LEMMA ListKept ==
  ASSUME TypeInv, TypeInv', ListInv, mHead' = mHead, \A n \in Cached : next'[n] = next[n]
  PROVE  Cached' = Cached /\ ListInv'
<1>1. PICK h \in Pointer, nx \in [Block -> Pointer] : h = mHead.Node /\ nx = next
  BY DEF TypeInv, Tagged
<1>2. PICK ny \in [Block -> Pointer] : ny = next'
  BY DEF TypeInv
<1>3. Cached = Linked(h, nx) /\ Cached' = Linked(h, ny)
  BY <1>1, <1>2 DEF Cached
<1>4. \A n \in Linked(h, nx) : ny[n] = nx[n]
  BY <1>1, <1>2, <1>3
<1>5. Linked(h, ny) = Linked(h, nx)
  BY <1>4, LinkedKept
<1>6. Once(h, nx)
  BY <1>1 DEF ListInv
<1>7. Once(h, ny)
  BY <1>4, <1>5, <1>6 DEF Once
<1>. QED  BY <1>1, <1>2, <1>3, <1>5, <1>7 DEF ListInv

\* The blocks in the hands of threads.
LEMMA InHandIs ==
  ASSUME NEW n
  PROVE  /\ n \in InHand <=> \E t \in Holding : node[t] = n
         /\ n \in InHand' <=> \E t \in Holding' : node'[t] = n
  BY DEF InHand

\* Owners stay owners if no block moves.
LEMMA PlacesKept ==
  ASSUME HandInv, PlaceInv, Cached' = Cached, heap' = heap, rented' = rented,
         Holding' = Holding, \A u \in Holding : node'[u] = node[u]
  PROVE  HandInv' /\ PlaceInv'
<1>1. InHand' = InHand
  BY InHandIs
<1>2. HandInv'
  BY DEF HandInv
<1>3. PlaceInv'
  BY <1>1 DEF PlaceInv
<1>. QED  BY <1>2, <1>3

\* The threads that did not move keep their snapshots if the head stayed or
\* went on, and nobody wrote to the first block or to theirs.
LEMMA SnapsKept ==
  ASSUME SnapInv, TypeInv, TypeInv', NEW t \in Thread,
         \A u \in Thread \ {t} : /\ pc'[u] = pc[u] /\ snap'[u] = snap[u]
                                 /\ snapNext'[u] = snapNext[u] /\ node'[u] = node[u],
         \/ mHead' = mHead /\ (mHead.Node # Null => next'[mHead.Node] = next[mHead.Node])
         \/ mHead'.UID > mHead.UID,
         \A u \in Thread \ {t} : pc[u] = "return_cas" => next'[node[u]] = next[node[u]],
         SnapOf(t)'
  PROVE  SnapInv'
<1> SUFFICES ASSUME NEW u \in Thread \ {t} PROVE SnapOf(u)'
  BY DEF SnapInv
<1>1. SnapOf(u)
  BY DEF SnapInv
<1>2. /\ snap[u] \in Tagged /\ mHead \in Tagged /\ mHead' \in Tagged
      /\ snap[u].UID \in Nat /\ mHead.UID \in Nat /\ mHead'.UID \in Nat
  BY DEF TypeInv, Tagged
<1>3. snap[u].UID <= mHead'.UID
  BY <1>1, <1>2 DEF SnapOf
<1>4. ASSUME pc[u] = "rent_cas", snap[u] = mHead' PROVE snapNext[u] = next'[mHead'.Node]
  <2>1. mHead' = mHead
    BY <1>1, <1>2, <1>4 DEF SnapOf
  <2>2. mHead.Node # Null
    BY <1>1, <1>4, <2>1 DEF SnapOf
  <2>3. next'[mHead.Node] = next[mHead.Node]
    BY <1>2, <2>1, <2>2
  <2>. QED  BY <1>1, <1>4, <2>1, <2>3 DEF SnapOf
<1>. QED  BY <1>1, <1>3, <1>4 DEF SnapOf

\* The program counters after the step of one thread.
LEMMA Stepped ==
  ASSUME TypeInv, NEW t \in Thread, NEW l, Goto(t, l)
  PROVE  /\ pc'[t] = l /\ \A u \in Thread \ {t} : pc'[u] = pc[u]
         /\ \A u : u \in Holding <=> u \in Thread /\ pc[u] \in HandLabel
         /\ \A u : u \in Holding' <=> u \in Thread /\ pc'[u] \in HandLabel
<1>1. pc'[t] = l /\ \A u \in Thread \ {t} : pc'[u] = pc[u]
  BY DEF TypeInv, Goto
<1>2. /\ \A u : u \in Holding <=> u \in Thread /\ pc[u] \in HandLabel
      /\ \A u : u \in Holding' <=> u \in Thread /\ pc'[u] \in HandLabel
  BY DEF Holding, At, HandLabel
<1>. QED  BY <1>1, <1>2

\* The numbers of threads after it.
LEMMA Counted ==
  ASSUME TypeInv, NEW t \in Thread, NEW l, Goto(t, l)
  PROVE  \A labels : /\ Count(pc, labels) \in Nat /\ Count(pc', labels) \in Nat
                     /\ Count(pc', labels) = Moved(pc, t, l, labels)
<1>1. PICK p, q : p = pc /\ q = pc'
  OBVIOUS
<1>2. OnlyStepped(p, q, t, l)
  BY <1>1, Stepped DEF OnlyStepped
<1>3. \A labels : Count(q, labels) = Moved(p, t, l, labels)
  BY <1>2, CountMoved
<1>4. \A labels : Count(p, labels) \in Nat /\ Count(q, labels) \in Nat
  BY CountIsNat
<1>. QED  BY <1>1, <1>3, <1>4

\* A step inside the loops of Rent or of Return, before the exchange that ends
\* them succeeds: only the snapshot and the link of the own block change.
LEMMA QuietStep ==
  ASSUME IInv, TypeInv', NEW t \in Thread, NEW l, Goto(t, l),
         \/ pc[t] \in ClaimLabel /\ l \in ClaimLabel /\ next' = next
         \/ /\ pc[t] \in HandLabel \ {"rent_count"} /\ l \in HandLabel \ {"rent_count"}
            /\ \A n \in Block \ {node[t]} : next'[n] = next[n],
         mHead' = mHead, UNCHANGED <<counters, heap, rented, node>>,
         \A u \in Thread \ {t} : snap'[u] = snap[u] /\ snapNext'[u] = snapNext[u],
         SnapOf(t)'
  PROVE  IInv'
<1> USE DEF IInv
<1>1. /\ pc'[t] = l /\ \A u \in Thread \ {t} : pc'[u] = pc[u]
      /\ \A u : u \in Holding <=> u \in Thread /\ pc[u] \in HandLabel
      /\ \A u : u \in Holding' <=> u \in Thread /\ pc'[u] \in HandLabel
  BY Stepped
<1>2. Holding' = Holding
  BY <1>1 DEF HandLabel, ClaimLabel
<1>3. \A n \in Block : n \notin InHand => next'[n] = next[n]
  <2>1. pc[t] \in HandLabel => node[t] \in InHand
    BY <1>1, InHandIs
  <2>. QED  BY <2>1
<1>4. Cached \in SUBSET Block /\ Cached \cap InHand = {}
  BY CachedFinite, InHandIs DEF HandInv
<1>5. Cached' = Cached /\ ListInv'
  BY <1>3, <1>4, ListKept
<1>6. HandInv' /\ PlaceInv'
  BY <1>2, <1>5, PlacesKept
<1>7. SnapInv'
  <2>1. mHead.Node # Null => next'[mHead.Node] = next[mHead.Node]
    BY <1>3, <1>4, CachedFinite
  <2>2. ASSUME NEW u \in Thread \ {t}, pc[u] = "return_cas"
        PROVE  next'[node[u]] = next[node[u]]
    <3>1. u \in Holding
      BY <1>1, <2>2 DEF HandLabel
    <3>2. pc[t] \in HandLabel => t \in Holding
      BY <1>1
    <3>. QED  BY <3>1, <3>2 DEF HandInv
  <2>. QED  BY <1>1, <2>1, <2>2, SnapsKept
<1>8. CountInv'
  <2>1. \A labels : /\ Count(pc, labels) \in Nat
                    /\ Count(pc', labels) = Moved(pc, t, l, labels)
    BY Counted
  <2>2. /\ Count(pc', ReturnLabel) = Count(pc, ReturnLabel)
        /\ Count(pc', RentLabel) = Count(pc, RentLabel)
        /\ Count(pc', HandLabel) = Count(pc, HandLabel)
        /\ Count(pc', ReservedLabel) = Count(pc, ReservedLabel)
        /\ Count(pc', ClaimLabel) = Count(pc, ClaimLabel)
        /\ Count(pc', {"return_cached"}) = Count(pc, {"return_cached"})
        /\ Count(pc', AllocLabel) = Count(pc, AllocLabel)
    BY <2>1 DEF Moved, ReturnLabel, RentLabel, HandLabel, ReservedLabel, ClaimLabel, AllocLabel
  <2>. QED  BY <1>5, <2>2 DEF CountInv, counters
<1>. QED  BY <1>5, <1>6, <1>7, <1>8 DEF counters

-----------------------------------------------------------------------------
(* The steps on the counters. *)

\* What remains to be shown of a step that leaves list, blocks and snapshots alone.
LEMMA CounterStep ==
  ASSUME IInv, TypeInv', NEW t \in Thread, NEW l, Goto(t, l),
         pc[t] \notin HandLabel, l \notin HandLabel \cup {"rent_uid", "rent_next", "rent_cas"},
         UNCHANGED <<mHead, next, mMaxCapacity, heap, rented, node, snap, snapNext>>,
         CountInv'
  PROVE  IInv'
<1> USE DEF IInv
<1>1. /\ pc'[t] = l /\ \A u \in Thread \ {t} : pc'[u] = pc[u]
      /\ \A u : u \in Holding <=> u \in Thread /\ pc[u] \in HandLabel
      /\ \A u : u \in Holding' <=> u \in Thread /\ pc'[u] \in HandLabel
  BY Stepped
<1>2. Holding' = Holding
  BY <1>1
<1>3. Cached' = Cached /\ ListInv'
  BY ListKept
<1>4. HandInv' /\ PlaceInv'
  BY <1>2, <1>3, PlacesKept
<1>5. SnapOf(t)'
  BY <1>1 DEF SnapOf, SnapInv, HandLabel
<1>6. SnapInv'
  BY <1>1, <1>5, SnapsKept
<1>. QED  BY <1>3, <1>4, <1>6

\* The sets of labels the counters are about, by their parts.
LEMMA CountParts ==
  /\ Count(pc, RentLabel) = Count(pc, AllocLabel) + Count(pc, ClaimLabel)
                            + Count(pc, {"rent_count"})
  /\ Count(pc, ReservedLabel) = Count(pc, {"rent_restore"}) + Count(pc, ClaimLabel)
                                + Count(pc, {"return_cached"})
  /\ Count(pc, HandLabel) = Count(pc, {"rent_count"})
                            + Count(pc, HandLabel \ {"rent_count"})
  /\ Count(pc, {"rent_restore", "return_cached"} \cup (HandLabel \ {"rent_count"}))
       = Count(pc, {"rent_restore"}) + Count(pc, {"return_cached"})
         + Count(pc, HandLabel \ {"rent_count"})
<1>1. PICK p : p = pc
  OBVIOUS
<1> DEFINE restore == {"rent_restore"}
           cached  == {"return_cached"}
           count   == {"rent_count"}
           linking == HandLabel \ {"rent_count"}
<1>2. /\ RentLabel = (AllocLabel \cup ClaimLabel) \cup count
      /\ ReservedLabel = (restore \cup ClaimLabel) \cup cached
      /\ HandLabel = count \cup linking
      /\ {"rent_restore", "return_cached"} \cup linking = (restore \cup cached) \cup linking
  BY DEF RentLabel, ReservedLabel, AllocLabel, ClaimLabel, HandLabel
<1>3. /\ AllocLabel \cap ClaimLabel = {} /\ (AllocLabel \cup ClaimLabel) \cap count = {}
      /\ restore \cap ClaimLabel = {} /\ (restore \cup ClaimLabel) \cap cached = {}
      /\ count \cap linking = {}
      /\ restore \cap cached = {} /\ (restore \cup cached) \cap linking = {}
  BY DEF AllocLabel, ClaimLabel, HandLabel
<1> HIDE DEF restore, cached, count, linking
<1>4. /\ Count(p, (AllocLabel \cup ClaimLabel) \cup count)
           = Count(p, AllocLabel) + Count(p, ClaimLabel) + Count(p, count)
      /\ Count(p, (restore \cup ClaimLabel) \cup cached)
           = Count(p, restore) + Count(p, ClaimLabel) + Count(p, cached)
      /\ Count(p, count \cup linking) = Count(p, count) + Count(p, linking)
      /\ Count(p, (restore \cup cached) \cup linking)
           = Count(p, restore) + Count(p, cached) + Count(p, linking)
  BY <1>3, CountSum, CountSums
<1>. QED  BY <1>1, <1>2, <1>4 DEF restore, cached, count, linking

\* A reservation: of a block that is on the list, or to allocate within the bound.
LEMMA RentReserveStep ==
  ASSUME IInv, TypeInv', NEW t \in Thread, RentReserve(t)
  PROVE  IInv'
<1> USE DEF IInv
<1> DEFINE l == IF mCachedSize - 1 < 0 THEN "rent_restore" ELSE "rent_node"
<1>1. Goto(t, l) /\ pc[t] = "idle" /\ mCachedSize' = mCachedSize - 1
  BY DEF RentReserve
<1>2. \A labels : /\ Count(pc, labels) \in Nat
                  /\ Count(pc', labels) = Moved(pc, t, l, labels)
  BY <1>1, Counted
<1>3. /\ Count(pc', ReturnLabel) = Count(pc, ReturnLabel)
      /\ Count(pc', HandLabel) = Count(pc, HandLabel)
      /\ Count(pc', {"return_cached"}) = Count(pc, {"return_cached"})
      /\ Count(pc', RentLabel) = Count(pc, RentLabel) + 1
      /\ Count(pc', ReservedLabel) = Count(pc, ReservedLabel) + 1
      /\ Count(pc', ClaimLabel) = Count(pc, ClaimLabel) + (IF l = "rent_node" THEN 1 ELSE 0)
      /\ Count(pc', AllocLabel) = Count(pc, AllocLabel) + (IF l = "rent_node" THEN 0 ELSE 1)
  BY <1>1, <1>2
  DEF Moved, ReturnLabel, RentLabel, HandLabel, ReservedLabel, ClaimLabel, AllocLabel
<1>4. Cached' = Cached /\ Cardinality(Cached) \in Nat /\ Cardinality(rented) \in Nat
  BY CachedFinite, ListKept DEF RentReserve
<1>5. Cardinality(rented) + Count(pc, RentLabel) < MaxRented /\ MaxRented \in Int
  BY PoolAssumption DEF RentReserve, At, Count
<1>6. CountInv'
  <2>1. CASE mCachedSize - 1 < 0
    <3>1. Count(pc, {"rent_restore", "return_cached"} \cup (HandLabel \ {"rent_count"}))
            <= Cardinality(Thread) - 1
      <4>1. PICK p : p = pc
        OBVIOUS
      <4>2. p[t] \notin {"rent_restore", "return_cached"} \cup (HandLabel \ {"rent_count"})
        BY <1>1, <4>1 DEF HandLabel
      <4>. QED  BY <4>1, <4>2, CountOthers
    <3>2. Cardinality(Thread) \in Nat
      BY PoolAssumption, FS_CardinalityType
    <3>3. l = "rent_restore"
      BY <2>1
    <3>4. mMaxCapacity + Count(pc', AllocLabel) <= MaxRented + Cardinality(Thread) - 1
      BY <1>2, <1>3, <1>4, <1>5, <2>1, <3>1, <3>2, <3>3, CountParts DEF CountInv, TypeInv
    <3>. QED  BY <1>1, <1>2, <1>3, <1>4, <1>5, <3>3, <3>4 DEF CountInv, TypeInv, RentReserve
  <2>2. CASE mCachedSize - 1 >= 0
    <3>1. l = "rent_node"
      BY <2>2 DEF TypeInv
    <3>2. Count(pc, ClaimLabel) + 1 + Count(pc, {"return_cached"}) <= Cardinality(Cached)
      BY <1>2, <1>4, <2>2, CountParts DEF CountInv, TypeInv
    <3>. QED  BY <1>1, <1>2, <1>3, <1>4, <1>5, <3>1, <3>2 DEF CountInv, TypeInv, RentReserve
  <2>. QED  BY <2>1, <2>2 DEF TypeInv
<1>7. l \in {"rent_restore", "rent_node"}
  OBVIOUS
<1>. QED  BY <1>1, <1>6, <1>7, CounterStep DEF RentReserve, HandLabel

\* RentRestore, ReturnCached and ReturnUsed.
LEMMA CounterSteps ==
  ASSUME IInv, TypeInv', NEW t \in Thread,
         RentRestore(t) \/ ReturnCached(t) \/ ReturnUsed(t)
  PROVE  IInv'
<1> USE DEF IInv
<1> DEFINE l == IF pc[t] = "rent_restore" THEN "rent_alloc"
                ELSE IF pc[t] = "return_cached" THEN "return_used" ELSE "idle"
<1>1. /\ Goto(t, l) /\ pc[t] \in {"rent_restore", "return_cached", "return_used"}
      /\ UNCHANGED <<mHead, next, mMaxCapacity, heap, rented, node, snap, snapNext>>
  BY DEF RentRestore, ReturnCached, ReturnUsed
<1>2. \A labels : /\ Count(pc, labels) \in Nat
                  /\ Count(pc', labels) = Moved(pc, t, l, labels)
  BY <1>1, Counted
<1>3. Cached' = Cached /\ Cardinality(Cached) \in Nat /\ Cardinality(rented) \in Nat
  BY <1>1, CachedFinite, ListKept
<1>4. MaxRented \in Int /\ Cardinality(Thread) \in Int
  BY PoolAssumption, FS_CardinalityType
<1>5. CountInv'
  <2>1. CASE pc[t] = "rent_restore"
    <3>1. /\ Count(pc', ReturnLabel) = Count(pc, ReturnLabel)
          /\ Count(pc', HandLabel) = Count(pc, HandLabel)
          /\ Count(pc', {"return_cached"}) = Count(pc, {"return_cached"})
          /\ Count(pc', RentLabel) = Count(pc, RentLabel)
          /\ Count(pc', ReservedLabel) = Count(pc, ReservedLabel) - 1
          /\ Count(pc', ClaimLabel) = Count(pc, ClaimLabel)
          /\ Count(pc', AllocLabel) = Count(pc, AllocLabel)
      BY <1>1, <1>2, <2>1
      DEF Moved, ReturnLabel, RentLabel, HandLabel, ReservedLabel, ClaimLabel, AllocLabel
    <3>2. mCachedSize' = mCachedSize + 1 /\ mUsedSize' = mUsedSize
      BY <2>1 DEF RentRestore, ReturnCached, ReturnUsed
    <3>. QED  BY <1>1, <1>2, <1>3, <1>4, <3>1, <3>2 DEF CountInv, TypeInv
  <2>2. CASE pc[t] = "return_cached"
    <3>1. /\ Count(pc', ReturnLabel) = Count(pc, ReturnLabel)
          /\ Count(pc', HandLabel) = Count(pc, HandLabel)
          /\ Count(pc', {"return_cached"}) = Count(pc, {"return_cached"}) - 1
          /\ Count(pc', RentLabel) = Count(pc, RentLabel)
          /\ Count(pc', ReservedLabel) = Count(pc, ReservedLabel) - 1
          /\ Count(pc', ClaimLabel) = Count(pc, ClaimLabel)
          /\ Count(pc', AllocLabel) = Count(pc, AllocLabel)
      BY <1>1, <1>2, <2>2
      DEF Moved, ReturnLabel, RentLabel, HandLabel, ReservedLabel, ClaimLabel, AllocLabel
    <3>2. mCachedSize' = mCachedSize + 1 /\ mUsedSize' = mUsedSize
      BY <2>2 DEF RentRestore, ReturnCached, ReturnUsed
    <3>. QED  BY <1>1, <1>2, <1>3, <1>4, <3>1, <3>2 DEF CountInv, TypeInv
  <2>3. CASE pc[t] = "return_used"
    <3>1. /\ Count(pc', ReturnLabel) = Count(pc, ReturnLabel) - 1
          /\ Count(pc', HandLabel) = Count(pc, HandLabel)
          /\ Count(pc', {"return_cached"}) = Count(pc, {"return_cached"})
          /\ Count(pc', RentLabel) = Count(pc, RentLabel)
          /\ Count(pc', ReservedLabel) = Count(pc, ReservedLabel)
          /\ Count(pc', ClaimLabel) = Count(pc, ClaimLabel)
          /\ Count(pc', AllocLabel) = Count(pc, AllocLabel)
      BY <1>1, <1>2, <2>3
      DEF Moved, ReturnLabel, RentLabel, HandLabel, ReservedLabel, ClaimLabel, AllocLabel
    <3>2. mCachedSize' = mCachedSize /\ mUsedSize' = mUsedSize - 1
      BY <2>3 DEF RentRestore, ReturnCached, ReturnUsed
    <3>. QED  BY <1>1, <1>2, <1>3, <1>4, <3>1, <3>2 DEF CountInv, TypeInv
  <2>. QED  BY <1>1, <2>1, <2>2, <2>3
<1>6. pc[t] \notin HandLabel /\ l \notin HandLabel \cup {"rent_uid", "rent_next", "rent_cas"}
  BY <1>1 DEF HandLabel
<1>. QED  BY <1>1, <1>5, <1>6, CounterStep

-----------------------------------------------------------------------------
(* The loops. *)

\* A thread with a claim finds a block: there are as many as claims.
LEMMA ClaimFindsBlock ==
  ASSUME IInv, NEW t \in Thread, pc[t] \in ClaimLabel
  PROVE  mHead.Node # Null /\ mHead.Node \in Cached
<1> USE DEF IInv
<1>1. Count(pc, ClaimLabel) \in Nat /\ Count(pc, {"return_cached"}) \in Nat
  BY CountIsNat
<1>2. Count(pc, ClaimLabel) # 0
  <2>1. IsFiniteSet({u \in Thread : pc[u] \in ClaimLabel})
    BY CountIsNat
  <2>. QED  BY <2>1, FS_EmptySet DEF Count
<1>3. Cardinality(Cached) # 0
  BY <1>1, <1>2, CachedFinite DEF CountInv
<1>4. Cached # {}
  BY <1>3, FS_EmptySet
<1>. QED  BY <1>4, CachedFinite

\* The reads and the failing exchange of Rent.
LEMMA RentReads ==
  ASSUME IInv, TypeInv', NEW t \in Thread,
         RentNode(t) \/ RentUid(t) \/ RentNext(t) \/ (RentCas(t) /\ mHead # snap[t])
  PROVE  IInv'
<1> DEFINE l == IF pc[t] = "rent_node" THEN "rent_uid"
                ELSE IF pc[t] = "rent_next" THEN "rent_cas" ELSE "rent_next"
<1>1. /\ pc[t] \in ClaimLabel /\ l \in ClaimLabel /\ Goto(t, l)
      /\ UNCHANGED <<mHead, next, counters, heap, rented, node>>
  BY DEF RentNode, RentUid, RentNext, RentCas, ClaimLabel, Goto
<1>2. \A u \in Thread \ {t} : snap'[u] = snap[u] /\ snapNext'[u] = snapNext[u]
  BY DEF RentNode, RentUid, RentNext, RentCas, IInv, TypeInv
<1>3. pc'[t] = l
  BY <1>1, Stepped DEF IInv
<1>4. mHead.Node # Null
  BY <1>1, ClaimFindsBlock
<1>5. SnapOf(t) /\ snap[t].UID \in Nat /\ mHead.UID \in Nat /\ mHead \in Tagged
  BY DEF IInv, SnapInv, TypeInv, Tagged
<1>6. SnapOf(t)'
  <2>1. CASE RentNode(t)
    <3>1. snap'[t].Node = mHead.Node /\ snap'[t].UID = snap[t].UID
      BY <2>1 DEF RentNode, IInv, TypeInv, Tagged
    <3>. QED  BY <1>1, <1>3, <1>4, <1>5, <2>1, <3>1 DEF RentNode, SnapOf
  <2>2. CASE RentUid(t)
    <3>1. snap'[t].Node = snap[t].Node /\ snap'[t].UID = mHead.UID
      BY <2>2 DEF RentUid, IInv, TypeInv, Tagged
    <3>. QED  BY <1>1, <1>3, <1>5, <2>2, <3>1 DEF RentUid, SnapOf
  <2>3. CASE RentNext(t)
    <3>1. snap'[t] = snap[t] /\ snapNext'[t] = next[snap[t].Node]
      BY <2>3 DEF RentNext, IInv, TypeInv
    <3>. QED  BY <1>1, <1>3, <1>5, <2>3, <3>1 DEF RentNext, SnapOf
  <2>4. CASE RentCas(t) /\ mHead # snap[t]
    <3>1. snap'[t] = mHead
      BY <2>4 DEF RentCas, IInv, TypeInv
    <3>. QED  BY <1>1, <1>3, <1>4, <1>5, <2>4, <3>1 DEF RentCas, SnapOf
  <2>. QED  BY <2>1, <2>2, <2>3, <2>4
<1>. QED  BY <1>1, <1>2, <1>6, QuietStep

\* The reads, the link and the failing exchange of Return.
LEMMA ReturnReads ==
  ASSUME IInv, TypeInv', NEW t \in Thread,
         ReturnNode(t) \/ ReturnUid(t) \/ ReturnLink(t) \/ (ReturnCas(t) /\ mHead # snap[t])
  PROVE  IInv'
<1> DEFINE l == IF pc[t] = "return_node" THEN "return_uid"
                ELSE IF pc[t] = "return_link" THEN "return_cas" ELSE "return_link"
<1>1. /\ pc[t] \in HandLabel \ {"rent_count"} /\ l \in HandLabel \ {"rent_count"}
      /\ Goto(t, l) /\ UNCHANGED <<mHead, counters, heap, rented, node, snapNext>>
  BY DEF ReturnNode, ReturnUid, ReturnLink, ReturnCas, HandLabel, Goto
<1>2. /\ \A u \in Thread \ {t} : snap'[u] = snap[u]
      /\ \A n \in Block \ {node[t]} : next'[n] = next[n]
  BY DEF ReturnNode, ReturnUid, ReturnLink, ReturnCas, IInv, TypeInv
<1>3. pc'[t] = l
  BY <1>1, Stepped DEF IInv
<1>4. SnapOf(t) /\ snap[t].UID \in Nat /\ mHead.UID \in Nat /\ mHead \in Tagged
  BY DEF IInv, SnapInv, TypeInv, Tagged
<1>5. SnapOf(t)'
  <2>1. CASE ReturnNode(t)
    <3>1. snap'[t].UID = snap[t].UID
      BY <2>1 DEF ReturnNode, IInv, TypeInv, Tagged
    <3>. QED  BY <1>1, <1>3, <1>4, <2>1, <3>1 DEF ReturnNode, SnapOf
  <2>2. CASE ReturnUid(t)
    <3>1. snap'[t].UID = mHead.UID
      BY <2>2 DEF ReturnUid, IInv, TypeInv, Tagged
    <3>. QED  BY <1>1, <1>3, <1>4, <2>2, <3>1 DEF ReturnUid, SnapOf
  <2>3. CASE ReturnLink(t)
    <3>1. node[t] \in Block
      BY <1>1, Stepped DEF IInv, HandInv
    <3>2. snap' = snap /\ next'[node[t]] = snap[t].Node
      BY <2>3, <3>1 DEF ReturnLink, IInv, TypeInv
    <3>. QED  BY <1>1, <1>3, <1>4, <2>3, <3>2 DEF ReturnLink, SnapOf
  <2>4. CASE ReturnCas(t) /\ mHead # snap[t]
    <3>1. snap'[t] = mHead
      BY <2>4 DEF ReturnCas, IInv, TypeInv
    <3>. QED  BY <1>1, <1>3, <1>4, <2>4, <3>1 DEF ReturnCas, SnapOf
  <2>. QED  BY <2>1, <2>2, <2>3, <2>4
<1>. QED  BY <1>1, <1>2, <1>5, QuietStep

-----------------------------------------------------------------------------
(* The steps that move a block. *)

\* A block goes from one of the other places into the hands of t, or back.
LEMMA TakeStep ==
  ASSUME IInv, NEW t \in Thread, NEW n \in Block, node'[t] = n,
         \A u \in Thread \ {t} : node'[u] = node[u] /\ pc'[u] = pc[u],
         pc[t] \notin HandLabel, pc'[t] \in HandLabel,
         \/ n \in heap /\ heap' = heap \ {n} /\ rented' = rented /\ Cached' = Cached
         \/ n \in rented /\ rented' = rented \ {n} /\ heap' = heap /\ Cached' = Cached
         \/ n \in Cached /\ Cached' = Cached \ {n} /\ heap' = heap /\ rented' = rented
  PROVE  HandInv' /\ PlaceInv'
<1> USE DEF IInv
<1>1. /\ \A u : u \in Holding <=> u \in Thread /\ pc[u] \in HandLabel
      /\ \A u : u \in Holding' <=> u \in Thread /\ pc'[u] \in HandLabel
  BY DEF Holding, At, HandLabel
<1>2. Holding' = Holding \cup {t} /\ t \notin Holding
  BY <1>1
<1>3. \A u \in Holding : node[u] # n /\ node'[u] = node[u] /\ node[u] \in Block
  BY <1>1, <1>2 DEF HandInv
<1>4. HandInv'
  <2>1. \A u \in Holding' : node'[u] \in Block /\ node'[u] \notin heap' \cup rented' \cup Cached'
    BY <1>2, <1>3 DEF HandInv, PlaceInv
  <2>2. \A u, w \in Holding' : node'[u] = node'[w] => u = w
    BY <1>2, <1>3 DEF HandInv
  <2>. QED  BY <2>1, <2>2 DEF HandInv
<1>5. \A m : m \in InHand' <=> m \in InHand \/ m = n
  BY <1>2, <1>3, InHandIs
<1>6. PlaceInv'
  BY <1>5 DEF PlaceInv
<1>. QED  BY <1>4, <1>6

LEMMA GiveStep ==
  ASSUME IInv, NEW t \in Thread, node' = node,
         \A u \in Thread \ {t} : pc'[u] = pc[u],
         pc[t] \in HandLabel, pc'[t] \notin HandLabel, heap' = heap,
         \/ rented' = rented \cup {node[t]} /\ Cached' = Cached
         \/ Cached' = Cached \cup {node[t]} /\ rented' = rented
  PROVE  HandInv' /\ PlaceInv'
<1> USE DEF IInv
<1>1. /\ \A u : u \in Holding <=> u \in Thread /\ pc[u] \in HandLabel
      /\ \A u : u \in Holding' <=> u \in Thread /\ pc'[u] \in HandLabel
  BY DEF Holding, At, HandLabel
<1>2. Holding' = Holding \ {t} /\ t \in Holding
  BY <1>1
<1>3. node[t] \in Block /\ \A u \in Holding \ {t} : node[u] # node[t]
  BY <1>2 DEF HandInv
<1>4. HandInv'
  BY <1>2, <1>3 DEF HandInv
<1>5. \A m : m \in InHand' <=> m \in InHand /\ m # node[t]
  BY <1>2, <1>3, InHandIs
<1>6. node[t] \notin heap \cup rented \cup Cached
  BY <1>2 DEF HandInv
<1>7. PlaceInv'
  BY <1>5, <1>6 DEF PlaceInv
<1>. QED  BY <1>4, <1>7

\* A new block.
LEMMA RentAllocateStep ==
  ASSUME IInv, TypeInv', NEW t \in Thread, RentAllocate(t)
  PROVE  IInv'
<1> USE DEF IInv
<1>1. PICK n \in heap : /\ heap' = heap \ {n}
                        /\ node' = [node EXCEPT ![t] = n]
                        /\ next' = [next EXCEPT ![n] = Null]
  BY DEF RentAllocate
<1>2. /\ Goto(t, "rent_count") /\ pc[t] = "rent_alloc" /\ mMaxCapacity' = mMaxCapacity + 1
      /\ UNCHANGED <<mHead, mCachedSize, mUsedSize, rented, snap, snapNext>>
  BY DEF RentAllocate
<1>3. pc'[t] = "rent_count" /\ \A u \in Thread \ {t} : pc'[u] = pc[u]
  BY <1>2, Stepped
<1>4. /\ n \in Block /\ node'[t] = n /\ \A u \in Thread \ {t} : node'[u] = node[u]
      /\ \A m \in Block \ {n} : next'[m] = next[m]
  BY <1>1 DEF TypeInv
<1>5. Cached' = Cached /\ ListInv'
  <2>1. n \notin Cached /\ Cached \in SUBSET Block
    BY CachedFinite DEF PlaceInv
  <2>2. \A m \in Cached : next'[m] = next[m]
    BY <1>4, <2>1
  <2>. QED  BY <1>2, <2>2, ListKept
<1>6. HandInv' /\ PlaceInv'
  <2>1. pc[t] \notin HandLabel /\ pc'[t] \in HandLabel
    BY <1>2, <1>3 DEF HandLabel
  <2>. QED  BY <1>1, <1>2, <1>3, <1>4, <1>5, <2>1, TakeStep
<1>7. SnapInv'
  <2>1. mHead.Node # Null => next'[mHead.Node] = next[mHead.Node]
    <3>1. mHead.Node # Null => mHead.Node \in Cached /\ mHead.Node \in Block
      BY CachedFinite
    <3>. QED  BY <1>4, <3>1 DEF PlaceInv
  <2>2. ASSUME NEW u \in Thread \ {t}, pc[u] = "return_cas"
        PROVE  next'[node[u]] = next[node[u]]
    <3>1. u \in Holding
      BY <2>2 DEF Holding, At
    <3>. QED  BY <1>4, <3>1 DEF HandInv
  <2>3. SnapOf(t)'
    BY <1>2, <1>3 DEF SnapOf, SnapInv
  <2>. QED  BY <1>2, <1>3, <1>4, <2>1, <2>2, <2>3, SnapsKept
<1>8. CountInv'
  <2>1. \A labels : /\ Count(pc, labels) \in Nat
                    /\ Count(pc', labels) = Moved(pc, t, "rent_count", labels)
    BY <1>2, Counted
  <2>2. /\ Count(pc', ReturnLabel) = Count(pc, ReturnLabel)
        /\ Count(pc', RentLabel) = Count(pc, RentLabel)
        /\ Count(pc', HandLabel) = Count(pc, HandLabel) + 1
        /\ Count(pc', ReservedLabel) = Count(pc, ReservedLabel)
        /\ Count(pc', ClaimLabel) = Count(pc, ClaimLabel)
        /\ Count(pc', {"return_cached"}) = Count(pc, {"return_cached"})
        /\ Count(pc', AllocLabel) = Count(pc, AllocLabel) - 1
    BY <1>2, <2>1
    DEF Moved, ReturnLabel, RentLabel, HandLabel, ReservedLabel, ClaimLabel, AllocLabel
  <2>. QED  BY <1>2, <1>5, <2>1, <2>2, CachedFinite DEF CountInv, TypeInv
<1>9. mMaxCapacity' = Cardinality(Block \ heap')
  <2>1. Block \ heap' = (Block \ heap) \cup {n} /\ n \notin Block \ heap
    BY <1>1, <1>4
  <2>2. IsFiniteSet(Block \ heap)
    BY PoolAssumption, FS_Subset
  <2>3. Cardinality((Block \ heap) \cup {n}) = Cardinality(Block \ heap) + 1
    BY <2>1, <2>2, FS_AddElement
  <2>. QED  BY <1>2, <2>1, <2>3
<1>. QED  BY <1>5, <1>6, <1>7, <1>8, <1>9

\* A block is handed to the caller ...
LEMMA RentCountStep ==
  ASSUME IInv, TypeInv', NEW t \in Thread, RentCount(t)
  PROVE  IInv'
<1> USE DEF IInv
<1>1. /\ Goto(t, "idle") /\ pc[t] = "rent_count" /\ mUsedSize' = mUsedSize + 1
      /\ rented' = rented \cup {node[t]}
      /\ UNCHANGED <<mHead, next, mCachedSize, mMaxCapacity, heap, node, snap, snapNext>>
  BY DEF RentCount
<1>2. pc'[t] = "idle" /\ \A u \in Thread \ {t} : pc'[u] = pc[u]
  BY <1>1, Stepped
<1>3. Cached' = Cached /\ ListInv'
  BY <1>1, ListKept
<1>4. HandInv' /\ PlaceInv'
  <2>1. pc[t] \in HandLabel /\ pc'[t] \notin HandLabel
    BY <1>1, <1>2 DEF HandLabel
  <2>. QED  BY <1>1, <1>2, <1>3, <2>1, GiveStep
<1>5. SnapInv'
  <2>1. SnapOf(t)'
    BY <1>1, <1>2 DEF SnapOf, SnapInv
  <2>. QED  BY <1>1, <1>2, <2>1, SnapsKept
<1>6. CountInv'
  <2>1. \A labels : /\ Count(pc, labels) \in Nat
                    /\ Count(pc', labels) = Moved(pc, t, "idle", labels)
    BY <1>1, Counted
  <2>2. /\ Count(pc', ReturnLabel) = Count(pc, ReturnLabel)
        /\ Count(pc', RentLabel) = Count(pc, RentLabel) - 1
        /\ Count(pc', HandLabel) = Count(pc, HandLabel) - 1
        /\ Count(pc', ReservedLabel) = Count(pc, ReservedLabel)
        /\ Count(pc', ClaimLabel) = Count(pc, ClaimLabel)
        /\ Count(pc', {"return_cached"}) = Count(pc, {"return_cached"})
        /\ Count(pc', AllocLabel) = Count(pc, AllocLabel)
    BY <1>1, <2>1
    DEF Moved, ReturnLabel, RentLabel, HandLabel, ReservedLabel, ClaimLabel, AllocLabel
  <2>3. Cardinality(rented') = Cardinality(rented) + 1
    <3>1. node[t] \notin rented
      BY <1>1 DEF HandInv, Holding, At
    <3>. QED  BY <1>1, <3>1, CachedFinite, FS_AddElement
  <2>. QED  BY <1>1, <1>3, <2>1, <2>2, <2>3, CachedFinite DEF CountInv, TypeInv
<1>. QED  BY <1>1, <1>3, <1>4, <1>5, <1>6

\* ... and comes back.
LEMMA ReturnBeginStep ==
  ASSUME IInv, TypeInv', NEW t \in Thread, NEW n \in Block, ReturnBegin(t, n)
  PROVE  IInv'
<1> USE DEF IInv
<1>1. /\ Goto(t, "return_node") /\ pc[t] = "idle" /\ n \in rented
      /\ rented' = rented \ {n} /\ node' = [node EXCEPT ![t] = n]
      /\ UNCHANGED <<mHead, next, mCachedSize, mUsedSize, mMaxCapacity, heap, snap, snapNext>>
  BY DEF ReturnBegin, counters
<1>2. /\ pc'[t] = "return_node" /\ \A u \in Thread \ {t} : pc'[u] = pc[u]
      /\ node'[t] = n /\ \A u \in Thread \ {t} : node'[u] = node[u]
  BY <1>1, Stepped DEF TypeInv
<1>3. Cached' = Cached /\ ListInv'
  BY <1>1, ListKept
<1>4. HandInv' /\ PlaceInv'
  <2>1. pc[t] \notin HandLabel /\ pc'[t] \in HandLabel
    BY <1>1, <1>2 DEF HandLabel
  <2>. QED  BY <1>1, <1>2, <1>3, <2>1, TakeStep
<1>5. SnapInv'
  <2>1. SnapOf(t)'
    BY <1>1, <1>2 DEF SnapOf, SnapInv
  <2>. QED  BY <1>1, <1>2, <2>1, SnapsKept
<1>6. CountInv'
  <2>1. \A labels : /\ Count(pc, labels) \in Nat
                    /\ Count(pc', labels) = Moved(pc, t, "return_node", labels)
    BY <1>1, Counted
  <2>2. /\ Count(pc', ReturnLabel) = Count(pc, ReturnLabel) + 1
        /\ Count(pc', RentLabel) = Count(pc, RentLabel)
        /\ Count(pc', HandLabel) = Count(pc, HandLabel) + 1
        /\ Count(pc', ReservedLabel) = Count(pc, ReservedLabel)
        /\ Count(pc', ClaimLabel) = Count(pc, ClaimLabel)
        /\ Count(pc', {"return_cached"}) = Count(pc, {"return_cached"})
        /\ Count(pc', AllocLabel) = Count(pc, AllocLabel)
    BY <1>1, <2>1
    DEF Moved, ReturnLabel, RentLabel, HandLabel, ReservedLabel, ClaimLabel, AllocLabel
  <2>3. Cardinality(rented') = Cardinality(rented) - 1
    BY <1>1, CachedFinite, FS_RemoveElement
  <2>4. MaxRented \in Int
    BY PoolAssumption
  <2>. QED  BY <1>1, <1>3, <2>1, <2>2, <2>3, <2>4, CachedFinite DEF CountInv, TypeInv
<1>. QED  BY <1>1, <1>3, <1>4, <1>5, <1>6

\* The exchange that takes the first block: the snapshot is the head, so what
\* was read of its link is true.
LEMMA RentCasStep ==
  ASSUME IInv, TypeInv', NEW t \in Thread, RentCas(t), mHead = snap[t]
  PROVE  IInv'
<1> USE DEF IInv
<1>1. /\ Goto(t, "rent_count") /\ pc[t] = "rent_cas"
      /\ mHead' = [UID |-> snap[t].UID + 1, Node |-> snapNext[t]]
      /\ node' = [node EXCEPT ![t] = snap[t].Node]
      /\ UNCHANGED <<next, mCachedSize, mUsedSize, mMaxCapacity, heap, rented, snap, snapNext>>
  BY DEF RentCas, counters
<1>2. PICK h, nx : h = mHead.Node /\ nx = next
  OBVIOUS
<1>3. h \in Block /\ h \in Cached /\ nx \in [Block -> Pointer] /\ Null \notin Block
  BY <1>1, <1>2, ClaimFindsBlock, CachedFinite, PoolAssumption DEF ClaimLabel, TypeInv
<1>4. mHead'.Node = nx[h] /\ mHead'.UID = mHead.UID + 1 /\ mHead.UID \in Nat
  BY <1>1, <1>2 DEF SnapInv, SnapOf, TypeInv, Tagged
<1>5. /\ pc'[t] = "rent_count" /\ \A u \in Thread \ {t} : pc'[u] = pc[u]
      /\ node'[t] = h /\ \A u \in Thread \ {t} : node'[u] = node[u]
  BY <1>1, <1>2, Stepped DEF TypeInv
<1>6. Cached' = Cached \ {h} /\ ListInv'
  <2>1. Once(h, nx)
    BY <1>2 DEF ListInv
  <2>2. Linked(nx[h], nx) = Linked(h, nx) \ {h} /\ Once(nx[h], nx)
    BY <1>3, <2>1, LinkedPop
  <2>3. Cached = Linked(h, nx) /\ Cached' = Linked(nx[h], nx)
    BY <1>1, <1>2, <1>4 DEF Cached
  <2>4. ListInv'
    BY <1>1, <1>2, <1>4, <2>2 DEF ListInv
  <2>. QED  BY <2>2, <2>3, <2>4
<1>7. HandInv' /\ PlaceInv'
  <2>1. pc[t] \notin HandLabel /\ pc'[t] \in HandLabel
    BY <1>1, <1>5 DEF HandLabel
  <2>. QED  BY <1>1, <1>3, <1>5, <1>6, <2>1, TakeStep
<1>8. SnapInv'
  <2>1. SnapOf(t)'
    BY <1>1, <1>4, <1>5 DEF SnapOf, SnapInv, TypeInv, Tagged
  <2>2. mHead'.UID > mHead.UID
    BY <1>4
  <2>. QED  BY <1>1, <1>5, <2>1, <2>2, SnapsKept
<1>9. CountInv'
  <2>1. \A labels : /\ Count(pc, labels) \in Nat
                    /\ Count(pc', labels) = Moved(pc, t, "rent_count", labels)
    BY <1>1, Counted
  <2>2. /\ Count(pc', ReturnLabel) = Count(pc, ReturnLabel)
        /\ Count(pc', RentLabel) = Count(pc, RentLabel)
        /\ Count(pc', HandLabel) = Count(pc, HandLabel) + 1
        /\ Count(pc', ReservedLabel) = Count(pc, ReservedLabel) - 1
        /\ Count(pc', ClaimLabel) = Count(pc, ClaimLabel) - 1
        /\ Count(pc', {"return_cached"}) = Count(pc, {"return_cached"})
        /\ Count(pc', AllocLabel) = Count(pc, AllocLabel)
    BY <1>1, <2>1
    DEF Moved, ReturnLabel, RentLabel, HandLabel, ReservedLabel, ClaimLabel, AllocLabel
  <2>3. Cardinality(Cached') = Cardinality(Cached) - 1
    <3>1. Cardinality(Cached \ {h}) = Cardinality(Cached) - 1
      BY <1>3, CachedFinite, FS_RemoveElement
    <3>. QED  BY <1>6, <3>1
  <2>. QED  BY <1>1, <2>1, <2>2, <2>3, CachedFinite DEF CountInv, TypeInv
<1>. QED  BY <1>1, <1>6, <1>7, <1>8, <1>9

\* The exchange that links a block: it was linked to the head there is.
LEMMA ReturnCasStep ==
  ASSUME IInv, TypeInv', NEW t \in Thread, ReturnCas(t), mHead = snap[t]
  PROVE  IInv'
<1> USE DEF IInv
<1>1. /\ Goto(t, "return_cached") /\ pc[t] = "return_cas"
      /\ mHead' = [UID |-> snap[t].UID + 1, Node |-> node[t]]
      /\ UNCHANGED <<next, mCachedSize, mUsedSize, mMaxCapacity, heap, rented, node,
                     snap, snapNext>>
  BY DEF ReturnCas, counters
<1>2. PICK h, nx, n : h = mHead.Node /\ nx = next /\ n = node[t]
  OBVIOUS
<1>3. t \in Holding
  BY <1>1 DEF Holding, At
<1>4. /\ h \in Pointer /\ nx \in [Block -> Pointer] /\ Null \notin Block
      /\ n \in Block /\ n \notin Cached /\ nx[n] = h
  BY <1>1, <1>2, <1>3, PoolAssumption DEF TypeInv, Tagged, HandInv, SnapInv, SnapOf
<1>5. mHead'.Node = n /\ mHead'.UID = mHead.UID + 1 /\ mHead.UID \in Nat
  BY <1>1, <1>2 DEF TypeInv, Tagged
<1>6. pc'[t] = "return_cached" /\ \A u \in Thread \ {t} : pc'[u] = pc[u]
  BY <1>1, Stepped
<1>7. Cached' = Cached \cup {n} /\ ListInv'
  <2>1. Once(h, nx) /\ n \notin Linked(h, nx)
    BY <1>2, <1>4 DEF ListInv, Cached
  <2>2. Linked(n, nx) = Linked(h, nx) \cup {n} /\ Once(n, nx)
    BY <1>4, <2>1, LinkedPush
  <2>3. Cached = Linked(h, nx) /\ Cached' = Linked(n, nx)
    BY <1>1, <1>2, <1>5 DEF Cached
  <2>4. ListInv'
    BY <1>1, <1>2, <1>5, <2>2 DEF ListInv
  <2>. QED  BY <2>2, <2>3, <2>4
<1>8. HandInv' /\ PlaceInv'
  <2>1. pc[t] \in HandLabel /\ pc'[t] \notin HandLabel
    BY <1>1, <1>6 DEF HandLabel
  <2>. QED  BY <1>1, <1>2, <1>6, <1>7, <2>1, GiveStep
<1>9. SnapInv'
  <2>1. SnapOf(t)'
    BY <1>1, <1>5, <1>6 DEF SnapOf, SnapInv, TypeInv, Tagged
  <2>2. mHead'.UID > mHead.UID
    BY <1>5
  <2>. QED  BY <1>1, <1>6, <2>1, <2>2, SnapsKept
<1>10. CountInv'
  <2>1. \A labels : /\ Count(pc, labels) \in Nat
                    /\ Count(pc', labels) = Moved(pc, t, "return_cached", labels)
    BY <1>1, Counted
  <2>2. /\ Count(pc', ReturnLabel) = Count(pc, ReturnLabel)
        /\ Count(pc', RentLabel) = Count(pc, RentLabel)
        /\ Count(pc', HandLabel) = Count(pc, HandLabel) - 1
        /\ Count(pc', ReservedLabel) = Count(pc, ReservedLabel) + 1
        /\ Count(pc', ClaimLabel) = Count(pc, ClaimLabel)
        /\ Count(pc', {"return_cached"}) = Count(pc, {"return_cached"}) + 1
        /\ Count(pc', AllocLabel) = Count(pc, AllocLabel)
    BY <1>1, <2>1
    DEF Moved, ReturnLabel, RentLabel, HandLabel, ReservedLabel, ClaimLabel, AllocLabel
  <2>3. Cardinality(Cached') = Cardinality(Cached) + 1
    <3>1. Cardinality(Cached \cup {n}) = Cardinality(Cached) + 1
      BY <1>4, CachedFinite, FS_AddElement
    <3>. QED  BY <1>7, <3>1
  <2>. QED  BY <1>1, <2>1, <2>2, <2>3, CachedFinite DEF CountInv, TypeInv
<1>. QED  BY <1>1, <1>7, <1>8, <1>9, <1>10

-----------------------------------------------------------------------------
(* The theorems. *)

LEMMA InitInv == Init => IInv
<1> SUFFICES ASSUME Init PROVE IInv
  OBVIOUS
<1>1. TypeInv
  BY InitType
<1>2. Cached = {}
  BY <1>1, CachedFinite DEF Init
<1>3. Holding = {}
  BY DEF Init, Holding, At
<1>4. HandInv /\ PlaceInv
  BY <1>2, <1>3 DEF HandInv, PlaceInv, Init
<1>5. ListInv
  BY <1>2 DEF ListInv, Once, Cached
<1>6. SnapInv
  BY DEF Init, SnapInv, SnapOf
<1>7. CountInv
  <2>1. ASSUME NEW labels, "idle" \notin labels PROVE Count(pc, labels) = 0
    <3>1. {t \in Thread : pc[t] \in labels} = {}
      BY <2>1 DEF Init
    <3>. QED  BY <3>1, FS_EmptySet DEF Count
  <2>2. /\ Count(pc, ReturnLabel) = 0 /\ Count(pc, HandLabel) = 0
        /\ Count(pc, ReservedLabel) = 0 /\ Count(pc, ClaimLabel) = 0
        /\ Count(pc, {"return_cached"}) = 0 /\ Count(pc, RentLabel) = 0
        /\ Count(pc, AllocLabel) = 0
    BY <2>1 DEF ReturnLabel, HandLabel, ReservedLabel, ClaimLabel, RentLabel, AllocLabel
  <2>3. Cardinality(Cached) = 0 /\ Cardinality(rented) = 0
    BY <1>2, FS_EmptySet DEF Init
  <2>4. Cardinality(Thread) \in Nat /\ Cardinality(Thread) # 0 /\ MaxRented \in Nat
    BY PoolAssumption, FS_CardinalityType, FS_EmptySet
  <2>5. mCachedSize = 0 /\ mUsedSize = 0 /\ mMaxCapacity = 0
    BY DEF Init
  <2>. QED  BY <2>2, <2>3, <2>4, <2>5 DEF CountInv
<1>8. mMaxCapacity = Cardinality(Block \ heap)
  <2>1. Block \ heap = {}
    BY DEF Init
  <2>. QED  BY <2>1, FS_EmptySet DEF Init
<1>. QED  BY <1>1, <1>4, <1>5, <1>6, <1>7, <1>8 DEF IInv

LEMMA NextInv == IInv /\ [Next]_vars => IInv'
<1> SUFFICES ASSUME IInv, [Next]_vars PROVE IInv'
  OBVIOUS
<1>1. TypeInv'
  BY TypeStep DEF IInv
<1>2. ASSUME NEW t \in Thread, RentReserve(t) PROVE IInv'
  BY <1>1, <1>2, RentReserveStep
<1>3. ASSUME NEW t \in Thread, Rent(t) PROVE IInv'
  <2>1. CASE RentRestore(t)
    BY <1>1, <2>1, CounterSteps
  <2>2. CASE RentAllocate(t)
    BY <1>1, <2>2, RentAllocateStep
  <2>3. CASE RentNode(t) \/ RentUid(t) \/ RentNext(t)
    BY <1>1, <2>3, RentReads
  <2>4. CASE RentCas(t)
    BY <1>1, <2>4, RentReads, RentCasStep
  <2>5. CASE RentCount(t)
    BY <1>1, <2>5, RentCountStep
  <2>. QED  BY <1>3, <2>1, <2>2, <2>3, <2>4, <2>5 DEF Rent
<1>4. ASSUME NEW t \in Thread, Return(t) PROVE IInv'
  <2>1. CASE ReturnNode(t) \/ ReturnUid(t) \/ ReturnLink(t)
    BY <1>1, <2>1, ReturnReads
  <2>2. CASE ReturnCas(t)
    BY <1>1, <2>2, ReturnReads, ReturnCasStep
  <2>3. CASE ReturnCached(t) \/ ReturnUsed(t)
    BY <1>1, <2>3, CounterSteps
  <2>. QED  BY <1>4, <2>1, <2>2, <2>3 DEF Return
<1>5. ASSUME NEW t \in Thread, NEW n \in Block, ReturnBegin(t, n) PROVE IInv'
  BY <1>1, <1>5, ReturnBeginStep
<1>6. CASE UNCHANGED vars
  BY <1>6 DEF vars, counters, IInv, TypeInv, HandInv, PlaceInv, ListInv, SnapInv, SnapOf,
              CountInv, Cached, Holding, InHand, At
<1>. QED  BY <1>2, <1>3, <1>4, <1>5, <1>6 DEF Next

LEMMA Inv == Spec => []IInv
  BY InitInv, NextInv, PTL DEF Spec

\* A block is in one place whatever Rent and Return of any number of threads
\* do: the exchange on {pointer, UID} cannot take a block that was taken and
\* returned since its link was read.
THEOREM BlocksAlwaysHaveOneOwner == Spec => []BlockHasOneOwner
<1>1. IInv => BlockHasOneOwner
  <2> SUFFICES ASSUME IInv PROVE BlockHasOneOwner
    OBVIOUS
  <2>1. /\ Cached \in SUBSET Block /\ heap \in SUBSET Block /\ rented \in SUBSET Block
        /\ \A n : n \in InHand <=> \E t \in Holding : node[t] = n
    BY CachedFinite, InHandIs DEF IInv, TypeInv
  <2>2. \A n \in InHand : n \in Block /\ n \notin heap \cup rented \cup Cached
    BY <2>1 DEF IInv, HandInv
  <2>3. heap \cup rented \cup InHand \cup Cached = Block
    BY <2>1, <2>2 DEF IInv, PlaceInv
  <2>4. /\ heap \cap (rented \cup InHand \cup Cached) = {}
        /\ rented \cap (InHand \cup Cached) = {} /\ InHand \cap Cached = {}
    BY <2>2 DEF IInv, PlaceInv
  <2>5. /\ \A m, n \in Cached : next[m] = next[n] /\ next[m] # Null => m = n
        /\ \A n \in Cached : next[n] # mHead.Node
    BY DEF IInv, ListInv, Once, Cached
  <2>. QED  BY <2>3, <2>4, <2>5 DEF BlockHasOneOwner, IInv, HandInv
<1>. QED  BY <1>1, Inv, PTL

\* The counters are exact but for the updates under way, and the assert of Rent
\* on the first block of the list holds, for any number of threads.
THEOREM ReservationsAreAlwaysBacked == Spec => []ReservationsAreBacked
<1>1. IInv => ReservationsAreBacked
  <2> SUFFICES ASSUME IInv PROVE ReservationsAreBacked
    OBVIOUS
  <2>1. RentFindsBlock
    BY DEF RentFindsBlock, IInv, SnapInv, SnapOf
  <2>2. CountersAreExact
    BY DEF CountersAreExact, IInv, CountInv, Count, At, ReservedLabel
  <2>. QED  BY <2>1, <2>2 DEF ReservationsAreBacked
<1>. QED  BY <1>1, Inv, PTL

\* The pool never has more blocks than the callers want at once and one for
\* every other thread that has linked a block and not counted it yet.
THEOREM CapacityIsAlwaysBounded == Spec => []CapacityIsBounded
<1>1. IInv => CapacityIsBounded
  <2> SUFFICES ASSUME IInv PROVE CapacityIsBounded
    OBVIOUS
  <2>1. Count(pc, AllocLabel) \in Nat /\ MaxRented \in Nat /\ Cardinality(Thread) \in Nat
    BY CountIsNat, PoolAssumption, FS_CardinalityType
  <2>. QED  BY <2>1 DEF CapacityIsBounded, IInv, CountInv, TypeInv
<1>. QED  BY <1>1, Inv, PTL
==============================================================================
