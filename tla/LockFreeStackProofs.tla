-------------------------- MODULE LockFreeStackProofs --------------------------
(***************************************************************************)
(* The lock-free stack for any number of threads, values, nodes and calls: *)
(* it is a stack, Push and TryPop being atomic at their exchange, and a    *)
(* reservation is backed by a node.                                        *)
(*                                                                         *)
(* The list is seen as the sequence Chain of its nodes.  A list has one    *)
(* such sequence (LinksUnique), so that an exchange that succeeds takes    *)
(* off its first node or puts one before it, and nothing else changes it.  *)
(***************************************************************************)
EXTENDS LockFreeStack, FiniteSetTheorems, WellFoundedInduction, TLAPS

-----------------------------------------------------------------------------
(* Sequences and lists. *)

Pointer == Node \cup {Null}
Tagged == [UID : Nat, Node : Pointer]

\* A set of numbers has a least one: what stands for induction here.
LEMMA LeastNumber ==
  ASSUME NEW S \in SUBSET Nat, S # {}
  PROVE  \E m \in S : \A n \in S : m <= n
<1> DEFINE R == OpToRel(<, Nat)
<1>1. IsWellFoundedOn(R, Nat)
  BY NatLessThanWellFounded
<1>2. \A a, b \in Nat : <<a, b>> \in R <=> a < b
  BY DEF OpToRel
<1> HIDE DEF R
<1>3. PICK m \in S : \A n \in S : ~(<<n, m>> \in R)
  BY <1>1, WFMin
<1>4. \A n \in S : m \in Nat /\ n \in Nat /\ ~(n < m)
  BY <1>2, <1>3
<1>5. \A n \in S : m <= n
  BY <1>4
<1>. QED  BY <1>5

\* Two sequences of nodes linked from the same node are the same.
LEMMA LinksUnique ==
  ASSUME NEW h, NEW nx, NEW c \in Seq(Node), NEW d \in Seq(Node),
         Links(c, h, nx), Links(d, h, nx), Len(c) <= Len(d)
  PROVE  c = d
<1>1. Null \notin Node /\ Len(c) \in Nat /\ Len(d) \in Nat
  BY StackAssumption
<1>2. /\ \A i \in 1..Len(c) : c[i] \in Node
      /\ \A i \in 1..Len(d) : d[i] \in Node
      /\ c = <<>> <=> Len(c) = 0
      /\ d = <<>> <=> Len(d) = 0
  OBVIOUS
<1>3. \A i \in 1..Len(c) : c[i] = d[i]
  <2> DEFINE bad == {i \in 1..Len(c) : c[i] # d[i]}
  <2> SUFFICES ASSUME bad # {} PROVE FALSE
    OBVIOUS
  <2>1. bad \in SUBSET Nat
    BY <1>1
  <2>2. PICK m \in bad : \A n \in bad : m <= n
    <3> HIDE DEF bad
    <3>. QED  BY <2>1, LeastNumber
  <2>3. m \in 1..Len(c) /\ c[m] # d[m]
    OBVIOUS
  <2>4. CASE m = 1
    <3>1. c # <<>> /\ d # <<>>
      BY <1>1, <1>2, <2>3
    <3>. QED  BY <2>3, <2>4, <3>1 DEF Links
  <2>5. CASE m # 1
    <3>1. m - 1 \in 1..Len(c) /\ m - 1 \in 1..Len(d) /\ m - 1 # Len(c) /\ m - 1 # Len(d)
      BY <1>1, <2>3, <2>5
    <3>2. m - 1 \notin bad
      BY <1>1, <2>2, <2>3
    <3>3. c[m - 1] = d[m - 1]
      BY <3>1, <3>2
    <3>4. (m - 1) + 1 = m
      BY <2>3
    <3>5. nx[c[m - 1]] = c[m] /\ nx[d[m - 1]] = d[m]
      BY <3>1, <3>4 DEF Links
    <3>. QED  BY <2>3, <3>3, <3>5
  <2>. QED  BY <2>4, <2>5
<1>4. Len(c) = Len(d)
  <2> SUFFICES ASSUME Len(c) < Len(d) PROVE FALSE
    BY <1>1
  <2>1. CASE Len(c) = 0
    <3>1. c = <<>> /\ d # <<>> /\ d[1] \in Node
      BY <1>1, <1>2, <2>1
    <3>. QED  BY <1>1, <3>1 DEF Links
  <2>2. CASE Len(c) # 0
    <3>1. Len(c) \in 1..Len(c) /\ Len(c) \in 1..Len(d) /\ Len(c) # Len(d)
          /\ Len(c) + 1 \in 1..Len(d)
      BY <1>1, <2>2
    <3>2. nx[c[Len(c)]] = Null
      BY <3>1 DEF Links
    <3>3. nx[d[Len(c)]] = d[Len(c) + 1] /\ d[Len(c) + 1] \in Node
      BY <1>2, <3>1 DEF Links
    <3>. QED  BY <1>1, <1>3, <3>1, <3>2, <3>3
  <2>. QED  BY <2>1, <2>2
<1>. QED  BY <1>3, <1>4

\* The sequences Chain chooses from.
LEMMA ShortSeqs ==
  ASSUME NEW c
  PROVE  c \in UNION {[1..k -> Node] : k \in 0..Cardinality(Node)}
           <=> c \in Seq(Node) /\ Len(c) <= Cardinality(Node)
<1>1. Cardinality(Node) \in Nat
  BY StackAssumption, FS_CardinalityType
<1>2. ASSUME NEW k \in 0..Cardinality(Node), c \in [1..k -> Node]
      PROVE  c \in Seq(Node) /\ Len(c) <= Cardinality(Node)
  BY <1>1, <1>2
<1>3. ASSUME c \in Seq(Node), Len(c) <= Cardinality(Node)
      PROVE  \E k \in 0..Cardinality(Node) : c \in [1..k -> Node]
  <2>1. Len(c) \in 0..Cardinality(Node) /\ c \in [1..Len(c) -> Node]
    BY <1>1, <1>3
  <2>. QED  BY <2>1
<1>. QED  BY <1>2, <1>3

\* A short sequence that is linked from mHead is Chain, before and after a step.
LEMMA ChainIs ==
  ASSUME NEW c \in Seq(Node), Len(c) <= Cardinality(Node)
  PROVE  /\ Links(c, head.Node, next) => Chain = c
         /\ Links(c, head'.Node, next') => Chain' = c
<1> DEFINE Short == UNION {[1..k -> Node] : k \in 0..Cardinality(Node)}
<1>1. ASSUME NEW h, NEW nx, Links(c, h, nx)
      PROVE  (CHOOSE d \in Short : Links(d, h, nx)) = c
  <2>1. c \in Short
    BY ShortSeqs
  <2>2. ASSUME NEW d \in Short, Links(d, h, nx) PROVE d = c
    <3>1. d \in Seq(Node) /\ Len(c) \in Nat /\ Len(d) \in Nat
      BY ShortSeqs
    <3>2. Len(c) <= Len(d) \/ Len(d) <= Len(c)
      BY <3>1
    <3>. QED  BY <1>1, <2>2, <3>1, <3>2, LinksUnique
  <2> HIDE DEF Short
  <2>. QED  BY <1>1, <2>1, <2>2
<1>2. ASSUME Links(c, head.Node, next) PROVE Chain = c
  BY <1>1, <1>2 DEF Chain
<1>3. ASSUME Links(c, head'.Node, next') PROVE Chain' = c
  BY <1>1, <1>3 DEF Chain
<1>. QED  BY <1>2, <1>3

\* A chain with other links of other nodes, without its first node, and with
\* one more.
LEMMA LinksKept ==
  ASSUME NEW c \in Seq(Node), NEW h, NEW nx, NEW ny, Links(c, h, nx),
         \A i \in 1..Len(c) : ny[c[i]] = nx[c[i]]
  PROVE  Links(c, h, ny)
  BY DEF Links

LEMMA LinksTail ==
  ASSUME NEW c \in Seq(Node), NEW h, NEW nx, Links(c, h, nx), h # Null
  PROVE  /\ c # <<>> /\ Len(c) \in Nat \ {0} /\ h = c[1] /\ h \in Node
         /\ Tail(c) \in Seq(Node) /\ Len(Tail(c)) = Len(c) - 1
         /\ \A i \in 1..(Len(c) - 1) : Tail(c)[i] = c[i + 1]
         /\ Links(Tail(c), nx[h], nx)
<1>1. c # <<>> /\ h = c[1]
  BY DEF Links
<1>2. Len(c) \in Nat \ {0} /\ c[1] \in Node
  BY <1>1
<1>3. /\ Tail(c) \in Seq(Node) /\ Len(Tail(c)) = Len(c) - 1
      /\ \A i \in 1..(Len(c) - 1) : Tail(c)[i] = c[i + 1]
  BY <1>1, <1>2
<1> DEFINE d == Tail(c)
<1>3a. Len(d) = Len(c) - 1 /\ \A i \in 1..(Len(c) - 1) : d[i] = c[i + 1]
  BY <1>3, Zenon
<1>3b. d = <<>> <=> Len(c) = 1
  BY <1>2, <1>3
<1> HIDE DEF d
<1>4. nx[h] = IF d = <<>> THEN Null ELSE d[1]
  <2>1. nx[c[1]] = IF 1 = Len(c) THEN Null ELSE c[1 + 1]
    <3>1. 1 \in 1..Len(c)
      BY <1>2
    <3>. QED  BY <3>1 DEF Links
  <2>2. ASSUME Len(c) # 1 PROVE d[1] = c[1 + 1]
    <3>1. PICK k \in Nat : k = Len(c) /\ k # 0 /\ k # 1
      BY <1>2, <2>2
    <3>2. 1 \in 1..(k - 1)
      BY <3>1, SMT
    <3>. QED  BY <1>3a, <3>1, <3>2
  <2>. QED  BY <1>1, <1>3a, <1>3b, <2>1, <2>2
<1>5. ASSUME NEW i \in 1..Len(d)
      PROVE  nx[d[i]] = IF i = Len(d) THEN Null ELSE d[i + 1]
  <2>1. /\ Len(d) = Len(c) - 1 /\ i + 1 \in 1..Len(c) /\ d[i] = c[i + 1]
        /\ (i + 1 = Len(c) <=> i = Len(d))
    BY <1>2, <1>3a, <1>3b
  <2>2. ASSUME i # Len(d) PROVE d[i + 1] = c[(i + 1) + 1]
    <3>1. i + 1 \in 1..(Len(c) - 1)
      BY <1>2, <2>1, <2>2
    <3>. QED  BY <1>3a, <1>3b, <3>1
  <2>3. nx[c[i + 1]] = IF i + 1 = Len(c) THEN Null ELSE c[(i + 1) + 1]
    BY <2>1 DEF Links
  <2>. QED  BY <2>1, <2>2, <2>3
<1>6. Links(d, nx[h], nx)
  BY <1>4, <1>5 DEF Links
<1>. QED  BY <1>1, <1>2, <1>3, <1>6 DEF d

LEMMA LinksCons ==
  ASSUME NEW c \in Seq(Node), NEW h, NEW nx, Links(c, h, nx), NEW n \in Node, nx[n] = h
  PROVE  /\ <<n>> \o c \in Seq(Node) /\ Len(<<n>> \o c) = Len(c) + 1
         /\ (<<n>> \o c)[1] = n
         /\ \A i \in 1..Len(c) : (<<n>> \o c)[i + 1] = c[i]
         /\ Links(<<n>> \o c, n, nx)
<1>1. /\ <<n>> \o c \in Seq(Node) /\ Len(<<n>> \o c) = Len(c) + 1 /\ Len(c) \in Nat
      /\ (<<n>> \o c)[1] = n
      /\ \A i \in 1..Len(c) : (<<n>> \o c)[i + 1] = c[i]
  OBVIOUS
<1> DEFINE d == <<n>> \o c
<1>2. d # <<>>
  BY <1>1
<1> HIDE DEF d
<1>3. ASSUME NEW i \in 1..Len(d)
      PROVE  nx[d[i]] = IF i = Len(d) THEN Null ELSE d[i + 1]
  <2>1. CASE i = 1
    <3>1. d[1] = n /\ (Len(d) = 1 <=> c = <<>>)
      BY <1>1 DEF d
    <3>2. c # <<>> => d[1 + 1] = c[1]
      BY <1>1 DEF d
    <3>. QED  BY <2>1, <3>1, <3>2 DEF Links
  <2>2. CASE i # 1
    <3>1. PICK j \in 1..Len(c) : i = j + 1
      <4>1. i - 1 \in 1..Len(c) /\ i = (i - 1) + 1
        BY <1>1, <2>2 DEF d
      <4>. QED  BY <4>1
    <3>2. d[i] = c[j] /\ (i = Len(d) <=> j = Len(c))
      BY <1>1, <3>1 DEF d
    <3>3. j # Len(c) => j + 1 \in 1..Len(c) /\ d[i + 1] = c[j + 1]
      BY <1>1, <3>1 DEF d
    <3>4. nx[c[j]] = IF j = Len(c) THEN Null ELSE c[j + 1]
      BY DEF Links
    <3>. QED  BY <3>2, <3>3, <3>4
  <2>. QED  BY <2>1, <2>2
<1>4. Links(d, n, nx)
  BY <1>1, <1>2, <1>3 DEF Links, d
<1>. QED  BY <1>1, <1>4 DEF d

-----------------------------------------------------------------------------
(* Threads at labels. *)

PushLabel == {"push_node", "push_link", "push_cas"}
ClaimLabel == {"pop_uid", "pop_node", "pop_next", "pop_cas"}
Label == {"idle", "push_false", "push_rent", "push_count", "pop_restore", "pop_data"}
         \cup PushLabel \cup ClaimLabel
ReservedLabel == {"pop_uid", "pop_node", "pop_next", "pop_cas", "pop_restore", "push_count"}
HoldLabel == PushLabel \cup {"pop_data"}

\* The number of threads at given labels, of program counters p.
Count(p, labels) == Cardinality({t \in Thread : p[t] \in labels})

LEMMA CountIsNat ==
  ASSUME NEW p, NEW labels
  PROVE  Count(p, labels) \in Nat /\ IsFiniteSet({t \in Thread : p[t] \in labels})
<1>1. IsFiniteSet({t \in Thread : p[t] \in labels})
  BY StackAssumption, FS_Subset
<1>. QED  BY <1>1, FS_CardinalityType DEF Count

\* More labels, more threads.
LEMMA CountMore ==
  ASSUME NEW p, NEW A, NEW B, A \subseteq B
  PROVE  Count(p, A) <= Count(p, B)
<1> DEFINE at(L) == {t \in Thread : p[t] \in L}
<1>1. at(A) \in SUBSET at(B)
  OBVIOUS
<1>2. IsFiniteSet(at(B))
  BY CountIsNat
<1> HIDE DEF at
<1>3. Cardinality(at(A)) <= Cardinality(at(B))
  BY <1>1, <1>2, FS_Subset
<1>. QED  BY <1>3 DEF Count, at

\* What the step of one thread does to the number.
OnlyStepped(p, q, t, l) == q[t] = l /\ \A u \in Thread \ {t} : q[u] = p[u]

Moved(p, t, l, labels) ==
  Count(p, labels) + (IF l \in labels THEN 1 ELSE 0) - (IF p[t] \in labels THEN 1 ELSE 0)

LEMMA CountMoved ==
  ASSUME NEW p, NEW q, NEW t \in Thread, NEW l, NEW labels, OnlyStepped(p, q, t, l)
  PROVE  Count(q, labels) = Moved(p, t, l, labels)
<1> DEFINE P == {u \in Thread : p[u] \in labels}
           Q == {u \in Thread : q[u] \in labels}
<1>1. IsFiniteSet(P) /\ Cardinality(P) \in Nat
  BY CountIsNat, FS_CardinalityType
<1>2. Count(p, labels) = Cardinality(P) /\ Count(q, labels) = Cardinality(Q)
  BY DEF Count
<1>3. q[t] = l /\ \A u \in Thread \ {t} : q[u] = p[u]
  BY DEF OnlyStepped
<1>4. CASE l \in labels /\ p[t] \notin labels
  <2>1. Q = P \cup {t} /\ t \notin P
    BY <1>3, <1>4
  <2>2. Cardinality(Q) = Cardinality(P) + 1
    BY <1>1, <2>1, FS_AddElement
  <2>. QED  BY <1>1, <1>2, <1>4, <2>2 DEF Moved
<1>5. CASE l \notin labels /\ p[t] \in labels
  <2>1. Q = P \ {t} /\ t \in P
    BY <1>3, <1>5
  <2>2. Cardinality(P \ {t}) = Cardinality(P) - 1
    <3> HIDE DEF P
    <3>. QED  BY <1>1, <2>1, FS_RemoveElement
  <2>3. Cardinality(Q) = Cardinality(P) - 1
    BY <2>1, <2>2, Zenon
  <2>. QED  BY <1>1, <1>2, <1>5, <2>3 DEF Moved
<1>6. CASE l \in labels <=> p[t] \in labels
  <2>1. Q = P
    BY <1>3, <1>6
  <2>2. (IF l \in labels THEN 1 ELSE 0) = (IF p[t] \in labels THEN 1 ELSE 0)
    BY <1>6, Zenon
  <2>3. (IF l \in labels THEN 1 ELSE 0) \in {0, 1}
    OBVIOUS
  <2>4. Moved(p, t, l, labels) = Cardinality(P)
    BY <1>1, <1>2, <2>2, <2>3 DEF Moved
  <2>. QED  BY <1>2, <2>1, <2>4
<1>. QED  BY <1>4, <1>5, <1>6, Zenon

-----------------------------------------------------------------------------
(* The inductive invariant. *)

TypeInv ==
  /\ head \in Tagged
  /\ next \in [Node -> Pointer] /\ data \in [Node -> Value]
  /\ usedSize \in Int
  /\ pool \in SUBSET Node /\ outside \in SUBSET Value
  /\ pc \in [Thread -> Label] /\ val \in [Thread -> Value]
  /\ node \in [Thread -> Pointer]
  /\ snap \in [Thread -> Tagged] /\ snapNext \in [Thread -> Pointer]

\* The list comes to each node once, and then ends.
ChainInv ==
  /\ Chain \in Seq(Node) /\ Len(Chain) <= Cardinality(Node)
  /\ Links(Chain, head.Node, next)
  /\ \A i, j \in 1..Len(Chain) : Chain[i] = Chain[j] => i = j

\* The node a thread has in its hands, to be linked or to be returned.
Held(t) == IF pc[t] = "pop_data" THEN snap[t].Node ELSE node[t]

\* A node is in the pool, in the hands of one thread, or on the list.
NodeInv ==
  /\ \A t \in Thread : pc[t] \in HoldLabel =>
       /\ Held(t) \in Node /\ Held(t) \notin pool
       /\ \A i \in 1..Len(Chain) : Chain[i] # Held(t)
       /\ \A u \in Thread : pc[u] \in HoldLabel /\ Held(u) = Held(t) => u = t
  /\ \A i \in 1..Len(Chain) : Chain[i] \notin pool

\* The value a thread is about to push or has popped.
ValueLabel == {"push_rent", "push_node", "push_link", "push_cas", "pop_data"}
Carried(t) == IF pc[t] = "pop_data" THEN data[snap[t].Node] ELSE val[t]

\* A value is outside, carried by one thread, or on the list, once; a thread
\* that pushes has written it to its node.
ValueInv ==
  /\ \A t \in Thread : pc[t] \in ValueLabel =>
       /\ Carried(t) \notin outside
       /\ \A i \in 1..Len(Chain) : data[Chain[i]] # Carried(t)
       /\ \A u \in Thread : pc[u] \in ValueLabel /\ Carried(u) = Carried(t) => u = t
  /\ \A i \in 1..Len(Chain) : data[Chain[i]] \notin outside
  /\ \A i, j \in 1..Len(Chain) : data[Chain[i]] = data[Chain[j]] => i = j
  /\ \A t \in Thread : pc[t] \in PushLabel => data[node[t]] = val[t]

\* As for the pool: a snapshot is never from the future, so that a head that
\* equals it has not changed since.
SnapOf(t) ==
  /\ snap[t].UID <= head.UID
  /\ pc[t] \in {"pop_next", "pop_cas"} => snap[t].Node # Null
  /\ pc[t] = "pop_cas" /\ snap[t] = head => snapNext[t] = next[head.Node]
  /\ pc[t] = "push_cas" => next[node[t]] = snap[t].Node

SnapInv == \A t \in Thread : SnapOf(t)

\* The size is exact; there is a node for every thread with a claim and for
\* every push not counted yet; no node is lost.
CountInv ==
  /\ usedSize = Len(Chain) - Count(pc, ReservedLabel)
  /\ Count(pc, ClaimLabel) + Count(pc, {"push_count"}) <= Len(Chain)
  /\ Len(Chain) + Cardinality(pool) + Count(pc, HoldLabel) = Cardinality(Node)

IInv == TypeInv /\ ChainInv /\ NodeInv /\ ValueInv /\ SnapInv /\ CountInv

\* The abstract stack and the values outside it.
AbsStack == [i \in 1..Len(Chain) |-> data[Chain[i]]]
AbsOutside == outside \cup {val[t] : t \in {u \in Thread : Pushing(u)}}
                      \cup {data[snap[t].Node] : t \in {u \in Thread : pc[u] = "pop_data"}}

LEMMA InAbsOutside ==
  ASSUME NEW v
  PROVE  /\ v \in AbsOutside <=>
              v \in outside \/ \E t \in Thread : pc[t] \in ValueLabel /\ Carried(t) = v
         /\ v \in AbsOutside' <=>
              v \in outside' \/ \E t \in Thread : pc'[t] \in ValueLabel /\ Carried(t)' = v
<1>1. v \in AbsOutside <=>
        v \in outside \/ \E t \in Thread : pc[t] \in ValueLabel /\ Carried(t) = v
  BY DEF AbsOutside, Pushing, ValueLabel, Carried
<1>2. v \in AbsOutside' <=>
        v \in outside' \/ \E t \in Thread : pc'[t] \in ValueLabel /\ Carried(t)' = v
  BY DEF AbsOutside, Pushing, ValueLabel, Carried
<1>. QED  BY <1>1, <1>2

-----------------------------------------------------------------------------
(* Types. *)

LEMMA InitType == Init => TypeInv
<1>1. (CHOOSE v \in Value : TRUE) \in Value
  BY StackAssumption
<1>. QED  BY <1>1 DEF Init, TypeInv, Pointer, Tagged, Label

LEMMA TypeStep == TypeInv /\ NodeInv /\ [Next]_vars => TypeInv'
<1> SUFFICES ASSUME TypeInv, NodeInv, [Next]_vars PROVE TypeInv'
  OBVIOUS
<1> USE DEF TypeInv, Goto, Label, PushLabel, ClaimLabel
<1>1. ASSUME NEW t \in Thread, NEW v \in Value, PushCheck(t, v) PROVE TypeInv'
  BY <1>1 DEF PushCheck
<1>2. ASSUME NEW t \in Thread, PushRefused(t) \/ PushCount(t) \/ PopReserve(t) \/ PopRestore(t)
      PROVE  TypeInv'
  BY <1>2 DEF PushRefused, PushCount, PopReserve, PopRestore
<1>3. ASSUME NEW t \in Thread, PushRent(t) PROVE TypeInv'
  <2>1. [snap[t] EXCEPT !.UID = head.UID] \in Tagged
    BY DEF Tagged
  <2>2. PICK n \in pool : /\ pool' = pool \ {n}
                          /\ node' = [node EXCEPT ![t] = n]
                          /\ data' = [data EXCEPT ![n] = val[t]]
    BY <1>3 DEF PushRent
  <2>3. n \in Node /\ n \in Pointer
    BY DEF Pointer
  <2>. QED  BY <1>3, <2>1, <2>2, <2>3 DEF PushRent
<1>4. ASSUME NEW t \in Thread, PushNode(t) \/ PopNode(t) PROVE TypeInv'
  <2>1. [snap[t] EXCEPT !.Node = head.Node] \in Tagged
    BY DEF Tagged
  <2>. QED  BY <1>4, <2>1 DEF PushNode, PopNode
<1>5. ASSUME NEW t \in Thread, PopUid(t) PROVE TypeInv'
  <2>1. [snap[t] EXCEPT !.UID = head.UID] \in Tagged
    BY DEF Tagged
  <2>. QED  BY <1>5, <2>1 DEF PopUid
<1>6. ASSUME NEW t \in Thread, PushLink(t) PROVE TypeInv'
  <2>1. snap[t].Node \in Pointer
    BY DEF Tagged
  <2>. QED  BY <1>6, <2>1 DEF PushLink
<1>7. ASSUME NEW t \in Thread, PushCas(t) PROVE TypeInv'
  <2>1. [UID |-> snap[t].UID + 1, Node |-> node[t]] \in Tagged
    BY DEF Tagged
  <2>. QED  BY <1>7, <2>1 DEF PushCas
<1>8. ASSUME NEW t \in Thread, PopNext(t) PROVE TypeInv'
  <2>1. next[snap[t].Node] \in Pointer
    BY <1>8 DEF PopNext, Tagged, Pointer
  <2>. QED  BY <1>8, <2>1 DEF PopNext
<1>9. ASSUME NEW t \in Thread, PopCas(t) PROVE TypeInv'
  <2>1. [UID |-> snap[t].UID + 1, Node |-> snapNext[t]] \in Tagged
    BY DEF Tagged
  <2>. QED  BY <1>9, <2>1 DEF PopCas
<1>10. ASSUME NEW t \in Thread, PopData(t) PROVE TypeInv'
  <2>1. snap[t].Node \in Node
    BY <1>10 DEF PopData, NodeInv, Held, HoldLabel
  <2>. QED  BY <1>10, <2>1 DEF PopData
<1>11. CASE UNCHANGED vars
  BY <1>11 DEF vars, regVars
<1>. QED
  BY <1>1, <1>2, <1>3, <1>4, <1>5, <1>6, <1>7, <1>8, <1>9, <1>10, <1>11 DEF Next, Continue

-----------------------------------------------------------------------------
(* What steps keep. *)

\* A chain whose nodes nobody wrote to, and whose head stays, is the same chain.
LEMMA ChainKept ==
  ASSUME ChainInv, head' = head, \A i \in 1..Len(Chain) : next'[Chain[i]] = next[Chain[i]]
  PROVE  Chain' = Chain /\ ChainInv'
<1>1. PICK c : c = Chain
  OBVIOUS
<1>2. /\ c \in Seq(Node) /\ Len(c) <= Cardinality(Node) /\ Links(c, head.Node, next)
      /\ \A i, j \in 1..Len(c) : c[i] = c[j] => i = j
      /\ \A i \in 1..Len(c) : next'[c[i]] = next[c[i]]
  BY <1>1 DEF ChainInv
<1>3. Links(c, head'.Node, next')
  BY <1>2 DEF Links
<1>4. Chain' = c
  BY <1>2, <1>3, ChainIs
<1>5. ChainInv'
  BY <1>2, <1>3, <1>4 DEF ChainInv
<1>. QED  BY <1>1, <1>4, <1>5

\* The owners of nodes and values stay, and so does the abstract stack, if none
\* of them moves.
LEMMA OwnersKept ==
  ASSUME NodeInv, ValueInv, Chain' = Chain, pool' = pool, outside' = outside, data' = data,
         node' = node, val' = val,
         \A u \in Thread : /\ pc'[u] \in HoldLabel => pc[u] \in HoldLabel /\ Held(u)' = Held(u)
                           /\ pc'[u] \in ValueLabel <=> pc[u] \in ValueLabel
                           /\ pc'[u] \in ValueLabel => Carried(u)' = Carried(u)
                           /\ pc'[u] \in PushLabel => pc[u] \in PushLabel
  PROVE  /\ NodeInv' /\ ValueInv'
         /\ AbsStack' = AbsStack /\ AbsOutside' = AbsOutside
<1>1. NodeInv'
  BY DEF NodeInv
<1>2. ValueInv'
  BY DEF ValueInv
<1>3. AbsOutside' = AbsOutside
  <2> SUFFICES ASSUME NEW v PROVE v \in AbsOutside' <=> v \in AbsOutside
    OBVIOUS
  <2>. QED  BY InAbsOutside
<1>4. AbsStack' = AbsStack
  BY DEF AbsStack
<1>. QED  BY <1>1, <1>2, <1>3, <1>4

\* The threads that did not move keep their snapshots if the head stayed or
\* went on, and nobody wrote to the first node or to theirs.
LEMMA SnapsKept ==
  ASSUME SnapInv, TypeInv, TypeInv', NEW t \in Thread,
         \A u \in Thread \ {t} : /\ pc'[u] = pc[u] /\ snap'[u] = snap[u]
                                 /\ snapNext'[u] = snapNext[u] /\ node'[u] = node[u],
         \/ head' = head /\ (head.Node # Null => next'[head.Node] = next[head.Node])
         \/ head'.UID > head.UID,
         \A u \in Thread \ {t} : pc[u] = "push_cas" => next'[node[u]] = next[node[u]],
         SnapOf(t)'
  PROVE  SnapInv'
<1> SUFFICES ASSUME NEW u \in Thread \ {t} PROVE SnapOf(u)'
  BY DEF SnapInv
<1>1. SnapOf(u)
  BY DEF SnapInv
<1>2. /\ snap[u] \in Tagged /\ head \in Tagged /\ head' \in Tagged
      /\ snap[u].UID \in Nat /\ head.UID \in Nat /\ head'.UID \in Nat
  BY DEF TypeInv, Tagged
<1>3. snap[u].UID <= head'.UID
  BY <1>1, <1>2 DEF SnapOf
<1>4. ASSUME pc[u] = "pop_cas", snap[u] = head' PROVE snapNext[u] = next'[head'.Node]
  <2>1. head' = head
    BY <1>1, <1>2, <1>4 DEF SnapOf
  <2>2. head.Node # Null
    BY <1>1, <1>4, <2>1 DEF SnapOf
  <2>3. next'[head.Node] = next[head.Node]
    BY <1>2, <2>1, <2>2
  <2>. QED  BY <1>1, <1>4, <2>1, <2>3 DEF SnapOf
<1>. QED  BY <1>1, <1>3, <1>4 DEF SnapOf

\* The program counters after the step of one thread, and the numbers of
\* threads at labels.
LEMMA Stepped ==
  ASSUME TypeInv, NEW t \in Thread, NEW l, Goto(t, l)
  PROVE  /\ pc'[t] = l /\ \A u \in Thread \ {t} : pc'[u] = pc[u]
         /\ \A labels : /\ Count(pc, labels) \in Nat /\ Count(pc', labels) \in Nat
                        /\ Count(pc', labels) = Moved(pc, t, l, labels)
<1>1. pc'[t] = l /\ \A u \in Thread \ {t} : pc'[u] = pc[u]
  BY DEF TypeInv, Goto
<1>2. PICK p, q : p = pc /\ q = pc'
  OBVIOUS
<1>3. OnlyStepped(p, q, t, l)
  BY <1>1, <1>2 DEF OnlyStepped
<1>4. \A labels : Count(q, labels) = Moved(p, t, l, labels)
  BY <1>3, CountMoved
<1>5. \A labels : Count(p, labels) \in Nat /\ Count(q, labels) \in Nat
  BY CountIsNat
<1>. QED  BY <1>1, <1>2, <1>4, <1>5

\* The first node of the chain.
LEMMA FirstNode ==
  ASSUME TypeInv, ChainInv
  PROVE  /\ Len(Chain) \in Nat
         /\ head.Node # Null => Len(Chain) > 0 /\ head.Node = Chain[1] /\ head.Node \in Node
         /\ Len(Chain) > 0 => head.Node # Null
<1>1. PICK c, h : c = Chain /\ h = head.Node
  OBVIOUS
<1>2. /\ c \in Seq(Node) /\ Links(c, h, next)
  BY <1>1 DEF ChainInv
<1>3. Len(c) \in Nat /\ (c = <<>> <=> Len(c) = 0) /\ \A i \in 1..Len(c) : c[i] \in Node
  BY <1>2
<1>4. h # Null => Len(c) > 0 /\ h = c[1] /\ h \in Node
  BY <1>2, <1>3 DEF Links
<1>5. Len(c) > 0 => h # Null
  BY <1>2, <1>3, StackAssumption DEF Links
<1>. QED  BY <1>1, <1>3, <1>4, <1>5

-----------------------------------------------------------------------------
(* The steps that change neither list nor owners. *)

AbsKept == AbsStack' = AbsStack /\ AbsOutside' = AbsOutside

\* A thread with a claim finds a node: there are as many as claims.
LEMMA ClaimFindsNode ==
  ASSUME IInv, NEW t \in Thread, pc[t] \in ClaimLabel
  PROVE  head.Node # Null
<1> USE DEF IInv
<1>1. Count(pc, ClaimLabel) \in Nat /\ Count(pc, {"push_count"}) \in Nat
  BY CountIsNat
<1>2. Count(pc, ClaimLabel) # 0
  <2>1. IsFiniteSet({u \in Thread : pc[u] \in ClaimLabel})
    BY CountIsNat
  <2>. QED  BY <2>1, FS_EmptySet DEF Count
<1>. QED  BY <1>1, <1>2, FirstNode DEF CountInv

\* A step inside the loops, before the exchange that ends them succeeds: only
\* the snapshot and the link of the own node change.
LEMMA QuietStep ==
  ASSUME IInv, TypeInv', NEW t \in Thread, NEW l, Goto(t, l),
         \/ pc[t] \in ClaimLabel /\ l \in ClaimLabel /\ next' = next
         \/ /\ pc[t] \in PushLabel /\ l \in PushLabel
            /\ \A n \in Node \ {node[t]} : next'[n] = next[n],
         UNCHANGED <<head, data, usedSize, pool, val, node, outside>>,
         \A u \in Thread \ {t} : snap'[u] = snap[u] /\ snapNext'[u] = snapNext[u],
         SnapOf(t)'
  PROVE  IInv' /\ AbsKept
<1> USE DEF IInv
<1>1. /\ pc'[t] = l /\ \A u \in Thread \ {t} : pc'[u] = pc[u]
      /\ \A labels : /\ Count(pc, labels) \in Nat /\ Count(pc', labels) \in Nat
                     /\ Count(pc', labels) = Moved(pc, t, l, labels)
  BY Stepped
<1>2. \A n \in Node : pc[t] \notin PushLabel \/ n # node[t] => next'[n] = next[n]
  OBVIOUS
<1>3. pc[t] \in PushLabel => pc[t] \in HoldLabel /\ Held(t) = node[t]
  BY DEF HoldLabel, PushLabel, Held
<1>4. Chain' = Chain /\ ChainInv'
  <2>1. \A i \in 1..Len(Chain) : Chain[i] \in Node
    BY DEF ChainInv
  <2>2. \A i \in 1..Len(Chain) : next'[Chain[i]] = next[Chain[i]]
    BY <1>2, <1>3, <2>1 DEF NodeInv
  <2>. QED  BY <2>2, ChainKept
<1>5. NodeInv' /\ ValueInv' /\ AbsKept
  <2>1. ASSUME NEW u \in Thread
        PROVE  /\ pc'[u] \in HoldLabel => pc[u] \in HoldLabel /\ Held(u)' = Held(u)
               /\ pc'[u] \in ValueLabel <=> pc[u] \in ValueLabel
               /\ pc'[u] \in ValueLabel => Carried(u)' = Carried(u)
               /\ pc'[u] \in PushLabel => pc[u] \in PushLabel
    <3>1. CASE u = t
      BY <1>1, <3>1 DEF HoldLabel, PushLabel, ClaimLabel, ValueLabel, Held, Carried
    <3>2. CASE u # t
      BY <1>1, <3>2 DEF Held, Carried
    <3>. QED  BY <3>1, <3>2
  <2>. QED  BY <1>4, <2>1, OwnersKept DEF AbsKept
<1>6. SnapInv'
  <2>1. head.Node # Null => next'[head.Node] = next[head.Node]
    <3>1. head.Node # Null => head.Node \in Node /\ 1 \in 1..Len(Chain) /\ head.Node = Chain[1]
      BY FirstNode
    <3>. QED  BY <1>2, <1>3, <3>1 DEF NodeInv
  <2>2. ASSUME NEW u \in Thread \ {t}, pc[u] = "push_cas"
        PROVE  next'[node[u]] = next[node[u]]
    <3>1. pc[u] \in HoldLabel /\ Held(u) = node[u]
      BY <2>2 DEF HoldLabel, PushLabel, Held
    <3>2. node[u] \in Node /\ (pc[t] \in PushLabel => node[u] # node[t])
      BY <1>3, <3>1 DEF NodeInv
    <3>. QED  BY <1>2, <3>2
  <2>. QED  BY <1>1, <2>1, <2>2, SnapsKept
<1>7. CountInv'
  <2>1. /\ Count(pc', ReservedLabel) = Count(pc, ReservedLabel)
        /\ Count(pc', ClaimLabel) = Count(pc, ClaimLabel)
        /\ Count(pc', {"push_count"}) = Count(pc, {"push_count"})
        /\ Count(pc', HoldLabel) = Count(pc, HoldLabel)
    BY <1>1 DEF Moved, ReservedLabel, ClaimLabel, HoldLabel, PushLabel
  <2>. QED  BY <1>4, <2>1 DEF CountInv
<1>. QED  BY <1>4, <1>5, <1>6, <1>7

\* The reads and the failing exchange of TryPop.
LEMMA PopReads ==
  ASSUME IInv, TypeInv', NEW t \in Thread,
         PopUid(t) \/ PopNode(t) \/ PopNext(t) \/ (PopCas(t) /\ head # snap[t])
  PROVE  IInv' /\ AbsKept
<1> DEFINE l == IF pc[t] = "pop_uid" THEN "pop_node"
                ELSE IF pc[t] = "pop_next" THEN "pop_cas" ELSE "pop_next"
<1>1. /\ pc[t] \in ClaimLabel /\ l \in ClaimLabel /\ Goto(t, l)
      /\ UNCHANGED <<head, next, data, usedSize, pool, val, node, outside>>
  BY DEF PopUid, PopNode, PopNext, PopCas, ClaimLabel, Goto
<1>2. \A u \in Thread \ {t} : snap'[u] = snap[u] /\ snapNext'[u] = snapNext[u]
  BY DEF PopUid, PopNode, PopNext, PopCas, IInv, TypeInv
<1>3. pc'[t] = l
  BY <1>1, Stepped DEF IInv
<1>4. head.Node # Null
  BY <1>1, ClaimFindsNode
<1>5. SnapOf(t) /\ snap[t].UID \in Nat /\ head.UID \in Nat /\ head \in Tagged
  BY DEF IInv, SnapInv, TypeInv, Tagged
<1>6. SnapOf(t)'
  <2>1. CASE PopUid(t)
    <3>1. snap'[t].UID = head.UID
      BY <2>1 DEF PopUid, IInv, TypeInv, Tagged
    <3>. QED  BY <1>1, <1>3, <1>5, <2>1, <3>1 DEF PopUid, SnapOf
  <2>2. CASE PopNode(t)
    <3>1. snap'[t].Node = head.Node /\ snap'[t].UID = snap[t].UID
      BY <2>2 DEF PopNode, IInv, TypeInv, Tagged
    <3>. QED  BY <1>1, <1>3, <1>4, <1>5, <2>2, <3>1 DEF PopNode, SnapOf
  <2>3. CASE PopNext(t)
    <3>1. snap'[t] = snap[t] /\ snapNext'[t] = next[snap[t].Node]
      BY <2>3 DEF PopNext, IInv, TypeInv
    <3>. QED  BY <1>1, <1>3, <1>5, <2>3, <3>1 DEF PopNext, SnapOf
  <2>4. CASE PopCas(t) /\ head # snap[t]
    <3>1. snap'[t] = head
      BY <2>4 DEF PopCas, IInv, TypeInv
    <3>. QED  BY <1>1, <1>3, <1>4, <1>5, <2>4, <3>1 DEF PopCas, SnapOf
  <2>. QED  BY <2>1, <2>2, <2>3, <2>4
<1>. QED  BY <1>1, <1>2, <1>6, QuietStep

\* The read, the link and the failing exchange of Push.
LEMMA PushReads ==
  ASSUME IInv, TypeInv', NEW t \in Thread,
         PushNode(t) \/ PushLink(t) \/ (PushCas(t) /\ head # snap[t])
  PROVE  IInv' /\ AbsKept
<1> DEFINE l == IF pc[t] = "push_link" THEN "push_cas" ELSE "push_link"
<1>1. /\ pc[t] \in PushLabel /\ l \in PushLabel /\ Goto(t, l)
      /\ UNCHANGED <<head, data, usedSize, pool, val, node, outside, snapNext>>
  BY DEF PushNode, PushLink, PushCas, PushLabel, Goto
<1>2. /\ \A u \in Thread \ {t} : snap'[u] = snap[u]
      /\ \A n \in Node \ {node[t]} : next'[n] = next[n]
  BY DEF PushNode, PushLink, PushCas, IInv, TypeInv
<1>3. pc'[t] = l
  BY <1>1, Stepped DEF IInv
<1>4. SnapOf(t) /\ snap[t].UID \in Nat /\ head.UID \in Nat /\ head \in Tagged
  BY DEF IInv, SnapInv, TypeInv, Tagged
<1>5. SnapOf(t)'
  <2>1. CASE PushNode(t)
    <3>1. snap'[t].UID = snap[t].UID
      BY <2>1 DEF PushNode, IInv, TypeInv, Tagged
    <3>. QED  BY <1>1, <1>3, <1>4, <2>1, <3>1 DEF PushNode, SnapOf
  <2>2. CASE PushLink(t)
    <3>1. node[t] \in Node
      BY <1>1 DEF IInv, NodeInv, Held, HoldLabel, PushLabel
    <3>2. snap' = snap /\ next'[node[t]] = snap[t].Node
      BY <2>2, <3>1 DEF PushLink, IInv, TypeInv
    <3>. QED  BY <1>1, <1>3, <1>4, <2>2, <3>2 DEF PushLink, SnapOf
  <2>3. CASE PushCas(t) /\ head # snap[t]
    <3>1. snap'[t] = head
      BY <2>3 DEF PushCas, IInv, TypeInv
    <3>. QED  BY <1>1, <1>3, <1>4, <2>3, <3>1 DEF PushCas, SnapOf
  <2>. QED  BY <2>1, <2>2, <2>3
<1>. QED  BY <1>1, <1>2, <1>5, QuietStep

\* What remains to be shown of a step that changes the size or the label only.
LEMMA CounterStep ==
  ASSUME IInv, TypeInv', NEW t \in Thread, NEW l, Goto(t, l),
         pc[t] \notin HoldLabel \cup ValueLabel,
         l \notin HoldLabel \cup ValueLabel \cup {"pop_next", "pop_cas"},
         UNCHANGED <<head, next, data, pool, val, node, snap, snapNext, outside>>,
         /\ usedSize' = Len(Chain) - Count(pc', ReservedLabel)
         /\ Count(pc', ClaimLabel) + Count(pc', {"push_count"}) <= Len(Chain)
  PROVE  IInv' /\ AbsKept
<1> USE DEF IInv
<1>1. /\ pc'[t] = l /\ \A u \in Thread \ {t} : pc'[u] = pc[u]
      /\ \A labels : /\ Count(pc, labels) \in Nat /\ Count(pc', labels) \in Nat
                     /\ Count(pc', labels) = Moved(pc, t, l, labels)
  BY Stepped
<1>2. Chain' = Chain /\ ChainInv'
  BY ChainKept
<1>3. NodeInv' /\ ValueInv' /\ AbsKept
  <2>1. ASSUME NEW u \in Thread
        PROVE  /\ pc'[u] \in HoldLabel => pc[u] \in HoldLabel /\ Held(u)' = Held(u)
               /\ pc'[u] \in ValueLabel <=> pc[u] \in ValueLabel
               /\ pc'[u] \in ValueLabel => Carried(u)' = Carried(u)
               /\ pc'[u] \in PushLabel => pc[u] \in PushLabel
    <3>1. CASE u = t
      BY <1>1, <3>1 DEF HoldLabel
    <3>2. CASE u # t
      BY <1>1, <3>2 DEF Held, Carried
    <3>. QED  BY <3>1, <3>2
  <2>. QED  BY <1>2, <2>1, OwnersKept DEF AbsKept
<1>4. SnapInv'
  <2>1. SnapOf(t)'
    BY <1>1 DEF SnapOf, SnapInv, HoldLabel, PushLabel
  <2>. QED  BY <1>1, <2>1, SnapsKept
<1>5. Count(pc', HoldLabel) = Count(pc, HoldLabel)
  <2>1. /\ Count(pc, HoldLabel) \in Nat /\ l \notin HoldLabel /\ pc[t] \notin HoldLabel
        /\ Count(pc', HoldLabel) = Moved(pc, t, l, HoldLabel)
    BY <1>1
  <2>. QED  BY <2>1 DEF Moved
<1>. QED  BY <1>2, <1>3, <1>4, <1>5 DEF CountInv

-----------------------------------------------------------------------------
(* The steps that change the size. *)

\* Threads at labels of two kinds.
LEMMA CountApart ==
  ASSUME NEW p, NEW A, NEW B, NEW C, A \cap B = {}, A \cup B \subseteq C
  PROVE  Count(p, A) + Count(p, B) <= Count(p, C)
<1> DEFINE at(L) == {t \in Thread : p[t] \in L}
<1>1. at(A) \cap at(B) = {} /\ at(A \cup B) = at(A) \cup at(B)
  OBVIOUS
<1>2. IsFiniteSet(at(A)) /\ IsFiniteSet(at(B))
  BY CountIsNat
<1>3. Count(p, A \cup B) <= Count(p, C)
  BY CountMore
<1>4. Count(p, A) = Cardinality(at(A)) /\ Count(p, B) = Cardinality(at(B))
      /\ Count(p, A \cup B) = Cardinality(at(A \cup B))
  BY DEF Count
<1> HIDE DEF at
<1>5. Cardinality(at(A) \cup at(B)) =
        Cardinality(at(A)) + Cardinality(at(B)) - Cardinality(at(A) \cap at(B))
  BY <1>2, FS_Union
<1>6. Cardinality(at(A) \cap at(B)) = 0
  BY <1>1, FS_EmptySet
<1>7. Cardinality(at(A)) \in Nat /\ Cardinality(at(B)) \in Nat
  BY <1>2, FS_CardinalityType
<1>8. PICK x, y \in Nat : x = Cardinality(at(A)) /\ y = Cardinality(at(B))
  BY <1>7
<1>9. Cardinality(at(A \cup B)) = x + y
  <2>1. x + y - 0 = x + y
    OBVIOUS
  <2>2. Cardinality(at(A \cup B)) = x + y - 0
    BY <1>1, <1>5, <1>6, <1>8, Zenon
  <2>. QED  BY <2>1, <2>2
<1>. QED  BY <1>3, <1>4, <1>8, <1>9

\* The two numbers of CountInv after a step to label l.
LEMMA SizeStep ==
  ASSUME IInv, NEW t \in Thread, NEW l \in {"idle", "push_false", "pop_restore", "pop_uid"},
         pc[t] \in {"idle", "push_false", "pop_restore", "push_count"}, Goto(t, l),
         l = "pop_uid" => pc[t] = "idle" /\ usedSize - 1 >= 0,
         usedSize' = usedSize + (IF pc[t] \in ReservedLabel THEN 1 ELSE 0)
                              - (IF l \in ReservedLabel THEN 1 ELSE 0)
  PROVE  /\ usedSize' = Len(Chain) - Count(pc', ReservedLabel)
         /\ Count(pc', ClaimLabel) + Count(pc', {"push_count"}) <= Len(Chain)
<1> USE DEF IInv
<1>1. \A labels : /\ Count(pc, labels) \in Nat /\ Count(pc', labels) \in Nat
                  /\ Count(pc', labels) = Moved(pc, t, l, labels)
  BY Stepped
<1>2. PICK r, c, u, n \in Int : /\ r = Count(pc, ReservedLabel) /\ c = Count(pc, ClaimLabel)
                                /\ u = Count(pc, {"push_count"}) /\ n = Len(Chain)
  <2>1. /\ Count(pc, ReservedLabel) \in Int /\ Count(pc, ClaimLabel) \in Int
        /\ Count(pc, {"push_count"}) \in Int /\ Len(Chain) \in Int
    BY <1>1, FirstNode
  <2>. QED  BY <2>1, Zenon
<1>3. /\ Count(pc', ReservedLabel) = r + (IF l \in ReservedLabel THEN 1 ELSE 0)
                                       - (IF pc[t] \in ReservedLabel THEN 1 ELSE 0)
      /\ Count(pc', ClaimLabel) = c + (IF l = "pop_uid" THEN 1 ELSE 0)
      /\ Count(pc', {"push_count"}) = u - (IF pc[t] = "push_count" THEN 1 ELSE 0)
  <2>1. Count(pc', ReservedLabel) = r + (IF l \in ReservedLabel THEN 1 ELSE 0)
                                      - (IF pc[t] \in ReservedLabel THEN 1 ELSE 0)
    BY <1>1, <1>2 DEF Moved
  <2>2. l \in ClaimLabel <=> l = "pop_uid"
    BY DEF ClaimLabel
  <2>3. pc[t] \notin ClaimLabel /\ l \notin {"push_count"}
    BY DEF ClaimLabel
  <2>3a. pc[t] \in {"push_count"} <=> pc[t] = "push_count"
    OBVIOUS
  <2>4. Count(pc', ClaimLabel) = c + (IF l = "pop_uid" THEN 1 ELSE 0)
    <3>1. Count(pc', ClaimLabel) = Moved(pc, t, l, ClaimLabel)
      BY <1>1
    <3>. QED  BY <1>2, <2>2, <2>3, <3>1 DEF Moved
  <2>5. Count(pc', {"push_count"}) = u - (IF pc[t] = "push_count" THEN 1 ELSE 0)
    <3>1. Count(pc', {"push_count"}) = Moved(pc, t, l, {"push_count"})
      BY <1>1
    <3>. QED  BY <1>2, <2>3, <2>3a, <3>1 DEF Moved
  <2>. QED  BY <2>1, <2>4, <2>5
<1>4. usedSize = n - r /\ c + u <= n /\ c + u <= r /\ usedSize \in Int
  <2>1. ClaimLabel \cap {"push_count"} = {} /\ ClaimLabel \cup {"push_count"} \subseteq ReservedLabel
    BY DEF ClaimLabel, ReservedLabel
  <2>2. Count(pc, ClaimLabel) + Count(pc, {"push_count"}) <= Count(pc, ReservedLabel)
    BY <2>1, CountApart
  <2>. QED  BY <1>2, <2>2 DEF CountInv, TypeInv
<1>5. usedSize' = n - Count(pc', ReservedLabel)
  <2>1. PICK a, b \in Int : /\ a = (IF l \in ReservedLabel THEN 1 ELSE 0)
                            /\ b = (IF pc[t] \in ReservedLabel THEN 1 ELSE 0)
    OBVIOUS
  <2>2. Count(pc', ReservedLabel) = r + a - b /\ usedSize' = usedSize + b - a
    BY <1>3, <2>1
  <2>. QED  BY <1>4, <2>2
<1>6. Count(pc', ClaimLabel) + Count(pc', {"push_count"}) <= n
  <2>1. CASE l = "pop_uid"
    BY <1>3, <1>4, <2>1
  <2>2. CASE l # "pop_uid"
    BY <1>3, <1>4, <2>2
  <2>. QED  BY <2>1, <2>2
<1>. QED  BY <1>2, <1>5, <1>6

\* A refused push, the count of a push, and TryPop's reservation.
LEMMA SizeSteps ==
  ASSUME IInv, TypeInv', NEW t \in Thread,
         \/ PushRefused(t) \/ PushCount(t) \/ PopReserve(t) \/ PopRestore(t)
         \/ \E v \in Value : PushCheck(t, v) /\ (usedSize < 0 \/ usedSize > MaxCapacity)
  PROVE  IInv' /\ AbsKept
<1> DEFINE l == IF pc[t] = "idle"
                THEN IF usedSize' = usedSize THEN "push_false"
                     ELSE IF usedSize - 1 < 0 THEN "pop_restore" ELSE "pop_uid"
                ELSE "idle"
<1>1. usedSize \in Int
  BY DEF IInv, TypeInv
<1>2. /\ pc[t] \in {"idle", "push_false", "pop_restore", "push_count"}
      /\ UNCHANGED <<head, next, data, pool, val, node, snap, snapNext, outside>>
      /\ usedSize' = IF pc[t] = "idle" THEN IF l = "push_false" THEN usedSize ELSE usedSize - 1
                     ELSE IF pc[t] = "push_false" THEN usedSize ELSE usedSize + 1
      /\ Goto(t, l)
  BY <1>1 DEF PushRefused, PushCount, PopReserve, PopRestore, PushCheck, Goto
<1>3. /\ l \in {"idle", "push_false", "pop_restore", "pop_uid"}
      /\ l \in {"push_false", "pop_restore", "pop_uid"} <=> pc[t] = "idle"
      /\ l = "pop_uid" => usedSize - 1 >= 0
  BY <1>1, <1>2
<1> HIDE DEF l
<1>4. usedSize' = usedSize + (IF pc[t] \in ReservedLabel THEN 1 ELSE 0)
                           - (IF l \in ReservedLabel THEN 1 ELSE 0)
  <2>1. /\ pc[t] \in ReservedLabel <=> pc[t] \in {"pop_restore", "push_count"}
        /\ l \in ReservedLabel <=> l \in {"pop_restore", "pop_uid"}
    BY <1>2, <1>3 DEF ReservedLabel
  <2>. QED  BY <1>1, <1>2, <1>3, <2>1
<1>5. /\ usedSize' = Len(Chain) - Count(pc', ReservedLabel)
      /\ Count(pc', ClaimLabel) + Count(pc', {"push_count"}) <= Len(Chain)
  BY <1>2, <1>3, <1>4, SizeStep
<1>6. /\ pc[t] \notin HoldLabel \cup ValueLabel
      /\ l \notin HoldLabel \cup ValueLabel \cup {"pop_next", "pop_cas"}
  BY <1>2, <1>3 DEF HoldLabel, PushLabel, ValueLabel
<1>. QED  BY <1>2, <1>5, <1>6, CounterStep

-----------------------------------------------------------------------------
(* The steps that hand over a value or a node. *)

\* The values outside, for callers and inside calls, stay when one moves from
\* the callers into a call or back.
LEMMA AcceptStep ==
  ASSUME IInv, TypeInv', NEW t \in Thread, NEW v \in Value, PushCheck(t, v),
         ~(usedSize < 0 \/ usedSize > MaxCapacity)
  PROVE  IInv' /\ AbsKept
<1> USE DEF IInv
<1>1. /\ pc[t] = "idle" /\ v \in outside /\ Goto(t, "push_rent")
      /\ outside' = outside \ {v}
      /\ UNCHANGED <<head, next, data, usedSize, pool, node, snap, snapNext>>
  BY DEF PushCheck
<1>2. /\ pc'[t] = "push_rent" /\ \A u \in Thread \ {t} : pc'[u] = pc[u]
      /\ \A labels : /\ Count(pc, labels) \in Nat /\ Count(pc', labels) \in Nat
                     /\ Count(pc', labels) = Moved(pc, t, "push_rent", labels)
  BY <1>1, Stepped
<1>3. val'[t] = v /\ \A u \in Thread \ {t} : val'[u] = val[u]
  BY DEF PushCheck, TypeInv
<1>4. Chain' = Chain /\ ChainInv'
  BY <1>1, ChainKept
<1>5. /\ Carried(t)' = v /\ pc[t] \notin ValueLabel /\ pc'[t] \in ValueLabel
      /\ pc[t] \notin HoldLabel /\ pc'[t] \notin HoldLabel /\ pc'[t] \notin PushLabel
      /\ \A u \in Thread \ {t} : Carried(u)' = Carried(u) /\ Held(u)' = Held(u)
  BY <1>1, <1>2, <1>3 DEF Carried, Held, ValueLabel, HoldLabel, PushLabel
<1>6. NodeInv'
  BY <1>1, <1>2, <1>4, <1>5 DEF NodeInv
<1>7. ValueInv'
  BY <1>1, <1>2, <1>3, <1>4, <1>5 DEF ValueInv
<1>8. SnapInv'
  <2>1. SnapOf(t)'
    BY <1>1, <1>2 DEF SnapOf, SnapInv
  <2>. QED  BY <1>1, <1>2, <2>1, SnapsKept
<1>9. CountInv'
  <2>1. /\ Count(pc', ReservedLabel) = Count(pc, ReservedLabel)
        /\ Count(pc', ClaimLabel) = Count(pc, ClaimLabel)
        /\ Count(pc', {"push_count"}) = Count(pc, {"push_count"})
        /\ Count(pc', HoldLabel) = Count(pc, HoldLabel)
    BY <1>1, <1>2 DEF Moved, ReservedLabel, ClaimLabel, HoldLabel, PushLabel
  <2>. QED  BY <1>1, <1>4, <2>1 DEF CountInv
<1>10. AbsKept
  <2>1. AbsStack' = AbsStack
    BY <1>1, <1>4 DEF AbsStack
  <2>2. ASSUME NEW w PROVE w \in AbsOutside' <=> w \in AbsOutside
    BY <1>1, <1>2, <1>5, InAbsOutside
  <2>. QED  BY <2>1, <2>2 DEF AbsKept
<1>. QED  BY <1>4, <1>6, <1>7, <1>8, <1>9, <1>10

\* A node comes from the pool; nobody has it, so writing the value to it is safe.
LEMMA RentStep ==
  ASSUME IInv, TypeInv', NEW t \in Thread, PushRent(t)
  PROVE  IInv' /\ AbsKept
<1> USE DEF IInv
<1>1. PICK n \in pool : /\ pool' = pool \ {n}
                        /\ node' = [node EXCEPT ![t] = n]
                        /\ data' = [data EXCEPT ![n] = val[t]]
  BY DEF PushRent
<1>2. /\ pc[t] = "push_rent" /\ Goto(t, "push_node") /\ n \in Node
      /\ UNCHANGED <<head, next, usedSize, val, snapNext, outside>>
  BY DEF PushRent, TypeInv
<1>3. /\ pc'[t] = "push_node" /\ \A u \in Thread \ {t} : pc'[u] = pc[u]
      /\ \A labels : /\ Count(pc, labels) \in Nat /\ Count(pc', labels) \in Nat
                     /\ Count(pc', labels) = Moved(pc, t, "push_node", labels)
  BY <1>2, Stepped
<1>4. /\ node'[t] = n /\ \A u \in Thread \ {t} : node'[u] = node[u] /\ snap'[u] = snap[u]
      /\ data'[n] = val[t] /\ \A m \in Node \ {n} : data'[m] = data[m]
      /\ snap'[t].UID = head.UID
  BY <1>1, <1>2 DEF PushRent, TypeInv, Tagged
<1>5. Chain' = Chain /\ ChainInv' /\ \A i \in 1..Len(Chain) : Chain[i] \in Node \ {n}
  <2>1. Chain' = Chain /\ ChainInv'
    BY <1>2, ChainKept
  <2>2. \A i \in 1..Len(Chain) : Chain[i] \in Node \ {n}
    BY DEF ChainInv, NodeInv
  <2>. QED  BY <2>1, <2>2
<1>6. /\ Held(t)' = n /\ Carried(t)' = val[t] /\ Carried(t) = val[t]
      /\ pc[t] \in ValueLabel /\ pc'[t] \in ValueLabel
      /\ pc[t] \notin HoldLabel /\ pc'[t] \in HoldLabel
  BY <1>2, <1>3, <1>4 DEF Carried, Held, ValueLabel, HoldLabel, PushLabel
<1>7. ASSUME NEW u \in Thread \ {t}
      PROVE  /\ Held(u)' = Held(u)
             /\ pc[u] \in HoldLabel => Held(u) \in Node \ {n}
             /\ pc[u] \in ValueLabel => Carried(u)' = Carried(u)
             /\ pc[u] \in PushLabel => data'[node'[u]] = data[node[u]]
  <2>1. Held(u)' = Held(u)
    BY <1>3, <1>4 DEF Held
  <2>2. pc[u] \in HoldLabel => Held(u) \in Node \ {n}
    BY DEF NodeInv
  <2>3. pc[u] = "pop_data" => snap[u].Node \in Node \ {n}
    BY <2>2 DEF Held, HoldLabel
  <2>4. pc[u] \in PushLabel => node[u] \in Node \ {n}
    BY <2>2 DEF Held, HoldLabel, PushLabel
  <2>5. Carried(u)' = Carried(u)
    BY <1>2, <1>3, <1>4, <2>3 DEF Carried
  <2>. QED  BY <1>4, <2>1, <2>2, <2>4, <2>5
<1>8. NodeInv'
  <2>1. ASSUME NEW u \in Thread, pc'[u] \in HoldLabel
        PROVE  /\ Held(u)' \in Node /\ Held(u)' \notin pool'
               /\ \A i \in 1..Len(Chain') : Chain'[i] # Held(u)'
               /\ \A w \in Thread : pc'[w] \in HoldLabel /\ Held(w)' = Held(u)' => w = u
    BY <1>1, <1>2, <1>3, <1>5, <1>6, <1>7, <2>1 DEF NodeInv
  <2>2. \A i \in 1..Len(Chain') : Chain'[i] \notin pool'
    BY <1>1, <1>5 DEF NodeInv
  <2>. QED  BY <2>1, <2>2 DEF NodeInv
<1>9. ValueInv'
  <2>1. \A i \in 1..Len(Chain) : data'[Chain[i]] = data[Chain[i]]
    BY <1>4, <1>5
  <2>2. ASSUME NEW u \in Thread, pc'[u] \in ValueLabel
        PROVE  pc[u] \in ValueLabel /\ Carried(u)' = Carried(u)
    BY <1>3, <1>6, <1>7, <2>2
  <2>3. ASSUME NEW u \in Thread, pc'[u] \in PushLabel PROVE data'[node'[u]] = val'[u]
    <3>1. CASE u = t
      BY <1>2, <1>4, <3>1
    <3>2. CASE u # t
      BY <1>2, <1>3, <1>7, <2>3, <3>2 DEF ValueInv
    <3>. QED  BY <3>1, <3>2
  <2>. QED  BY <1>2, <1>5, <2>1, <2>2, <2>3 DEF ValueInv
<1>10. SnapInv'
  <2>1. SnapOf(t)'
    <3>1. head.UID \in Nat
      BY DEF TypeInv, Tagged
    <3>. QED  BY <1>2, <1>3, <1>4, <3>1 DEF SnapOf
  <2>. QED  BY <1>2, <1>3, <1>4, <2>1, SnapsKept
<1>11. CountInv'
  <2>1. /\ Count(pc', ReservedLabel) = Count(pc, ReservedLabel)
        /\ Count(pc', ClaimLabel) = Count(pc, ClaimLabel)
        /\ Count(pc', {"push_count"}) = Count(pc, {"push_count"})
        /\ Count(pc', HoldLabel) = Count(pc, HoldLabel) + 1
    BY <1>2, <1>3 DEF Moved, ReservedLabel, ClaimLabel, HoldLabel, PushLabel
  <2>2. Cardinality(pool') = Cardinality(pool) - 1 /\ Cardinality(pool) \in Nat
    <3>1. IsFiniteSet(pool)
      BY StackAssumption, FS_Subset DEF TypeInv
    <3>. QED  BY <1>1, <3>1, FS_RemoveElement, FS_CardinalityType
  <2>3. Len(Chain) \in Nat /\ Count(pc, HoldLabel) \in Nat
    BY <1>3, FirstNode
  <2>. QED  BY <1>2, <1>5, <2>1, <2>2, <2>3 DEF CountInv
<1>12. AbsKept
  <2>1. AbsStack' = AbsStack
    BY <1>4, <1>5 DEF AbsStack
  <2>2. ASSUME NEW u \in Thread
        PROVE  /\ pc'[u] \in ValueLabel <=> pc[u] \in ValueLabel
               /\ pc[u] \in ValueLabel => Carried(u)' = Carried(u)
    BY <1>3, <1>6, <1>7
  <2>3. ASSUME NEW w PROVE w \in AbsOutside' <=> w \in AbsOutside
    BY <1>2, <2>2, InAbsOutside
  <2>. QED  BY <2>1, <2>3 DEF AbsKept
<1>. QED  BY <1>5, <1>8, <1>9, <1>10, <1>11, <1>12

\* TryPop hands over the value and returns its node.
LEMMA DataStep ==
  ASSUME IInv, TypeInv', NEW t \in Thread, PopData(t)
  PROVE  IInv' /\ AbsKept
<1> USE DEF IInv
<1>1. /\ pc[t] = "pop_data" /\ Goto(t, "idle")
      /\ outside' = outside \cup {Carried(t)} /\ pool' = pool \cup {Held(t)}
      /\ UNCHANGED <<head, next, data, usedSize, val, node, snap, snapNext>>
  BY DEF PopData, Carried, Held
<1>2. /\ pc'[t] = "idle" /\ \A u \in Thread \ {t} : pc'[u] = pc[u]
      /\ \A labels : /\ Count(pc, labels) \in Nat /\ Count(pc', labels) \in Nat
                     /\ Count(pc', labels) = Moved(pc, t, "idle", labels)
  BY <1>1, Stepped
<1>3. Chain' = Chain /\ ChainInv'
  BY <1>1, ChainKept
<1>4. /\ pc[t] \in HoldLabel /\ pc[t] \in ValueLabel
      /\ pc'[t] \notin HoldLabel /\ pc'[t] \notin ValueLabel /\ pc'[t] \notin PushLabel
      /\ \A u \in Thread \ {t} : Carried(u)' = Carried(u) /\ Held(u)' = Held(u)
  BY <1>1, <1>2 DEF Carried, Held, ValueLabel, HoldLabel, PushLabel
<1>5. Held(t) \in Node \ pool
  BY <1>4 DEF NodeInv
<1>6. NodeInv'
  BY <1>1, <1>2, <1>3, <1>4 DEF NodeInv
<1>7. ValueInv'
  BY <1>1, <1>2, <1>3, <1>4 DEF ValueInv
<1>8. SnapInv'
  <2>1. SnapOf(t)'
    BY <1>1, <1>2 DEF SnapOf, SnapInv
  <2>. QED  BY <1>1, <1>2, <2>1, SnapsKept
<1>9. CountInv'
  <2>1. /\ Count(pc', ReservedLabel) = Count(pc, ReservedLabel)
        /\ Count(pc', ClaimLabel) = Count(pc, ClaimLabel)
        /\ Count(pc', {"push_count"}) = Count(pc, {"push_count"})
        /\ Count(pc', HoldLabel) = Count(pc, HoldLabel) - 1
    BY <1>1, <1>2 DEF Moved, ReservedLabel, ClaimLabel, HoldLabel, PushLabel
  <2>2. Cardinality(pool') = Cardinality(pool) + 1 /\ Cardinality(pool) \in Nat
    <3>1. IsFiniteSet(pool)
      BY StackAssumption, FS_Subset DEF TypeInv
    <3>. QED  BY <1>1, <1>5, <3>1, FS_AddElement, FS_CardinalityType
  <2>3. Len(Chain) \in Nat /\ Count(pc, HoldLabel) \in Nat
    BY <1>2, FirstNode
  <2>. QED  BY <1>1, <1>3, <2>1, <2>2, <2>3 DEF CountInv
<1>10. AbsKept
  <2>1. AbsStack' = AbsStack
    BY <1>1, <1>3 DEF AbsStack
  <2>2. ASSUME NEW w PROVE w \in AbsOutside' <=> w \in AbsOutside
    BY <1>1, <1>2, <1>4, InAbsOutside
  <2>. QED  BY <2>1, <2>2 DEF AbsKept
<1>. QED  BY <1>3, <1>6, <1>7, <1>8, <1>9, <1>10

-----------------------------------------------------------------------------
(* The exchanges that succeed: the steps of the abstract stack. *)

AbsPush(v) ==
  /\ v \in AbsOutside
  /\ AbsStack' = <<v>> \o AbsStack
  /\ AbsOutside' = AbsOutside \ {v}

AbsPop ==
  /\ AbsStack # <<>>
  /\ AbsOutside' = AbsOutside \cup {Head(AbsStack)}
  /\ AbsStack' = Tail(AbsStack)

\* Push links its node before the head it has seen, which is the head.
LEMMA LinkStep ==
  ASSUME IInv, TypeInv', NEW t \in Thread, PushCas(t), head = snap[t]
  PROVE  IInv' /\ AbsPush(val[t])
<1> USE DEF IInv
<1>1. /\ pc[t] = "push_cas" /\ Goto(t, "push_count")
      /\ head' = [UID |-> snap[t].UID + 1, Node |-> node[t]]
      /\ UNCHANGED <<next, data, usedSize, pool, val, node, snap, snapNext, outside>>
  BY DEF PushCas
<1>2. /\ pc'[t] = "push_count" /\ \A u \in Thread \ {t} : pc'[u] = pc[u]
      /\ \A labels : /\ Count(pc, labels) \in Nat /\ Count(pc', labels) \in Nat
                     /\ Count(pc', labels) = Moved(pc, t, "push_count", labels)
  BY <1>1, Stepped
<1>3. /\ pc[t] \in HoldLabel /\ pc[t] \in ValueLabel /\ pc[t] \in PushLabel
      /\ Held(t) = node[t] /\ Carried(t) = val[t]
      /\ pc'[t] \notin HoldLabel /\ pc'[t] \notin ValueLabel /\ pc'[t] \notin PushLabel
      /\ \A u \in Thread \ {t} : Carried(u)' = Carried(u) /\ Held(u)' = Held(u)
  BY <1>1, <1>2 DEF Carried, Held, ValueLabel, HoldLabel, PushLabel
<1>4. PICK c, n : c = Chain /\ n = node[t]
  OBVIOUS
<1>5. /\ c \in Seq(Node) /\ Links(c, head.Node, next) /\ Len(c) \in Nat
      /\ \A i, j \in 1..Len(c) : c[i] = c[j] => i = j
      /\ n \in Node /\ n \notin pool /\ \A i \in 1..Len(c) : c[i] # n
      /\ data[n] = val[t] /\ next[n] = head.Node
  <2>1. /\ c \in Seq(Node) /\ Links(c, head.Node, next)
        /\ \A i, j \in 1..Len(c) : c[i] = c[j] => i = j
    BY <1>4 DEF ChainInv
  <2>2. n \in Node /\ n \notin pool /\ \A i \in 1..Len(c) : c[i] # n
    BY <1>3, <1>4 DEF NodeInv
  <2>3. data[n] = val[t] /\ next[n] = head.Node
    BY <1>1, <1>3, <1>4 DEF ValueInv, SnapInv, SnapOf
  <2>4. Len(c) \in Nat
    BY <2>1
  <2>. QED  BY <2>1, <2>2, <2>3, <2>4
<1>6. PICK d : d = <<n>> \o c
  OBVIOUS
<1>7. /\ d \in Seq(Node) /\ Len(d) = Len(c) + 1 /\ d[1] = n
      /\ \A i \in 1..Len(c) : d[i + 1] = c[i]
      /\ Links(d, n, next)
  BY <1>5, <1>6, LinksCons
<1>8. \A i \in 1..Len(d) : i = 1 \/ \E j \in 1..Len(c) : i = j + 1 /\ d[i] = c[j]
  <2> SUFFICES ASSUME NEW i \in 1..Len(d), i # 1
               PROVE  \E j \in 1..Len(c) : i = j + 1 /\ d[i] = c[j]
    OBVIOUS
  <2>1. i - 1 \in 1..Len(c) /\ i = (i - 1) + 1
    BY <1>5, <1>7
  <2>. QED  BY <1>7, <2>1
<1>9. /\ Count(pc', ReservedLabel) = Count(pc, ReservedLabel) + 1
      /\ Count(pc', ClaimLabel) = Count(pc, ClaimLabel)
      /\ Count(pc', {"push_count"}) = Count(pc, {"push_count"}) + 1
      /\ Count(pc', HoldLabel) = Count(pc, HoldLabel) - 1
  BY <1>1, <1>2 DEF Moved, ReservedLabel, ClaimLabel, HoldLabel, PushLabel
<1>10. Len(c) + 1 <= Cardinality(Node)
  <2>1. Cardinality(pool) \in Nat
    BY StackAssumption, FS_Subset, FS_CardinalityType DEF TypeInv
  <2>2. Count(pc, HoldLabel) \in Nat /\ Count(pc', HoldLabel) \in Nat
    BY <1>2
  <2>3. Len(c) + Cardinality(pool) + Count(pc, HoldLabel) = Cardinality(Node)
    BY <1>4 DEF CountInv
  <2>4. PICK k, p, h, g \in Nat : /\ k = Len(c) /\ p = Cardinality(pool)
                                  /\ h = Count(pc, HoldLabel) /\ g = Count(pc', HoldLabel)
    BY <1>5, <2>1, <2>2
  <2>5. g = h - 1 /\ k + p + h = Cardinality(Node)
    BY <1>9, <2>3, <2>4
  <2>. QED  BY <2>4, <2>5
<1>11. Chain' = d
  <2>1. head'.Node = n /\ next' = next
    BY <1>1, <1>4
  <2>2. Links(d, head'.Node, next')
    BY <1>7, <2>1
  <2>. QED  BY <1>7, <1>10, <2>2, ChainIs
<1>12. ChainInv'
  <2>1. \A i, j \in 1..Len(d) : d[i] = d[j] => i = j
    BY <1>5, <1>7, <1>8
  <2>2. head'.Node = n /\ next' = next
    BY <1>1, <1>4
  <2>. QED  BY <1>7, <1>10, <1>11, <2>1, <2>2 DEF ChainInv
<1>13. NodeInv'
  <2>1. ASSUME NEW u \in Thread, pc'[u] \in HoldLabel
        PROVE  u # t /\ pc[u] \in HoldLabel /\ Held(u)' = Held(u) /\ Held(u) # n
               /\ \A i \in 1..Len(c) : c[i] # Held(u)
    BY <1>2, <1>3, <1>4, <2>1 DEF NodeInv
  <2>2. \A u \in Thread : pc'[u] \in HoldLabel => \A i \in 1..Len(d) : d[i] # Held(u)
    BY <1>7, <1>8, <2>1
  <2>3. \A i \in 1..Len(d) : d[i] \notin pool
    BY <1>4, <1>5, <1>7, <1>8 DEF NodeInv
  <2>. QED  BY <1>1, <1>11, <2>1, <2>2, <2>3 DEF NodeInv
<1>14. ValueInv'
  <2>1. /\ \A i \in 1..Len(c) : data[c[i]] # val[t] /\ data[c[i]] \notin outside
        /\ \A i, j \in 1..Len(c) : data[c[i]] = data[c[j]] => i = j
        /\ val[t] \notin outside
    BY <1>3, <1>4 DEF ValueInv
  <2>2. ASSUME NEW u \in Thread, pc'[u] \in ValueLabel
        PROVE  u # t /\ pc[u] \in ValueLabel /\ Carried(u)' = Carried(u) /\ Carried(u) # val[t]
               /\ \A i \in 1..Len(c) : data[c[i]] # Carried(u)
    BY <1>2, <1>3, <1>4, <2>2 DEF ValueInv
  <2>3. \A u \in Thread : pc'[u] \in ValueLabel => \A i \in 1..Len(d) : data[d[i]] # Carried(u)
    BY <1>5, <1>7, <1>8, <2>2
  <2>4. \A i \in 1..Len(d) : data[d[i]] \notin outside
    BY <1>5, <1>7, <1>8, <2>1
  <2>5. ASSUME NEW i \in 1..Len(d), NEW j \in 1..Len(d), data[d[i]] = data[d[j]] PROVE i = j
    <3>1. ASSUME NEW k \in 1..Len(d) PROVE k = 1 <=> data[d[k]] = val[t]
      <4>1. CASE k = 1
        BY <1>5, <1>7, <4>1
      <4>2. CASE k # 1
        <5>1. PICK j1 \in 1..Len(c) : d[k] = c[j1]
          BY <1>8, <4>2
        <5>. QED  BY <2>1, <4>2, <5>1
      <4>. QED  BY <4>1, <4>2
    <3>2. CASE i = 1 \/ j = 1
      BY <2>5, <3>1, <3>2
    <3>3. CASE i # 1 /\ j # 1
      <4>1. PICK a \in 1..Len(c) : i = a + 1 /\ d[i] = c[a]
        BY <1>8, <3>3
      <4>2. PICK b \in 1..Len(c) : j = b + 1 /\ d[j] = c[b]
        BY <1>8, <3>3
      <4>. QED  BY <2>1, <2>5, <4>1, <4>2
    <3>. QED  BY <3>2, <3>3
  <2>6. \A u \in Thread : pc'[u] \in PushLabel => pc[u] \in PushLabel
    BY <1>2, <1>3
  <2>. QED  BY <1>1, <1>11, <2>2, <2>3, <2>4, <2>5, <2>6 DEF ValueInv
<1>15. SnapInv'
  <2>1. snap[t].UID \in Nat /\ head'.UID = snap[t].UID + 1
    BY <1>1 DEF TypeInv, Tagged
  <2>2. SnapOf(t)'
    BY <1>1, <1>2, <2>1 DEF SnapOf
  <2>3. head'.UID > head.UID
    BY <2>1
  <2>. QED  BY <1>1, <1>2, <2>2, <2>3, SnapsKept
<1>16. CountInv'
  <2>1. /\ Count(pc, ReservedLabel) \in Nat /\ Count(pc, ClaimLabel) \in Nat
        /\ Count(pc, {"push_count"}) \in Nat /\ Count(pc, HoldLabel) \in Nat
    BY <1>2
  <2>2. Cardinality(pool) \in Nat
    BY StackAssumption, FS_Subset, FS_CardinalityType DEF TypeInv
  <2>3. Len(Chain') = Len(Chain) + 1 /\ Len(Chain) \in Nat
    BY <1>4, <1>5, <1>7, <1>11
  <2>4. /\ usedSize' = Len(Chain') - Count(pc', ReservedLabel)
        /\ Count(pc', ClaimLabel) + Count(pc', {"push_count"}) <= Len(Chain')
    BY <1>1, <1>9, <2>1, <2>3 DEF CountInv
  <2>5. Len(Chain') + Cardinality(pool') + Count(pc', HoldLabel) = Cardinality(Node)
    <3>1. PICK k, p, h \in Nat : /\ k = Len(Chain) /\ p = Cardinality(pool)
                                /\ h = Count(pc, HoldLabel)
      BY <2>1, <2>2, <2>3
    <3>2. k + p + h = Cardinality(Node)
      BY <3>1 DEF CountInv
    <3>3. Len(Chain') = k + 1 /\ Cardinality(pool') = p /\ Count(pc', HoldLabel) = h - 1
      BY <1>1, <1>9, <2>3, <3>1
    <3>. QED  BY <3>1, <3>2, <3>3
  <2>. QED  BY <2>4, <2>5 DEF CountInv
<1>17. AbsPush(val[t])
  <2>1. val[t] \in AbsOutside
    BY <1>3, InAbsOutside
  <2>2. ASSUME NEW w PROVE w \in AbsOutside' <=> w \in AbsOutside /\ w # val[t]
    <3>1. val[t] \notin outside
          /\ \A u \in Thread : pc[u] \in ValueLabel /\ Carried(u) = val[t] => u = t
      BY <1>3 DEF ValueInv
    <3>. QED  BY <1>1, <1>2, <1>3, <3>1, InAbsOutside
  <2>3. AbsStack' = <<val[t]>> \o AbsStack
    <3>1. PICK v, e : v = val[t] /\ e = [i \in 1..Len(c) |-> data[c[i]]]
      OBVIOUS
    <3>2. /\ e \in Seq(Value) /\ Len(e) = Len(c) /\ v \in Value
          /\ \A i \in 1..Len(c) : e[i] = data[c[i]]
      BY <1>5, <3>1 DEF TypeInv
    <3>3. PICK f : f = [i \in 1..Len(d) |-> data[d[i]]]
      OBVIOUS
    <3>4. /\ f \in Seq(Value) /\ Len(f) = Len(c) + 1
          /\ \A i \in 1..Len(d) : f[i] = data[d[i]]
      BY <1>5, <1>7, <3>3 DEF TypeInv
    <3>5. /\ <<v>> \o e \in Seq(Value) /\ Len(<<v>> \o e) = Len(c) + 1
          /\ (<<v>> \o e)[1] = v
          /\ \A i \in 1..Len(c) : (<<v>> \o e)[i + 1] = e[i]
      BY <1>5, <3>2
    <3>6. \A i \in 1..Len(d) : f[i] = (<<v>> \o e)[i]
      <4> SUFFICES ASSUME NEW i \in 1..Len(d) PROVE f[i] = (<<v>> \o e)[i]
        OBVIOUS
      <4>1. CASE i = 1
        BY <1>5, <1>7, <3>1, <3>4, <3>5, <4>1
      <4>2. CASE i # 1
        <5>1. PICK j \in 1..Len(c) : i = j + 1 /\ d[i] = c[j]
          BY <1>8, <4>2
        <5>2. f[i] = data[c[j]]
          BY <3>4, <5>1
        <5>3. (<<v>> \o e)[i] = data[c[j]]
          BY <3>2, <3>5, <5>1
        <5>. QED  BY <5>2, <5>3
      <4>. QED  BY <4>1, <4>2
    <3>7. f = <<v>> \o e
      <4>1. PICK g : g = <<v>> \o e
        OBVIOUS
      <4>2. /\ g \in Seq(Value) /\ f \in Seq(Value) /\ Len(f) = Len(g)
            /\ \A i \in 1..Len(f) : f[i] = g[i]
        BY <1>7, <3>4, <3>5, <3>6, <4>1
      <4>3. f = g
        BY <4>2
      <4>. QED  BY <4>1, <4>3
    <3>. QED  BY <1>1, <1>4, <1>11, <3>1, <3>3, <3>7 DEF AbsStack
  <2>. QED  BY <2>1, <2>2, <2>3 DEF AbsPush
<1>. QED  BY <1>12, <1>13, <1>14, <1>15, <1>16, <1>17

\* TryPop unlinks the head it has seen, which is the head: its next node is the
\* one read since, because a linked node is not written to.
LEMMA UnlinkStep ==
  ASSUME IInv, TypeInv', NEW t \in Thread, PopCas(t), head = snap[t]
  PROVE  IInv' /\ AbsPop
<1> USE DEF IInv
<1>1. /\ pc[t] = "pop_cas" /\ Goto(t, "pop_data")
      /\ head' = [UID |-> snap[t].UID + 1, Node |-> snapNext[t]]
      /\ UNCHANGED <<next, data, usedSize, pool, val, node, snap, snapNext, outside>>
  BY DEF PopCas
<1>2. /\ pc'[t] = "pop_data" /\ \A u \in Thread \ {t} : pc'[u] = pc[u]
      /\ \A labels : /\ Count(pc, labels) \in Nat /\ Count(pc', labels) \in Nat
                     /\ Count(pc', labels) = Moved(pc, t, "pop_data", labels)
  BY <1>1, Stepped
<1>3. /\ pc[t] \notin HoldLabel /\ pc[t] \notin ValueLabel
      /\ pc'[t] \in HoldLabel /\ pc'[t] \in ValueLabel /\ pc'[t] \notin PushLabel
      /\ \A u \in Thread \ {t} : Carried(u)' = Carried(u) /\ Held(u)' = Held(u)
  BY <1>1, <1>2 DEF Carried, Held, ValueLabel, HoldLabel, PushLabel
<1>4. PICK c, n : c = Chain /\ n = head.Node
  OBVIOUS
<1>5. /\ c \in Seq(Node) /\ Len(c) <= Cardinality(Node) /\ Links(c, n, next)
      /\ \A i, j \in 1..Len(c) : c[i] = c[j] => i = j
      /\ n # Null /\ snapNext[t] = next[n]
  BY <1>1, <1>4 DEF ChainInv, SnapInv, SnapOf
<1>6. PICK d : d = Tail(c)
  OBVIOUS
<1>7. /\ Len(c) \in Nat \ {0} /\ n = c[1] /\ n \in Node
      /\ d \in Seq(Node) /\ Len(d) = Len(c) - 1
      /\ \A i \in 1..(Len(c) - 1) : d[i] = c[i + 1]
      /\ Links(d, next[n], next)
  BY <1>5, <1>6, LinksTail
<1>8. /\ 1 \in 1..Len(c)
      /\ \A i \in 1..Len(d) : i + 1 \in 1..Len(c) /\ i + 1 # 1 /\ d[i] = c[i + 1]
  BY <1>7
<1>9. Held(t)' = n /\ Carried(t)' = data[n]
  BY <1>1, <1>2, <1>4 DEF Held, Carried
<1>10. Chain' = d
  <2>1. Links(d, head'.Node, next')
    BY <1>1, <1>5, <1>7
  <2>2. Len(d) <= Cardinality(Node)
    <3>1. Cardinality(Node) \in Nat
      BY StackAssumption, FS_CardinalityType
    <3>. QED  BY <1>5, <1>7, <3>1
  <2>3. Chain' = d
    BY <1>7, <2>1, <2>2, ChainIs
  <2>. QED  BY <2>3
<1>11. ChainInv'
  <2>1. \A i, j \in 1..Len(d) : d[i] = d[j] => i = j
    BY <1>5, <1>7, <1>8
  <2>2. head'.Node = next[n] /\ next' = next
    BY <1>1, <1>5
  <2>3. Cardinality(Node) \in Nat
    BY StackAssumption, FS_CardinalityType
  <2>4. Len(d) <= Cardinality(Node)
    BY <1>5, <1>7, <2>3
  <2>. QED  BY <1>7, <1>10, <2>1, <2>2, <2>4 DEF ChainInv
<1>12. NodeInv'
  <2>1. \A u \in Thread \ {t} : pc'[u] \in HoldLabel =>
          /\ pc[u] \in HoldLabel /\ Held(u)' = Held(u) /\ Held(u) # n
          /\ \A i \in 1..Len(c) : c[i] # Held(u)
    BY <1>2, <1>3, <1>4, <1>7, <1>8 DEF NodeInv
  <2>2. \A u \in Thread \ {t} : pc'[u] \in HoldLabel => \A i \in 1..Len(d) : d[i] # Held(u)
    BY <1>8, <2>1
  <2>3. \A i \in 1..Len(d) : d[i] \notin pool /\ d[i] # n
    BY <1>4, <1>5, <1>7, <1>8 DEF NodeInv
  <2>4. n \notin pool
    BY <1>4, <1>7, <1>8 DEF NodeInv
  <2>. QED  BY <1>1, <1>7, <1>9, <1>10, <2>1, <2>2, <2>3, <2>4 DEF NodeInv
<1>13. ValueInv'
  <2>1. /\ \A i \in 1..Len(c) : data[c[i]] \notin outside
        /\ \A i, j \in 1..Len(c) : data[c[i]] = data[c[j]] => i = j
    BY <1>4 DEF ValueInv
  <2>2. \A u \in Thread \ {t} : pc'[u] \in ValueLabel =>
          /\ pc[u] \in ValueLabel /\ Carried(u)' = Carried(u) /\ Carried(u) # data[n]
          /\ \A i \in 1..Len(c) : data[c[i]] # Carried(u)
    BY <1>2, <1>3, <1>4, <1>7, <1>8 DEF ValueInv
  <2>3. \A u \in Thread \ {t} : pc'[u] \in ValueLabel =>
          \A i \in 1..Len(d) : data[d[i]] # Carried(u)
    BY <1>8, <2>2
  <2>4. \A i \in 1..Len(d) : data[d[i]] \notin outside /\ data[d[i]] # data[n]
    BY <1>7, <1>8, <2>1
  <2>5. ASSUME NEW i \in 1..Len(d), NEW j \in 1..Len(d), data[d[i]] = data[d[j]] PROVE i = j
    <3>1. i + 1 \in 1..Len(c) /\ j + 1 \in 1..Len(c) /\ d[i] = c[i + 1] /\ d[j] = c[j + 1]
      BY <1>8
    <3>2. i + 1 = j + 1
      BY <2>1, <2>5, <3>1
    <3>3. i \in Int /\ j \in Int
      OBVIOUS
    <3>. QED  BY <3>2, <3>3
  <2>6. \A u \in Thread : pc'[u] \in PushLabel => pc[u] \in PushLabel
    BY <1>2, <1>3
  <2>7. data[n] \notin outside
    BY <1>7, <1>8, <2>1
  <2>. QED  BY <1>1, <1>9, <1>10, <2>2, <2>3, <2>4, <2>5, <2>6, <2>7 DEF ValueInv
<1>14. SnapInv'
  <2>1. snap[t].UID \in Nat /\ head'.UID = snap[t].UID + 1
    BY <1>1 DEF TypeInv, Tagged
  <2>2. SnapOf(t)'
    BY <1>1, <1>2, <2>1 DEF SnapOf
  <2>3. head'.UID > head.UID
    BY <2>1
  <2>. QED  BY <1>1, <1>2, <2>2, <2>3, SnapsKept
<1>15. CountInv'
  <2>1. /\ Count(pc, ReservedLabel) \in Nat /\ Count(pc, ClaimLabel) \in Nat
        /\ Count(pc, {"push_count"}) \in Nat /\ Count(pc, HoldLabel) \in Nat
    BY <1>2
  <2>2. Cardinality(pool) \in Nat
    BY StackAssumption, FS_Subset, FS_CardinalityType DEF TypeInv
  <2>3. Len(Chain') = Len(Chain) - 1 /\ Len(Chain) \in Nat
    BY <1>4, <1>7, <1>10
  <2>4. /\ Count(pc', ReservedLabel) = Count(pc, ReservedLabel) - 1
        /\ Count(pc', ClaimLabel) = Count(pc, ClaimLabel) - 1
        /\ Count(pc', {"push_count"}) = Count(pc, {"push_count"})
        /\ Count(pc', HoldLabel) = Count(pc, HoldLabel) + 1
    BY <1>1, <1>2 DEF Moved, ReservedLabel, ClaimLabel, HoldLabel, PushLabel
  <2>5. PICK k, p, h, r \in Nat : /\ k = Len(Chain) /\ p = Cardinality(pool)
                                  /\ h = Count(pc, HoldLabel) /\ r = Count(pc, ReservedLabel)
    BY <2>1, <2>2, <2>3
  <2>6. /\ usedSize = k - r /\ k + p + h = Cardinality(Node)
        /\ Count(pc, ClaimLabel) + Count(pc, {"push_count"}) <= k
    BY <2>5 DEF CountInv
  <2>7. /\ Len(Chain') = k - 1 /\ Cardinality(pool') = p /\ Count(pc', HoldLabel) = h + 1
        /\ Count(pc', ReservedLabel) = r - 1 /\ usedSize' = usedSize
    BY <1>1, <2>3, <2>4, <2>5
  <2>8. Count(pc', ClaimLabel) + Count(pc', {"push_count"}) <= k - 1
    <3>1. PICK a, b \in Nat : a = Count(pc, ClaimLabel) /\ b = Count(pc, {"push_count"})
      BY <2>1
    <3>2. a + b <= k /\ Count(pc', ClaimLabel) = a - 1 /\ Count(pc', {"push_count"}) = b
      BY <2>4, <2>6, <3>1
    <3>. QED  BY <3>1, <3>2
  <2>9. usedSize' = (k - 1) - (r - 1)
    <3>1. k - r = (k - 1) - (r - 1)
      BY <2>5
    <3>. QED  BY <2>6, <2>7, <3>1
  <2>10. (k - 1) + p + (h + 1) = Cardinality(Node)
    BY <2>5, <2>6
  <2>. QED  BY <2>7, <2>8, <2>9, <2>10 DEF CountInv
<1>16. AbsPop
  <2>1. PICK e, f : e = [i \in 1..Len(c) |-> data[c[i]]] /\ f = [i \in 1..Len(d) |-> data[d[i]]]
    OBVIOUS
  <2>2. /\ e \in Seq(Value) /\ Len(e) = Len(c) /\ e # <<>>
        /\ \A i \in 1..Len(c) : e[i] = data[c[i]]
    <3>1. \A i \in 1..Len(c) : c[i] \in Node /\ data[c[i]] \in Value
      BY <1>5 DEF TypeInv
    <3>2. e \in Seq(Value) /\ Len(e) = Len(c) /\ \A i \in 1..Len(c) : e[i] = data[c[i]]
      BY <1>7, <2>1, <3>1
    <3>3. e # <<>>
      BY <1>7, <3>2
    <3>. QED  BY <3>2, <3>3
  <2>3. /\ f \in Seq(Value) /\ Len(f) = Len(c) - 1
        /\ \A i \in 1..Len(d) : f[i] = data[d[i]]
    BY <1>7, <2>1 DEF TypeInv
  <2>4. e = AbsStack /\ f = AbsStack'
    BY <1>1, <1>4, <1>10, <2>1 DEF AbsStack
  <2>5. Head(e) = data[n]
    BY <1>7, <1>8, <2>2
  <2>6. f = Tail(e)
    <3>1. PICK g : g = Tail(e)
      OBVIOUS
    <3>2. g \in Seq(Value) /\ Len(g) = Len(c) - 1 /\ \A i \in 1..(Len(c) - 1) : g[i] = e[i + 1]
      BY <1>7, <2>2, <3>1
    <3>3. \A i \in 1..Len(f) : f[i] = g[i]
      BY <1>7, <1>8, <2>2, <2>3, <3>2
    <3>4. f = g
      BY <2>3, <3>2, <3>3
    <3>. QED  BY <3>1, <3>4
  <2>7. ASSUME NEW w PROVE w \in AbsOutside' <=> w \in AbsOutside \/ w = data[n]
    BY <1>1, <1>2, <1>3, <1>9, InAbsOutside
  <2>8. AbsOutside' = AbsOutside \cup {Head(AbsStack)}
    BY <2>4, <2>5, <2>7
  <2>. QED  BY <2>2, <2>4, <2>6, <2>8 DEF AbsPop
<1>. QED  BY <1>11, <1>12, <1>13, <1>14, <1>15, <1>16

-----------------------------------------------------------------------------
(* The theorems. *)

\* The empty stack, with every value outside.
LEMMA InitInv == Init => IInv /\ AbsStack = <<>> /\ AbsOutside = Value
<1> SUFFICES ASSUME Init PROVE IInv /\ AbsStack = <<>> /\ AbsOutside = Value
  OBVIOUS
<1>1. TypeInv
  BY InitType
<1>2. Cardinality(Node) \in Nat
  BY StackAssumption, FS_CardinalityType
<1>3. Chain = <<>>
  <2>1. Links(<<>>, head.Node, next)
    BY DEF Init, Links
  <2>2. <<>> \in Seq(Node) /\ Len(<<>>) <= Cardinality(Node)
    BY <1>2
  <2>. QED  BY <2>1, <2>2, ChainIs
<1>4. ChainInv
  <2>1. Links(<<>>, head.Node, next)
    BY DEF Init, Links
  <2>. QED  BY <1>2, <1>3, <2>1 DEF ChainInv
<1>5. \A t \in Thread : pc[t] = "idle"
  BY DEF Init
<1>6. NodeInv /\ ValueInv
  BY <1>3, <1>5 DEF NodeInv, ValueInv, HoldLabel, PushLabel, ValueLabel
<1>7. SnapInv
  BY <1>5 DEF SnapInv, SnapOf, Init
<1>8. ASSUME NEW labels, "idle" \notin labels PROVE Count(pc, labels) = 0
  <2>1. {t \in Thread : pc[t] \in labels} = {}
    BY <1>5, <1>8
  <2>. QED  BY <2>1, FS_EmptySet DEF Count
<1>9. CountInv
  <2>1. /\ Count(pc, ReservedLabel) = 0 /\ Count(pc, ClaimLabel) = 0
        /\ Count(pc, {"push_count"}) = 0 /\ Count(pc, HoldLabel) = 0
    <3>1. /\ "idle" \notin ReservedLabel /\ "idle" \notin ClaimLabel
          /\ "idle" \notin {"push_count"} /\ "idle" \notin HoldLabel
      BY DEF ReservedLabel, ClaimLabel, HoldLabel, PushLabel
    <3>. QED  BY <1>8, <3>1
  <2>2. Len(Chain) = 0 /\ usedSize = 0 /\ pool = Node
    BY <1>3 DEF Init
  <2>. QED  BY <1>2, <2>1, <2>2 DEF CountInv
<1>10. AbsStack = <<>>
  BY <1>3 DEF AbsStack
<1>11. AbsOutside = Value
  <2>1. ASSUME NEW w PROVE w \in AbsOutside <=> w \in Value
    BY <1>5, InAbsOutside DEF Init, ValueLabel
  <2>. QED  BY <2>1
<1>. QED  BY <1>1, <1>4, <1>6, <1>7, <1>9, <1>10, <1>11 DEF IInv

\* Every step keeps the invariant and is a step of the abstract stack or none.
LEMMA NextInv ==
  ASSUME IInv, [Next]_vars
  PROVE  IInv' /\ (AbsKept \/ AbsPop \/ \E v \in Value : AbsPush(v))
<1>1. TypeInv'
  BY TypeStep DEF IInv
<1>2. ASSUME NEW t \in Thread, NEW v \in Value, PushCheck(t, v) PROVE IInv' /\ AbsKept
  BY <1>1, <1>2, AcceptStep, SizeSteps
<1>3. ASSUME NEW t \in Thread, PushRefused(t) \/ PushCount(t) \/ PopReserve(t) \/ PopRestore(t)
      PROVE  IInv' /\ AbsKept
  BY <1>1, <1>3, SizeSteps
<1>4. ASSUME NEW t \in Thread, PushRent(t) PROVE IInv' /\ AbsKept
  BY <1>1, <1>4, RentStep
<1>5. ASSUME NEW t \in Thread, PushNode(t) \/ PushLink(t) PROVE IInv' /\ AbsKept
  BY <1>1, <1>5, PushReads
<1>6. ASSUME NEW t \in Thread, PushCas(t) PROVE IInv' /\ (AbsKept \/ \E v \in Value : AbsPush(v))
  <2>1. val[t] \in Value
    BY DEF IInv, TypeInv
  <2>. QED  BY <1>1, <1>6, <2>1, PushReads, LinkStep
<1>7. ASSUME NEW t \in Thread, PopUid(t) \/ PopNode(t) \/ PopNext(t) PROVE IInv' /\ AbsKept
  BY <1>1, <1>7, PopReads
<1>8. ASSUME NEW t \in Thread, PopCas(t) PROVE IInv' /\ (AbsKept \/ AbsPop)
  BY <1>1, <1>8, PopReads, UnlinkStep
<1>9. ASSUME NEW t \in Thread, PopData(t) PROVE IInv' /\ AbsKept
  BY <1>1, <1>9, DataStep
<1>10. CASE UNCHANGED vars
  <2>1. UNCHANGED <<head, next, data, usedSize, pool, pc, val, node, snap, snapNext, outside>>
    BY <1>10 DEF vars, regVars
  <2>2. Chain' = Chain
    BY <2>1 DEF Chain
  <2>3. IInv'
    BY <2>1, <2>2 DEF IInv, TypeInv, ChainInv, NodeInv, ValueInv, SnapInv, CountInv,
                      SnapOf, Held, Carried
  <2>4. AbsKept
    BY <2>1, <2>2 DEF AbsKept, AbsStack, AbsOutside, Pushing
  <2>. QED  BY <2>3, <2>4
<1>. QED
  BY <1>2, <1>3, <1>4, <1>5, <1>6, <1>7, <1>8, <1>9, <1>10 DEF Next, Continue

\* The invariant holds in every state.
LEMMA InvHolds == Spec => []IInv
<1>1. Init => IInv
  BY InitInv
<1>2. IInv /\ [Next]_vars => IInv'
  BY NextInv
<1>. QED  BY <1>1, <1>2, PTL DEF Spec

\* mUsedSize counts exactly and TryPop's assertion that the list is not empty
\* holds, whatever the interleaving, for every number of threads and nodes.
THEOREM ReservationsAreAlwaysBacked == Spec => []ReservationsAreBacked
<1>1. IInv => ReservationsAreBacked
  <2> SUFFICES ASSUME IInv PROVE ReservationsAreBacked
    OBVIOUS
  <2>1. PopFindsNode
    BY DEF IInv, SnapInv, SnapOf, PopFindsNode
  <2>2. SizeIsExact
    BY DEF IInv, CountInv, SizeIsExact, Count, At, ReservedLabel
  <2>. QED  BY <2>1, <2>2 DEF ReservationsAreBacked
<1>. QED  BY <1>1, InvHolds, PTL

\* Push and TryPop are atomic at their exchange, last in, first out, whatever
\* the interleaving and although nodes are reused while they are in snapshots.
THEOREM LockFreeStackIsAStack == Spec => ImplementsStack
<1>1. Init => Stack!Init
  BY InitInv DEF Stack!Init, AbsStack, AbsOutside
<1>2. AbsKept => UNCHANGED Stack!vars
  BY DEF AbsKept, Stack!vars, AbsStack, AbsOutside
<1>3. AbsPop => Stack!Pop
  BY DEF AbsPop, Stack!Pop, AbsStack, AbsOutside
<1>4. ASSUME NEW v \in Value PROVE AbsPush(v) => Stack!Push(v)
  BY DEF AbsPush, Stack!Push, AbsStack, AbsOutside
<1>5. IInv /\ [Next]_vars => [Stack!Next]_(Stack!vars)
  BY <1>2, <1>3, <1>4, NextInv DEF Stack!Next
<1>. QED  BY <1>1, <1>5, InvHolds, PTL DEF Spec, ImplementsStack, Stack!Spec
==============================================================================
