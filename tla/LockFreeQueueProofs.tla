------------------------- MODULE LockFreeQueueProofs -------------------------
(***************************************************************************)
(* The lock-free queue for any number of producers, consumers, values,     *)
(* nodes and calls: its count, its list and its pool of nodes agree, and   *)
(* it is a queue, Enqueue being atomic where its node becomes reachable    *)
(* and TryDequeue where it moves mHead.                                    *)
(*                                                                         *)
(* The nodes form lists: one from the dummy node of mHead, and one from    *)
(* the node of each producer that has not linked it yet, behind which      *)
(* other producers may have linked theirs.  A producer appends its own     *)
(* list to one of the others, never to itself: the node it links to was in *)
(* the queue after the producer had rented its own (Rank).                 *)
(***************************************************************************)
EXTENDS LockFreeQueue, FiniteSetTheorems, FunctionTheorems, WellFoundedInduction, TLAPS

-----------------------------------------------------------------------------
(* Sequences and lists. *)

Pointer == Node \cup {Null}

\* A set of numbers has a least one: what stands for induction here.
LEMMA LeastNumber ==
  ASSUME NEW S \in SUBSET Nat, S # {}
  PROVE  \E m \in S : \A n \in S : m <= n
<1> DEFINE R == OpToRel(<, Nat)
<1>1. IsWellFoundedOn(R, Nat)
  BY NatLessThanWellFounded
<1>2. \A a, b \in Nat : <<a, b>> \in R <=> a < b
  BY DEF OpToRel
<1> HIDE DEF R
<1>3. PICK m \in S : \A n \in S : ~(<<n, m>> \in R)
  BY <1>1, WFMin
<1>4. \A n \in S : m \in Nat /\ n \in Nat /\ ~(n < m)
  BY <1>2, <1>3
<1>5. \A n \in S : m <= n
  BY <1>4
<1>. QED  BY <1>5

\* Two sequences of nodes linked from the same node are the same.
LEMMA LinksUnique ==
  ASSUME NEW h, NEW nx, NEW c \in Seq(Node), NEW d \in Seq(Node),
         Links(c, h, nx), Links(d, h, nx), Len(c) <= Len(d)
  PROVE  c = d
<1>1. Null \notin Node /\ Len(c) \in Nat /\ Len(d) \in Nat
  BY QueueAssumption
<1>2. /\ \A i \in 1..Len(c) : c[i] \in Node
      /\ \A i \in 1..Len(d) : d[i] \in Node
      /\ c = <<>> <=> Len(c) = 0
      /\ d = <<>> <=> Len(d) = 0
  OBVIOUS
<1>3. \A i \in 1..Len(c) : c[i] = d[i]
  <2> DEFINE bad == {i \in 1..Len(c) : c[i] # d[i]}
  <2> SUFFICES ASSUME bad # {} PROVE FALSE
    OBVIOUS
  <2>1. bad \in SUBSET Nat
    BY <1>1
  <2>2. PICK m \in bad : \A n \in bad : m <= n
    <3> HIDE DEF bad
    <3>. QED  BY <2>1, LeastNumber
  <2>3. m \in 1..Len(c) /\ c[m] # d[m]
    OBVIOUS
  <2>4. CASE m = 1
    <3>1. c # <<>> /\ d # <<>>
      BY <1>1, <1>2, <2>3
    <3>. QED  BY <2>3, <2>4, <3>1 DEF Links
  <2>5. CASE m # 1
    <3>1. m - 1 \in 1..Len(c) /\ m - 1 \in 1..Len(d) /\ m - 1 # Len(c) /\ m - 1 # Len(d)
      BY <1>1, <2>3, <2>5
    <3>2. m - 1 \notin bad
      BY <1>1, <2>2, <2>3
    <3>3. c[m - 1] = d[m - 1]
      BY <3>1, <3>2
    <3>4. (m - 1) + 1 = m
      BY <2>3
    <3>5. nx[c[m - 1]] = c[m] /\ nx[d[m - 1]] = d[m]
      BY <3>1, <3>4 DEF Links
    <3>. QED  BY <2>3, <3>3, <3>5
  <2>. QED  BY <2>4, <2>5
<1>4. Len(c) = Len(d)
  <2> SUFFICES ASSUME Len(c) < Len(d) PROVE FALSE
    BY <1>1
  <2>1. CASE Len(c) = 0
    <3>1. c = <<>> /\ d # <<>> /\ d[1] \in Node
      BY <1>1, <1>2, <2>1
    <3>. QED  BY <1>1, <3>1 DEF Links
  <2>2. CASE Len(c) # 0
    <3>1. Len(c) \in 1..Len(c) /\ Len(c) \in 1..Len(d) /\ Len(c) # Len(d)
          /\ Len(c) + 1 \in 1..Len(d)
      BY <1>1, <2>2
    <3>2. nx[c[Len(c)]] = Null
      BY <3>1 DEF Links
    <3>3. nx[d[Len(c)]] = d[Len(c) + 1] /\ d[Len(c) + 1] \in Node
      BY <1>2, <3>1 DEF Links
    <3>. QED  BY <1>1, <1>3, <3>1, <3>2, <3>3
  <2>. QED  BY <2>1, <2>2
<1>. QED  BY <1>3, <1>4

\* The elements of a sequence.
Elems(c) == {c[i] : i \in 1..Len(c)}
Distinct(c) == \A i, j \in 1..Len(c) : c[i] = c[j] => i = j

\* A sequence of distinct elements has as many as its length.
LEMMA DistinctCount ==
  ASSUME NEW S, NEW c \in Seq(S), Distinct(c)
  PROVE  IsFiniteSet(Elems(c)) /\ Cardinality(Elems(c)) = Len(c) /\ Len(c) \in Nat
<1>1. Len(c) \in Nat
  OBVIOUS
<1>2. c \in [1..Len(c) -> Elems(c)]
  BY DEF Elems
<1>3. c \in Bijection(1..Len(c), Elems(c))
  BY <1>2, Fun_IsBij DEF Elems, Distinct
<1>4. ExistsBijection(1..Len(c), Elems(c))
  BY <1>3 DEF ExistsBijection
<1>. QED  BY <1>1, <1>4, FS_CountingElements, FS_NatBijection

\* List(h, nx) is the sequence of nodes linked from h, if there is one.
LEMMA ListIs ==
  ASSUME NEW h, NEW nx, NEW c \in Seq(Node), Links(c, h, nx), Distinct(c)
  PROVE  List(h, nx) = c
<1>1. IsFiniteSet(Node) /\ Cardinality(Node) \in Nat
  BY QueueAssumption, FS_CardinalityType
<1>2. Len(c) \in 0..Cardinality(Node)
  <2>1. Elems(c) \in SUBSET Node
    BY DEF Elems
  <2>2. Cardinality(Elems(c)) <= Cardinality(Node)
    BY <1>1, <2>1, FS_Subset
  <2>. QED  BY <1>1, <2>2, DistinctCount
<1>3. c \in [1..Len(c) -> Node]
  OBVIOUS
<1>4. ASSUME NEW k \in 0..Cardinality(Node), NEW d \in [1..k -> Node], Links(d, h, nx)
      PROVE  k = Len(c) /\ d = c
  <2>1. d \in Seq(Node) /\ Len(d) = k /\ Len(c) \in Nat /\ k \in Nat
    BY <1>1, <1>4
  <2>2. Len(c) <= Len(d) \/ Len(d) <= Len(c)
    BY <2>1
  <2>3. d = c
    BY <1>4, <2>1, <2>2, LinksUnique
  <2>. QED  BY <2>1, <2>3
<1> DEFINE P(k) == \E d \in [1..k -> Node] : Links(d, h, nx)
           length == CHOOSE k \in 0..Cardinality(Node) : P(k)
<1>5. P(Len(c))
  BY <1>3
<1>6. \A k \in 0..Cardinality(Node) : P(k) => k = Len(c)
  BY <1>4
<1>7. length = Len(c)
  <2> HIDE DEF P
  <2>. QED  BY <1>2, <1>5, <1>6
<1>8. ASSUME NEW d \in [1..Len(c) -> Node], Links(d, h, nx) PROVE d = c
  BY <1>2, <1>4, <1>8
<1>9. (CHOOSE d \in [1..Len(c) -> Node] : Links(d, h, nx)) = c
  BY <1>3, <1>8
<1>10. List(h, nx) = CHOOSE d \in [1..length -> Node] : Links(d, h, nx)
  BY DEF List
<1> HIDE DEF length
<1>. QED  BY <1>7, <1>9, <1>10

\* The nodes of the list from m.
On(m, nx) == Elems(List(m, nx))

\* From every node of R a list comes to each of its nodes once and then ends,
\* and these lists have no node in common.
WellLinked(R, nx) ==
  /\ R \subseteq Node /\ nx \in [Node -> Pointer]
  /\ \A m \in R : /\ List(m, nx) \in Seq(Node) /\ Links(List(m, nx), m, nx)
                  /\ Distinct(List(m, nx))
  /\ \A m, n \in R : m # n => On(m, nx) \cap On(n, nx) = {}

\* Other links of other nodes do not matter.
LEMMA ListKept ==
  ASSUME NEW m, NEW nx, NEW ny, List(m, nx) \in Seq(Node), Links(List(m, nx), m, nx),
         Distinct(List(m, nx)), \A n \in On(m, nx) : ny[n] = nx[n]
  PROVE  List(m, ny) = List(m, nx) /\ Links(List(m, ny), m, ny) /\ On(m, ny) = On(m, nx)
<1>1. PICK c : c = List(m, nx)
  OBVIOUS
<1>2. \A i \in 1..Len(c) : ny[c[i]] = nx[c[i]]
  BY <1>1 DEF On, Elems
<1>3. Links(c, m, ny)
  BY <1>1, <1>2 DEF Links
<1>4. List(m, ny) = c
  BY <1>1, <1>3, ListIs
<1>. QED  BY <1>1, <1>3, <1>4 DEF On

\* A list starts with its first node and contains the node after each of its
\* nodes but the last.
LEMMA OnList ==
  ASSUME NEW R, NEW nx, WellLinked(R, nx), NEW m \in R
  PROVE  /\ m \in On(m, nx) /\ On(m, nx) \in SUBSET Node
         /\ Len(List(m, nx)) \in Nat \ {0} /\ List(m, nx)[1] = m
         /\ \A n \in On(m, nx) : nx[n] # Null => nx[n] \in On(m, nx) /\ nx[n] # m
         /\ \A n \in On(m, nx) : nx[n] = Null => n = List(m, nx)[Len(List(m, nx))]
         /\ nx[List(m, nx)[Len(List(m, nx))]] = Null
<1>1. PICK c : c = List(m, nx)
  OBVIOUS
<1>2. /\ c \in Seq(Node) /\ Links(c, m, nx) /\ Distinct(c) /\ m \in Node /\ Null \notin Node
  BY <1>1, QueueAssumption DEF WellLinked
<1>3. Len(c) \in Nat \ {0} /\ c[1] = m
  BY <1>2 DEF Links
<1>4. 1 \in 1..Len(c) /\ Len(c) \in 1..Len(c)
  BY <1>3
<1>5. m \in Elems(c) /\ Elems(c) \in SUBSET Node
  BY <1>2, <1>3, <1>4 DEF Elems
<1>6. ASSUME NEW n \in Elems(c), nx[n] # Null PROVE nx[n] \in Elems(c) /\ nx[n] # m
  <2>1. PICK i \in 1..Len(c) : n = c[i]
    BY DEF Elems
  <2>2. i # Len(c) /\ nx[n] = c[i + 1]
    BY <1>2, <1>6, <2>1 DEF Links
  <2>3. i + 1 \in 1..Len(c) /\ i + 1 # 1
    BY <1>3, <2>1, <2>2
  <2>4. c[i + 1] # c[1]
    BY <1>2, <1>4, <2>3 DEF Distinct
  <2>. QED  BY <1>3, <2>2, <2>3, <2>4 DEF Elems
<1>7. ASSUME NEW n \in Elems(c), nx[n] = Null PROVE n = c[Len(c)]
  <2>1. PICK i \in 1..Len(c) : n = c[i]
    BY DEF Elems
  <2>2. i # Len(c) => i + 1 \in 1..Len(c) /\ nx[n] = c[i + 1]
    BY <1>2, <1>3, <2>1 DEF Links
  <2>. QED  BY <1>2, <1>7, <2>1, <2>2
<1>8. nx[c[Len(c)]] = Null
  BY <1>2, <1>4 DEF Links
<1>. QED  BY <1>1, <1>3, <1>5, <1>6, <1>7, <1>8 DEF On

\* The links ny are nx with node k linked to r.
Relinked(nx, ny, k, r) ==
  /\ ny \in [Node -> Pointer] /\ ny[k] = r
  /\ \A n \in Node \ {k} : ny[n] = nx[n]

\* A node that is on no list becomes a list of its own.
LEMMA NewList ==
  ASSUME NEW R, NEW nx, NEW ny, WellLinked(R, nx), NEW n \in Node,
         \A m \in R : n \notin On(m, nx), Relinked(nx, ny, n, Null)
  PROVE  /\ WellLinked(R \cup {n}, ny)
         /\ \A m \in R : List(m, ny) = List(m, nx) /\ On(m, ny) = On(m, nx)
         /\ List(n, ny) = <<n>> /\ On(n, ny) = {n}
<1>1. /\ R \subseteq Node /\ nx \in [Node -> Pointer]
      /\ \A m \in R : /\ List(m, nx) \in Seq(Node) /\ Links(List(m, nx), m, nx)
                      /\ Distinct(List(m, nx))
      /\ \A m, k \in R : m # k => On(m, nx) \cap On(k, nx) = {}
  BY DEF WellLinked
<1>2. ny \in [Node -> Pointer] /\ ny[n] = Null /\ \A k \in Node \ {n} : ny[k] = nx[k]
  BY DEF Relinked
<1>3. \A m \in R : \A k \in On(m, nx) : ny[k] = nx[k]
  BY <1>2, OnList
<1>4. \A m \in R : List(m, ny) = List(m, nx) /\ Links(List(m, ny), m, ny) /\ On(m, ny) = On(m, nx)
  BY <1>1, <1>3, ListKept
<1>5. PICK c : c = <<n>>
  OBVIOUS
<1>6. c \in Seq(Node) /\ Len(c) = 1 /\ c[1] = n /\ c # <<>>
  BY <1>5
<1>7. Links(c, n, ny) /\ Distinct(c) /\ Elems(c) = {n}
  BY <1>2, <1>6 DEF Links, Distinct, Elems
<1>8. List(n, ny) = c
  BY <1>6, <1>7, ListIs
<1>9. On(n, ny) = {n}
  BY <1>7, <1>8 DEF On
<1>10. WellLinked(R \cup {n}, ny)
  <2>1. ASSUME NEW m \in R \cup {n}
        PROVE  List(m, ny) \in Seq(Node) /\ Links(List(m, ny), m, ny) /\ Distinct(List(m, ny))
    BY <1>1, <1>4, <1>6, <1>7, <1>8
  <2>2. ASSUME NEW m \in R \cup {n}, NEW k \in R \cup {n}, m # k
        PROVE  On(m, ny) \cap On(k, ny) = {}
    <3>1. CASE m \in R /\ k \in R
      BY <1>1, <1>4, <2>2, <3>1
    <3>2. CASE m \in R /\ k = n
      BY <1>4, <1>9, <3>2
    <3>3. CASE m = n /\ k \in R
      BY <1>4, <1>9, <3>3
    <3>. QED  BY <2>2, <3>1, <3>2, <3>3
  <2>. QED  BY <1>1, <1>2, <2>1, <2>2 DEF WellLinked
<1>. QED  BY <1>4, <1>5, <1>8, <1>9, <1>10

\* The lists by ny are those by nx, with the one from r appended to the one from p.
Joined(R, nx, ny, p, r) ==
  /\ WellLinked(R \ {r}, ny)
  /\ \A m \in R \ {p, r} : List(m, ny) = List(m, nx) /\ On(m, ny) = On(m, nx)
  /\ List(p, ny) = List(p, nx) \o List(r, nx)
  /\ On(p, ny) = On(p, nx) \cup On(r, nx)

\* The last node of the list from p gets a link to r.
LEMMA JoinLists ==
  ASSUME NEW R, NEW nx, NEW ny, NEW p, NEW r, NEW k, WellLinked(R, nx), p \in R, r \in R, p # r,
         k \in On(p, nx), nx[k] = Null, Relinked(nx, ny, k, r)
  PROVE  Joined(R, nx, ny, p, r)
<1>1. /\ R \subseteq Node /\ nx \in [Node -> Pointer]
      /\ \A m \in R : /\ List(m, nx) \in Seq(Node) /\ Links(List(m, nx), m, nx)
                      /\ Distinct(List(m, nx))
      /\ \A m, n \in R : m # n => On(m, nx) \cap On(n, nx) = {}
  BY DEF WellLinked
<1>2. k \in Node /\ r \in Node
  BY <1>1, OnList
<1>3. ny \in [Node -> Pointer] /\ ny[k] = r /\ \A n \in Node \ {k} : ny[n] = nx[n]
  BY DEF Relinked
<1>4. \A m \in R \ {p} : \A n \in On(m, nx) : ny[n] = nx[n]
  BY <1>1, <1>3, OnList
<1>5. \A m \in R \ {p} : List(m, ny) = List(m, nx) /\ Links(List(m, ny), m, ny) /\ On(m, ny) = On(m, nx)
  BY <1>1, <1>4, ListKept
<1>6. PICK c, d : c = List(p, nx) /\ d = List(r, nx)
  OBVIOUS
<1>7. /\ c \in Seq(Node) /\ Links(c, p, nx) /\ Distinct(c) /\ Len(c) \in Nat \ {0}
      /\ k = c[Len(c)] /\ c[1] = p
      /\ d \in Seq(Node) /\ Links(d, r, nx) /\ Distinct(d) /\ Len(d) \in Nat \ {0} /\ d[1] = r
  BY <1>1, <1>6, OnList
<1>8. Elems(c) \cap Elems(d) = {} /\ \A i \in 1..Len(c), j \in 1..Len(d) : c[i] # d[j]
  <2>1. Elems(c) \cap Elems(d) = {}
    BY <1>1, <1>6 DEF On
  <2>2. ASSUME NEW i \in 1..Len(c), NEW j \in 1..Len(d) PROVE c[i] # d[j]
    <3>1. c[i] \in Elems(c) /\ d[j] \in Elems(d)
      BY DEF Elems
    <3>. QED  BY <2>1, <3>1
  <2>. QED  BY <2>1, <2>2
<1>9. PICK e : e = c \o d
  OBVIOUS
<1>10. /\ e \in Seq(Node) /\ Len(e) = Len(c) + Len(d)
       /\ \A i \in 1..Len(c) : e[i] = c[i]
       /\ \A j \in 1..Len(d) : e[Len(c) + j] = d[j]
  BY <1>7, <1>9
<1>11. \A i \in 1..Len(e) : i \in 1..Len(c) \/ (i - Len(c) \in 1..Len(d) /\ i = Len(c) + (i - Len(c)))
  BY <1>7, <1>10
<1>12. Elems(e) = Elems(c) \cup Elems(d)
  <2>1. ASSUME NEW x \in Elems(e) PROVE x \in Elems(c) \cup Elems(d)
    <3>1. PICK i \in 1..Len(e) : x = e[i]
      BY DEF Elems
    <3>. QED  BY <1>10, <1>11, <3>1 DEF Elems
  <2>2. ASSUME NEW x \in Elems(c) PROVE x \in Elems(e)
    <3>1. PICK i \in 1..Len(c) : x = c[i]
      BY DEF Elems
    <3>2. i \in 1..Len(e) /\ e[i] = x
      BY <1>7, <1>10, <3>1
    <3>. QED  BY <3>2 DEF Elems
  <2>3. ASSUME NEW x \in Elems(d) PROVE x \in Elems(e)
    <3>1. PICK j \in 1..Len(d) : x = d[j]
      BY DEF Elems
    <3>2. Len(c) + j \in 1..Len(e) /\ e[Len(c) + j] = x
      BY <1>7, <1>10, <3>1
    <3>. QED  BY <3>2 DEF Elems
  <2>. QED  BY <2>1, <2>2, <2>3
<1>13. Distinct(e)
  <2> SUFFICES ASSUME NEW i \in 1..Len(e), NEW j \in 1..Len(e), e[i] = e[j] PROVE i = j
    BY DEF Distinct
  <2>1. CASE i \in 1..Len(c) /\ j \in 1..Len(c)
    BY <1>7, <1>10, <2>1 DEF Distinct
  <2>2. CASE i \in 1..Len(c) /\ j \notin 1..Len(c)
    <3>1. PICK m \in 1..Len(d) : j = Len(c) + m
      BY <1>11, <2>2
    <3>2. e[i] = c[i] /\ e[j] = d[m]
      BY <1>10, <2>2, <3>1
    <3>. QED  BY <1>8, <2>2, <3>2
  <2>3. CASE i \notin 1..Len(c) /\ j \in 1..Len(c)
    <3>1. PICK m \in 1..Len(d) : i = Len(c) + m
      BY <1>11, <2>3
    <3>2. e[j] = c[j] /\ e[i] = d[m]
      BY <1>10, <2>3, <3>1
    <3>. QED  BY <1>8, <2>3, <3>2
  <2>4. CASE i \notin 1..Len(c) /\ j \notin 1..Len(c)
    <3>1. i - Len(c) \in 1..Len(d) /\ j - Len(c) \in 1..Len(d)
      BY <1>11, <2>4
    <3>2. d[i - Len(c)] = d[j - Len(c)]
      BY <1>10, <1>11, <2>4, <3>1
    <3>3. i - Len(c) = j - Len(c)
      BY <1>7, <3>1, <3>2 DEF Distinct
    <3>. QED  BY <1>7, <3>3
  <2>. QED  BY <2>1, <2>2, <2>3, <2>4
<1>14. Links(e, p, ny)
  <2>1. e # <<>> /\ e[1] = p
    BY <1>7, <1>10
  <2>2. ASSUME NEW i \in 1..Len(e) PROVE ny[e[i]] = IF i = Len(e) THEN Null ELSE e[i + 1]
    <3>1. CASE i \in 1..Len(c) /\ i # Len(c)
      <4>1. i + 1 \in 1..Len(c) /\ i # Len(e)
        BY <1>7, <1>10, <3>1
      <4>2. c[i] # k
        BY <1>7, <3>1 DEF Distinct
      <4>3. nx[c[i]] = c[i + 1]
        BY <1>7, <3>1 DEF Links
      <4>. QED  BY <1>3, <1>7, <1>10, <3>1, <4>1, <4>2, <4>3
    <3>2. CASE i = Len(c)
      <4>1. i \in 1..Len(c) /\ i # Len(e) /\ 1 \in 1..Len(d)
        BY <1>7, <1>10, <3>2
      <4>. QED  BY <1>3, <1>7, <1>10, <3>2, <4>1
    <3>3. CASE i \notin 1..Len(c)
      <4>1. PICK j \in 1..Len(d) : i = Len(c) + j
        BY <1>11, <3>3
      <4>2. e[i] = d[j] /\ d[j] # k /\ d[j] \in Node
        <5>1. Len(c) \in 1..Len(c)
          BY <1>7
        <5>2. c[Len(c)] # d[j] /\ d[j] \in Node
          BY <1>7, <1>8, <5>1
        <5>3. e[i] = d[j]
          BY <1>10, <4>1
        <5>. QED  BY <1>7, <5>2, <5>3
      <4>3. ny[e[i]] = IF j = Len(d) THEN Null ELSE d[j + 1]
        BY <1>3, <1>7, <4>2 DEF Links
      <4>4. i = Len(e) <=> j = Len(d)
        <5>1. PICK a, b \in Nat : a = Len(c) /\ b = Len(d)
          BY <1>7
        <5>. QED  BY <1>10, <4>1, <5>1
      <4>5. j # Len(d) => j + 1 \in 1..Len(d) /\ i + 1 = Len(c) + (j + 1)
        BY <1>7, <4>1
      <4>. QED  BY <1>10, <4>3, <4>4, <4>5
    <3>. QED  BY <3>1, <3>2, <3>3
  <2>. QED  BY <2>1, <2>2 DEF Links
<1>15. List(p, ny) = e /\ On(p, ny) = On(p, nx) \cup On(r, nx)
  BY <1>6, <1>10, <1>12, <1>13, <1>14, ListIs DEF On
<1>16. WellLinked(R \ {r}, ny)
  <2>1. ASSUME NEW m \in R \ {r}
        PROVE  List(m, ny) \in Seq(Node) /\ Links(List(m, ny), m, ny) /\ Distinct(List(m, ny))
    BY <1>1, <1>5, <1>10, <1>13, <1>14, <1>15
  <2>2. ASSUME NEW m \in R \ {r}, NEW n \in R \ {r}, m # n
        PROVE  On(m, ny) \cap On(n, ny) = {}
    <3>1. CASE m # p /\ n # p
      BY <1>1, <1>5, <2>2, <3>1
    <3>2. CASE m = p
      BY <1>1, <1>5, <1>15, <2>2, <3>2
    <3>3. CASE n = p
      BY <1>1, <1>5, <1>15, <2>2, <3>3
    <3>. QED  BY <3>1, <3>2, <3>3
  <2>. QED  BY <1>1, <1>3, <2>1, <2>2 DEF WellLinked
<1>. QED  BY <1>5, <1>6, <1>9, <1>15, <1>16 DEF Joined

\* A list without its first node.
LEMMA ListTail ==
  ASSUME NEW R, NEW nx, WellLinked(R, nx), NEW m \in R
  PROVE  /\ List(nx[m], nx) = Tail(List(m, nx))
         /\ List(nx[m], nx) \in Seq(Node) /\ Distinct(List(nx[m], nx))
         /\ Links(List(nx[m], nx), nx[m], nx)
         /\ Len(List(nx[m], nx)) = Len(List(m, nx)) - 1
         /\ \A i \in 1..Len(List(nx[m], nx)) : List(nx[m], nx)[i] = List(m, nx)[i + 1]
         /\ On(nx[m], nx) = On(m, nx) \ {m}
<1>1. PICK c : c = List(m, nx)
  OBVIOUS
<1>2. /\ c \in Seq(Node) /\ Links(c, m, nx) /\ Distinct(c) /\ Len(c) \in Nat \ {0} /\ c[1] = m
      /\ nx[c[Len(c)]] = Null
  BY <1>1, OnList DEF WellLinked
<1>3. PICK d : d = Tail(c)
  OBVIOUS
<1>4. /\ d \in Seq(Node) /\ Len(d) = Len(c) - 1 /\ Len(d) \in Nat
      /\ \A i \in 1..Len(d) : d[i] = c[i + 1]
      /\ d = <<>> <=> Len(d) = 0
  <2>1. c # <<>>
    BY <1>2
  <2>2. d \in Seq(Node) /\ Len(d) = Len(c) - 1
    BY <1>2, <1>3, <2>1
  <2>3. \A i \in 1..Len(d) : d[i] = c[i + 1]
    BY <1>2, <1>3, <2>1, <2>2
  <2>. QED  BY <1>2, <2>2, <2>3
<1>5. \A i \in 1..Len(d) : i + 1 \in 1..Len(c) /\ i \in Nat
  BY <1>2, <1>4
<1>6. Distinct(d)
  BY <1>2, <1>4, <1>5 DEF Distinct
<1>7. Links(d, nx[m], nx)
  <2>1. nx[m] = IF d = <<>> THEN Null ELSE d[1]
    <3>1. 1 \in 1..Len(c) /\ (Len(c) # 1 => 1 \in 1..Len(d))
      BY <1>2, <1>4
    <3>2. nx[c[1]] = IF 1 = Len(c) THEN Null ELSE c[1 + 1]
      BY <1>2, <3>1 DEF Links
    <3>. QED  BY <1>2, <1>4, <3>1, <3>2
  <2>2. ASSUME NEW i \in 1..Len(d) PROVE nx[d[i]] = IF i = Len(d) THEN Null ELSE d[i + 1]
    <3>1. nx[c[i + 1]] = IF i + 1 = Len(c) THEN Null ELSE c[(i + 1) + 1]
      BY <1>2, <1>5 DEF Links
    <3>2. i + 1 = Len(c) <=> i = Len(d)
      BY <1>2, <1>4
    <3>3. i # Len(d) => i + 1 \in 1..Len(d)
      BY <1>4
    <3>. QED  BY <1>4, <3>1, <3>2, <3>3
  <2>. QED  BY <2>1, <2>2 DEF Links
<1>8. List(nx[m], nx) = d
  BY <1>4, <1>6, <1>7, ListIs
<1>9. Elems(d) = Elems(c) \ {m}
  <2>1. ASSUME NEW x \in Elems(d) PROVE x \in Elems(c) /\ x # m
    <3>1. PICK i \in 1..Len(d) : x = d[i]
      BY DEF Elems
    <3>2. x = c[i + 1] /\ i + 1 # 1 /\ 1 \in 1..Len(c) /\ i + 1 \in 1..Len(c)
      BY <1>2, <1>4, <1>5, <3>1
    <3>. QED  BY <1>2, <3>2 DEF Elems, Distinct
  <2>2. ASSUME NEW x \in Elems(c), x # m PROVE x \in Elems(d)
    <3>1. PICK i \in 1..Len(c) : x = c[i]
      BY DEF Elems
    <3>2. i # 1
      BY <1>2, <2>2, <3>1
    <3>3. i - 1 \in 1..Len(d) /\ (i - 1) + 1 = i
      BY <1>2, <1>4, <3>1, <3>2
    <3>. QED  BY <1>4, <3>1, <3>3 DEF Elems
  <2>. QED  BY <2>1, <2>2
<1>. QED  BY <1>1, <1>3, <1>4, <1>6, <1>7, <1>8, <1>9 DEF On

\* The first node of the list from m goes; the list is now the one from the second.
LEMMA DropFirst ==
  ASSUME NEW R, NEW nx, WellLinked(R, nx), NEW m \in R, nx[m] # Null
  PROVE  /\ WellLinked((R \ {m}) \cup {nx[m]}, nx)
         /\ nx[m] \in Node /\ nx[m] \notin R
<1>1. /\ R \subseteq Node /\ nx \in [Node -> Pointer]
      /\ \A k \in R : /\ List(k, nx) \in Seq(Node) /\ Links(List(k, nx), k, nx)
                      /\ Distinct(List(k, nx))
      /\ \A k, n \in R : k # n => On(k, nx) \cap On(n, nx) = {}
  BY DEF WellLinked
<1>2. PICK e : e = nx[m]
  OBVIOUS
<1>3. e \in On(m, nx) /\ e # m /\ m \in On(m, nx) /\ On(m, nx) \in SUBSET Node
  BY <1>2, OnList
<1>4. e \notin R
  <2> SUFFICES ASSUME e \in R PROVE FALSE
    OBVIOUS
  <2>1. e \in On(e, nx)
    BY OnList
  <2>. QED  BY <1>1, <1>3, <2>1
<1>5. /\ List(e, nx) \in Seq(Node) /\ Distinct(List(e, nx)) /\ Links(List(e, nx), e, nx)
      /\ On(e, nx) = On(m, nx) \ {m}
  BY <1>2, ListTail
<1>6. WellLinked((R \ {m}) \cup {e}, nx)
  <2>1. ASSUME NEW k \in (R \ {m}) \cup {e}, NEW n \in (R \ {m}) \cup {e}, k # n
        PROVE  On(k, nx) \cap On(n, nx) = {}
    BY <1>1, <1>5, <2>1
  <2>. QED  BY <1>1, <1>3, <1>5, <2>1 DEF WellLinked
<1>. QED  BY <1>2, <1>3, <1>4, <1>6

-----------------------------------------------------------------------------
(* The inductive invariant. *)

Tagged == [UID : Nat, DummyNode : Node]

LinkLabel == {"enq_node", "enq_uid", "enq_next", "enq_help", "enq_target", "enq_link"}
ClaimLabel == {"deq_head_node", "deq_head_uid", "deq_tail_node", "deq_tail_uid",
               "deq_head_next", "deq_tail_next", "deq_help", "deq_check", "deq_data", "deq_cas"}
CountLabel == {"enq_swing", "enq_count", "deq_restore"}
Label == {"idle", "deq_return"} \cup LinkLabel \cup CountLabel \cup ClaimLabel

TypeInv ==
  /\ mHead \in Tagged /\ mTail \in Tagged
  /\ next \in [Node -> Pointer] /\ data \in [Node -> Value]
  /\ mUsedSize \in Int
  /\ pool \in SUBSET Node /\ outside \in SUBSET Value
  /\ pc \in [Thread -> Label]
  /\ node \in [Thread -> Node]
  /\ snapHead \in [Thread -> Tagged] /\ snapTail \in [Thread -> Tagged]
  /\ headNext \in [Thread -> Pointer] /\ tailNext \in [Thread -> Pointer]
  /\ output \in [Thread -> Value]

\* Lists start from the dummy node of mHead and from the nodes of producers.
Roots == {mHead.DummyNode} \cup {node[t] : t \in Linking}
InList(n) == \E m \in Roots : n \in On(m, next)

ListInv ==
  /\ WellLinked(Roots, next)
  /\ \A t \in Linking : /\ node[t] # mHead.DummyNode
                        /\ \A u \in Linking : node[u] = node[t] => u = t

\* A node is in the pool, about to be returned by one thread, or on a list.
Returned(t, n) == pc[t] = "deq_return" /\ snapHead[t].DummyNode = n
NodeInv ==
  /\ \A n \in pool : ~InList(n)
  /\ \A t \in Thread, n \in Node : Returned(t, n) =>
       n \notin pool /\ ~InList(n) /\ \A u \in Thread : Returned(u, n) => u = t
  /\ \A n \in Node : n \in pool \/ InList(n) \/ \E t \in Thread : Returned(t, n)

TailInv == mTail.DummyNode \in On(mHead.DummyNode, next)

\* A node that a producer is about to link to is on a list; or it has left
\* the queue, with a link that is not Null.
TargetInv ==
  \A t \in Thread : pc[t] = "enq_link" =>
    tailNext[t] \in Node /\ (InList(tailNext[t]) \/ next[tailNext[t]] # Null)

\* The producers in the order in which they have rented their nodes: if t is
\* about to link to the list of u, then u has rented its node after t.
Ranked(rank, m) ==
  /\ \A t \in Thread : rank[t] < m
  /\ \A t \in Thread, u \in Linking :
       pc[t] = "enq_link" /\ tailNext[t] \in On(node[u], next) => rank[t] < rank[u]
RankInv == \E rank \in [Thread -> Nat], m \in Nat : Ranked(rank, m)

\* A snapshot is never from the future, so that mHead or mTail that equals it
\* has not changed since.  A producer's exchange moves mTail to the next node,
\* and so does a consumer's, whose own exchange finds mTail beyond mHead.
TailSnap(t) ==
  /\ snapTail[t].UID <= mTail.UID
  /\ pc[t] \in {"enq_help", "deq_help"} =>
       tailNext[t] # Null /\ (mTail = snapTail[t] => tailNext[t] = next[mTail.DummyNode])
  /\ pc[t] = "enq_link" /\ mTail = snapTail[t] => tailNext[t] = mTail.DummyNode
  /\ pc[t] = "enq_swing" /\ mTail = snapTail[t] => node[t] = next[mTail.DummyNode]

HeadSnap(t) ==
  /\ snapHead[t].UID <= mHead.UID
  /\ pc[t] \in {"deq_help", "deq_check", "deq_data", "deq_cas"} => headNext[t] # Null
  /\ /\ pc[t] \in {"deq_tail_next", "deq_help", "deq_check", "deq_data", "deq_cas"}
     /\ mHead = snapHead[t] /\ headNext[t] # Null
     => headNext[t] = next[mHead.DummyNode]
  /\ /\ pc[t] \in {"deq_tail_uid", "deq_head_next", "deq_tail_next"}
     /\ mHead = snapHead[t] /\ mTail.DummyNode = mHead.DummyNode
     => snapTail[t].DummyNode = mHead.DummyNode
  /\ pc[t] \in {"deq_check", "deq_data", "deq_cas"} /\ mHead = snapHead[t] =>
       mTail.DummyNode # mHead.DummyNode
  /\ pc[t] = "deq_cas" /\ mHead = snapHead[t] => output[t] = data[headNext[t]]

SnapInv == \A t \in Thread : TailSnap(t) /\ HeadSnap(t)

\* A value is with the callers, in one node on a list, or with one consumer.
Live(n) == InList(n) /\ n # mHead.DummyNode
Taken(t, v) == pc[t] = "deq_return" /\ output[t] = v
ValueInv ==
  /\ \A n \in Node : Live(n) => data[n] \notin outside
  /\ \A n, k \in Node : Live(n) /\ Live(k) /\ data[n] = data[k] => n = k
  /\ \A t \in Thread, v \in Value : Taken(t, v) =>
       /\ v \notin outside
       /\ \A n \in Node : Live(n) => data[n] # v
       /\ \A u \in Thread : Taken(u, v) => u = t
  /\ \A v \in Value : \/ v \in outside \/ (\E n \in Node : Live(n) /\ data[n] = v)
                      \/ (\E t \in Thread : Taken(t, v))

\* mUsedSize is the number of values in nodes, less the calls in between.
BusyLabel == LinkLabel \cup CountLabel \cup ClaimLabel
LiveNodes == {n \in Node : Live(n)}
SizeInv == mUsedSize = Cardinality(LiveNodes) - Cardinality({t \in Thread : pc[t] \in BusyLabel})

IInv ==
  /\ TypeInv /\ ListInv /\ NodeInv /\ TailInv /\ TargetInv /\ RankInv /\ SnapInv /\ ValueInv
  /\ SizeInv

\* The abstract queue and the values outside it.
AbsQueue == [i \in 1..Len(Chain) |-> data[Chain[i]]]
AbsOutside == outside \cup {data[node[t]] : t \in Linking} \cup {data[n] : n \in Hanging}
                      \cup {output[t] : t \in At({"deq_return"})}
AbsKept == AbsQueue' = AbsQueue /\ AbsOutside' = AbsOutside

\* The nodes behind the first node of a list.
LEMMA NodesAfter ==
  ASSUME NEW R, NEW nx, WellLinked(R, nx), NEW m \in R
  PROVE  {List(nx[m], nx)[i] : i \in DOMAIN List(nx[m], nx)} = On(m, nx) \ {m}
<1>1. PICK d : d = List(nx[m], nx)
  OBVIOUS
<1>2. d \in Seq(Node) /\ Elems(d) = On(m, nx) \ {m}
  BY <1>1, ListTail DEF On
<1>3. DOMAIN d = 1..Len(d)
  BY <1>2
<1>. QED  BY <1>1, <1>2, <1>3 DEF Elems

\* The producers with an unlinked node, by the labels of Enqueue before its link.
LEMMA InLinking ==
  /\ Linking = {t \in Thread : pc[t] \in LinkLabel}
  /\ Linking' = {t \in Thread : pc'[t] \in LinkLabel}
  BY DEF Linking, At, LinkLabel

\* A value outside the abstract queue is with the callers, in a list that is not
\* linked yet, or with a consumer.
OutsideIs(v) ==
  \/ v \in outside
  \/ \E t \in Thread : pc[t] \in LinkLabel /\ \E n \in On(node[t], next) : data[n] = v
  \/ \E t \in Thread : Taken(t, v)

\* A hanging node is behind the node of a producer that has not linked it yet.
LEMMA InHanging ==
  ASSUME ListInv, NEW n
  PROVE  n \in Hanging <=> \E t \in Thread : pc[t] \in LinkLabel /\ n \in On(node[t], next) \ {node[t]}
<1>1. ASSUME NEW t \in Linking
      PROVE  {After(node[t])[i] : i \in DOMAIN After(node[t])} = On(node[t], next) \ {node[t]}
  <2>1. node[t] \in Roots /\ WellLinked(Roots, next)
    BY DEF ListInv, Roots
  <2>. QED  BY <2>1, NodesAfter DEF After
<1>2. Hanging = UNION {On(node[t], next) \ {node[t]} : t \in Linking}
  BY <1>1 DEF Hanging
<1>. QED  BY <1>2, InLinking

\* The same after a step.
LEMMA InHangingNext ==
  ASSUME ListInv', NEW n
  PROVE  n \in Hanging' <=>
           \E t \in Thread : pc'[t] \in LinkLabel /\ n \in On(node'[t], next') \ {node'[t]}
<1>1. ASSUME NEW t \in Linking'
      PROVE  {After(node[t])'[i] : i \in DOMAIN After(node[t])'} = On(node'[t], next') \ {node'[t]}
  <2>1. node'[t] \in Roots' /\ WellLinked(Roots', next')
    BY DEF ListInv, Roots
  <2>. QED  BY <2>1, NodesAfter DEF After
<1>2. Hanging' = UNION {On(node'[t], next') \ {node'[t]} : t \in Linking'}
  BY <1>1 DEF Hanging
<1>. QED  BY <1>2, InLinking

\* AbsOutside, member by member.
LEMMA InAbsOutside ==
  ASSUME ListInv, NEW v
  PROVE  v \in AbsOutside <=> OutsideIs(v)
<1>1. v \in AbsOutside <=>
        \/ v \in outside
        \/ \E t \in Thread : pc[t] \in LinkLabel /\ data[node[t]] = v
        \/ \E n \in Hanging : data[n] = v
        \/ \E t \in Thread : Taken(t, v)
  BY InLinking DEF AbsOutside, At, Taken
<1>2. \A t \in Thread : pc[t] \in LinkLabel => node[t] \in On(node[t], next)
  BY InLinking, OnList DEF ListInv, Roots
<1>3. (\E n \in Hanging : data[n] = v) <=>
        \E t \in Thread : pc[t] \in LinkLabel /\ \E n \in On(node[t], next) \ {node[t]} : data[n] = v
  BY InHanging
<1>. QED  BY <1>1, <1>2, <1>3 DEF OutsideIs

\* The same after a step.
LEMMA InAbsOutsideNext ==
  ASSUME ListInv', NEW v
  PROVE  v \in AbsOutside' <=> OutsideIs(v)'
<1>1. v \in AbsOutside' <=>
        \/ v \in outside'
        \/ \E t \in Thread : pc'[t] \in LinkLabel /\ data'[node'[t]] = v
        \/ \E n \in Hanging' : data'[n] = v
        \/ \E t \in Thread : Taken(t, v)'
  BY InLinking DEF AbsOutside, At, Taken
<1>2. \A t \in Thread : pc'[t] \in LinkLabel => node'[t] \in On(node'[t], next')
  BY InLinking, OnList DEF ListInv, Roots
<1>3. (\E n \in Hanging' : data'[n] = v) <=>
        \E t \in Thread : pc'[t] \in LinkLabel /\ \E n \in On(node'[t], next') \ {node'[t]} : data'[n] = v
  BY InHangingNext
<1>. QED  BY <1>1, <1>2, <1>3 DEF OutsideIs

-----------------------------------------------------------------------------
(* Types. *)

\* Every step keeps the types.
LEMMA TypeStep ==
  TypeInv /\ NodeInv /\ TargetInv /\ SnapInv /\ [Next]_vars => TypeInv'
<1> SUFFICES ASSUME TypeInv, NodeInv, TargetInv, SnapInv, [Next]_vars PROVE TypeInv'
  OBVIOUS
<1> USE DEF TypeInv, Goto, Label, LinkLabel, CountLabel, ClaimLabel
<1>1. /\ \A t \in Thread : /\ [snapTail[t] EXCEPT !.DummyNode = mTail.DummyNode] \in Tagged
                           /\ [snapTail[t] EXCEPT !.UID = mTail.UID] \in Tagged
                           /\ [snapHead[t] EXCEPT !.DummyNode = mHead.DummyNode] \in Tagged
                           /\ [snapHead[t] EXCEPT !.UID = mHead.UID] \in Tagged
      /\ Producer \subseteq Thread /\ Consumer \subseteq Thread
  BY DEF Tagged, Thread
<1>2. ASSUME NEW t \in Thread, NEW v \in Value, EnqueueRent(t, v) PROVE TypeInv'
  BY <1>2 DEF EnqueueRent, Pointer
<1>3. ASSUME NEW t \in Thread, EnqueueTailNode(t) PROVE TypeInv'
  BY <1>1, <1>3 DEF EnqueueTailNode, ReadTailNode, nodeVars
<1>4. ASSUME NEW t \in Thread, EnqueueTailUid(t) PROVE TypeInv'
  BY <1>1, <1>4 DEF EnqueueTailUid, ReadTailUid, nodeVars
<1>5. ASSUME NEW t \in Thread, EnqueueTailNext(t) PROVE TypeInv'
  <2>1. next[snapTail[t].DummyNode] \in Pointer
    BY DEF Tagged
  <2>. QED  BY <1>5, <2>1 DEF EnqueueTailNext, nodeVars
<1>6. ASSUME NEW t \in Thread, EnqueueHelp(t) PROVE TypeInv'
  <2>1. [UID |-> snapTail[t].UID + 1, DummyNode |-> tailNext[t]] \in Tagged
    BY <1>6 DEF EnqueueHelp, SnapInv, TailSnap, Tagged, Pointer
  <2>. QED  BY <1>6, <2>1 DEF EnqueueHelp, TailCas, nodeVars, regVars
<1>7. ASSUME NEW t \in Thread, EnqueueTarget(t) PROVE TypeInv'
  BY <1>7 DEF EnqueueTarget, nodeVars, Tagged, Pointer
<1>8. ASSUME NEW t \in Thread, EnqueueLink(t) PROVE TypeInv'
  BY <1>8 DEF EnqueueLink, TargetInv, regVars, Pointer
<1>9. ASSUME NEW t \in Thread, EnqueueSwing(t) PROVE TypeInv'
  <2>1. [UID |-> snapTail[t].UID + 1, DummyNode |-> node[t]] \in Tagged
    BY DEF Tagged
  <2>. QED  BY <1>9, <2>1 DEF EnqueueSwing, TailCas, nodeVars, regVars
<1>10. ASSUME NEW t \in Thread, EnqueueCount(t) PROVE TypeInv'
  BY <1>10 DEF EnqueueCount, nodeVars, regVars
<1>11. ASSUME NEW t \in Thread, DequeueReserve(t) \/ DequeueRestore(t) PROVE TypeInv'
  BY <1>11 DEF DequeueReserve, DequeueRestore, nodeVars, regVars
<1>12. ASSUME NEW t \in Thread, DequeueHeadNode(t) PROVE TypeInv'
  BY <1>1, <1>12 DEF DequeueHeadNode, nodeVars
<1>13. ASSUME NEW t \in Thread, DequeueHeadUid(t) PROVE TypeInv'
  BY <1>1, <1>13 DEF DequeueHeadUid, nodeVars
<1>14. ASSUME NEW t \in Thread, DequeueTailNode(t) PROVE TypeInv'
  BY <1>1, <1>14 DEF DequeueTailNode, ReadTailNode, nodeVars
<1>15. ASSUME NEW t \in Thread, DequeueTailUid(t) PROVE TypeInv'
  BY <1>1, <1>15 DEF DequeueTailUid, ReadTailUid, nodeVars
<1>16. ASSUME NEW t \in Thread, DequeueHeadNext(t) PROVE TypeInv'
  <2>1. next[snapHead[t].DummyNode] \in Pointer
    BY DEF Tagged
  <2>. QED  BY <1>16, <2>1 DEF DequeueHeadNext, nodeVars
<1>17. ASSUME NEW t \in Thread, DequeueTailNext(t) PROVE TypeInv'
  <2>1. next[snapTail[t].DummyNode] \in Pointer
    BY DEF Tagged
  <2>. QED  BY <1>17, <2>1 DEF DequeueTailNext, nodeVars
<1>18. ASSUME NEW t \in Thread, DequeueHelp(t) PROVE TypeInv'
  <2>1. [UID |-> snapTail[t].UID + 1, DummyNode |-> tailNext[t]] \in Tagged
    BY <1>18 DEF DequeueHelp, SnapInv, TailSnap, Tagged, Pointer
  <2>. QED  BY <1>18, <2>1 DEF DequeueHelp, TailCas, nodeVars, regVars
<1>19. ASSUME NEW t \in Thread, DequeueCheckTail(t) PROVE TypeInv'
  BY <1>19 DEF DequeueCheckTail, nodeVars, regVars
<1>20. ASSUME NEW t \in Thread, DequeueData(t) PROVE TypeInv'
  <2>1. headNext[t] \in Node
    BY <1>20 DEF DequeueData, SnapInv, HeadSnap, Pointer
  <2>. QED  BY <1>20, <2>1 DEF DequeueData, nodeVars
<1>21. ASSUME NEW t \in Thread, DequeueCas(t) PROVE TypeInv'
  <2>1. [UID |-> snapHead[t].UID + 1, DummyNode |-> headNext[t]] \in Tagged
    BY <1>21 DEF DequeueCas, SnapInv, HeadSnap, Tagged, Pointer
  <2>. QED  BY <1>21, <2>1 DEF DequeueCas, nodeVars, regVars
<1>22. ASSUME NEW t \in Thread, DequeueReturn(t) PROVE TypeInv'
  <2>1. snapHead[t].DummyNode \in Node
    BY DEF Tagged
  <2>. QED  BY <1>22, <2>1 DEF DequeueReturn, regVars
<1>23. CASE UNCHANGED vars
  BY <1>23 DEF vars, nodeVars, regVars
<1> HIDE DEF TypeInv
<1>. QED
  BY <1>1, <1>2, <1>3, <1>4, <1>5, <1>6, <1>7, <1>8, <1>9, <1>10, <1>11, <1>12, <1>13, <1>14,
     <1>15, <1>16, <1>17, <1>18, <1>19, <1>20, <1>21, <1>22, <1>23 DEF Next, Enqueue, TryDequeue

-----------------------------------------------------------------------------
(* Steps that leave the lists as they are. *)

\* The threads inside a call, of program counters p.
Busy(p) == {t \in Thread : p[t] \in BusyLabel}

\* What the step of one thread does to their number.
LEMMA BusyStep ==
  ASSUME TypeInv, NEW t \in Thread, NEW l, Goto(t, l)
  PROVE  /\ Cardinality(Busy(pc)) \in Nat /\ Cardinality(Busy(pc')) \in Nat
         /\ l \in BusyLabel /\ pc[t] \notin BusyLabel =>
              Cardinality(Busy(pc')) = Cardinality(Busy(pc)) + 1
         /\ l \notin BusyLabel /\ pc[t] \in BusyLabel =>
              Cardinality(Busy(pc')) = Cardinality(Busy(pc)) - 1
         /\ (l \in BusyLabel <=> pc[t] \in BusyLabel) =>
              Cardinality(Busy(pc')) = Cardinality(Busy(pc))
<1>1. pc'[t] = l /\ \A u \in Thread \ {t} : pc'[u] = pc[u]
  BY DEF TypeInv, Goto
<1>2. PICK P, Q : P = Busy(pc) /\ Q = Busy(pc')
  OBVIOUS
<1>3. IsFiniteSet(P) /\ IsFiniteSet(Q) /\ Cardinality(P) \in Nat /\ Cardinality(Q) \in Nat
  <2>1. P \in SUBSET Thread /\ Q \in SUBSET Thread /\ IsFiniteSet(Thread)
    BY <1>2, QueueAssumption DEF Busy
  <2>. QED  BY <2>1, FS_Subset, FS_CardinalityType
<1>4. ASSUME l \in BusyLabel, pc[t] \notin BusyLabel PROVE Cardinality(Q) = Cardinality(P) + 1
  <2>1. Q = P \cup {t} /\ t \notin P
    BY <1>1, <1>2, <1>4 DEF Busy
  <2>. QED  BY <1>3, <2>1, FS_AddElement
<1>5. ASSUME l \notin BusyLabel, pc[t] \in BusyLabel PROVE Cardinality(Q) = Cardinality(P) - 1
  <2>1. Q = P \ {t} /\ t \in P
    BY <1>1, <1>2, <1>5 DEF Busy
  <2>. QED  BY <1>3, <2>1, FS_RemoveElement
<1>6. ASSUME l \in BusyLabel <=> pc[t] \in BusyLabel PROVE Q = P
  BY <1>1, <1>2, <1>6 DEF Busy
<1>. QED  BY <1>2, <1>3, <1>4, <1>5, <1>6

\* Unchanged links, head and nodes of producers: the lists are the same.
LEMMA ListsKept ==
  ASSUME ListInv, UNCHANGED <<next, mHead, node>>,
         \A u \in Thread : pc'[u] \in LinkLabel <=> pc[u] \in LinkLabel
  PROVE  /\ ListInv' /\ Roots' = Roots /\ Linking' = Linking /\ Chain' = Chain
         /\ \A n : (InList(n)' <=> InList(n)) /\ (Live(n)' <=> Live(n))
         /\ LiveNodes' = LiveNodes
<1>1. Linking' = Linking
  BY InLinking
<1>2. Roots' = Roots
  BY <1>1 DEF Roots
<1>3. \A n : (InList(n)' <=> InList(n)) /\ (Live(n)' <=> Live(n))
  BY <1>2 DEF InList, Live
<1>4. ListInv'
  BY <1>1, <1>2 DEF ListInv
<1>5. Chain' = Chain
  BY DEF Chain, After
<1>. QED  BY <1>1, <1>2, <1>3, <1>4, <1>5 DEF LiveNodes

\* Nobody gives away a node or a value: each is where it was.
LEMMA OwnersKept ==
  ASSUME ListInv, NodeInv, ValueInv, UNCHANGED <<next, mHead, node, pool, data, outside>>,
         \A u \in Thread : /\ pc'[u] \in LinkLabel <=> pc[u] \in LinkLabel
                           /\ pc'[u] = "deq_return" <=> pc[u] = "deq_return"
                           /\ pc[u] = "deq_return" =>
                                snapHead'[u] = snapHead[u] /\ output'[u] = output[u]
  PROVE  ListInv' /\ NodeInv' /\ ValueInv' /\ AbsKept
<1>1. /\ ListInv' /\ Roots' = Roots /\ Chain' = Chain
      /\ \A n : (InList(n)' <=> InList(n)) /\ (Live(n)' <=> Live(n))
  BY ListsKept
<1>2. \A u \in Thread : \A x : (Returned(u, x)' <=> Returned(u, x)) /\ (Taken(u, x)' <=> Taken(u, x))
  BY DEF Returned, Taken
<1>3. NodeInv'
  BY <1>1, <1>2 DEF NodeInv
<1>4. ValueInv'
  BY <1>1, <1>2 DEF ValueInv
<1>5. AbsQueue' = AbsQueue
  BY <1>1 DEF AbsQueue
<1>6. ASSUME NEW v PROVE v \in AbsOutside' <=> v \in AbsOutside
  <2>1. OutsideIs(v)' <=> OutsideIs(v)
    BY <1>2 DEF OutsideIs
  <2>. QED  BY <1>1, <2>1, InAbsOutside, InAbsOutsideNext
<1>. QED  BY <1>1, <1>3, <1>4, <1>5, <1>6 DEF AbsKept

\* The other threads do not move.
Only(t) ==
  \A u \in Thread \ {t} :
    /\ pc'[u] = pc[u] /\ node'[u] = node[u] /\ output'[u] = output[u]
    /\ snapHead'[u] = snapHead[u] /\ snapTail'[u] = snapTail[u]
    /\ headNext'[u] = headNext[u] /\ tailNext'[u] = tailNext[u]

\* mTail stays, or moves to the next node.
TailMoves ==
  \/ mTail' = mTail
  \/ /\ mTail'.UID > mTail.UID
     /\ next[mTail.DummyNode] # Null /\ mTail'.DummyNode = next[mTail.DummyNode]

\* The snapshots of the other threads keep their properties.
LEMMA SnapsKept ==
  ASSUME SnapInv, TypeInv, TypeInv', ListInv, TailInv, NEW t \in Thread, Only(t), TailMoves,
         mHead' = mHead \/ mHead'.UID > mHead.UID,
         \A n \in {mHead.DummyNode, mTail.DummyNode} : next[n] # Null => next'[n] = next[n],
         next[mHead.DummyNode] # Null => data'[next[mHead.DummyNode]] = data[next[mHead.DummyNode]],
         TailSnap(t)', HeadSnap(t)'
  PROVE  SnapInv'
<1> SUFFICES ASSUME NEW u \in Thread \ {t} PROVE TailSnap(u)' /\ HeadSnap(u)'
  BY DEF SnapInv
<1>1. /\ mHead \in Tagged /\ mTail \in Tagged /\ mHead' \in Tagged /\ mTail' \in Tagged
      /\ snapHead[u] \in Tagged /\ snapTail[u] \in Tagged /\ Null \notin Node
      /\ node[u] \in Node /\ next \in [Node -> Pointer]
  BY QueueAssumption DEF TypeInv
<1>2. /\ pc'[u] = pc[u] /\ node'[u] = node[u] /\ output'[u] = output[u]
      /\ snapHead'[u] = snapHead[u] /\ snapTail'[u] = snapTail[u]
      /\ headNext'[u] = headNext[u] /\ tailNext'[u] = tailNext[u]
  BY DEF Only
<1>3. TailSnap(u) /\ HeadSnap(u)
  BY DEF SnapInv
<1>4. mTail' = mTail \/ (mTail' # snapTail[u] /\ snapTail[u].UID <= mTail'.UID)
  <2>1. mTail'.UID > mTail.UID /\ snapTail[u].UID <= mTail.UID => mTail' # snapTail[u] /\ snapTail[u].UID <= mTail'.UID
    BY <1>1 DEF Tagged
  <2>. QED  BY <1>3, <2>1 DEF TailMoves, TailSnap
<1>5. mHead' = mHead \/ (mHead' # snapHead[u] /\ snapHead[u].UID <= mHead'.UID)
  <2>1. mHead'.UID > mHead.UID /\ snapHead[u].UID <= mHead.UID => mHead' # snapHead[u] /\ snapHead[u].UID <= mHead'.UID
    BY <1>1 DEF Tagged
  <2>. QED  BY <1>3, <2>1 DEF HeadSnap
<1>6. TailSnap(u)'
  BY <1>1, <1>2, <1>3, <1>4 DEF TailSnap
<1>7. mTail' = mTail \/ mTail'.DummyNode # mHead.DummyNode
  <2>1. WellLinked(Roots, next) /\ mHead.DummyNode \in Roots
    BY DEF ListInv, Roots
  <2>. QED  BY <2>1, OnList DEF TailMoves, TailInv
<1>8. HeadSnap(u)'
  BY <1>1, <1>2, <1>3, <1>5, <1>7 DEF HeadSnap
<1>. QED  BY <1>6, <1>8

\* The step of one thread inside a call that changes neither the lists nor who
\* owns a node or a value.
LEMMA QuietStep ==
  ASSUME IInv, TypeInv', NEW t \in Thread, NEW l, Goto(t, l), Only(t),
         UNCHANGED <<mHead, next, data, pool, outside, node>>,
         pc[t] # "deq_return", l # "deq_return", pc[t] \in LinkLabel <=> l \in LinkLabel,
         TailMoves, TailSnap(t)', HeadSnap(t)',
         l = "enq_link" => tailNext'[t] = mTail.DummyNode,
         \/ mUsedSize' = mUsedSize /\ (pc[t] \in BusyLabel <=> l \in BusyLabel)
         \/ mUsedSize' = mUsedSize + 1 /\ pc[t] \in BusyLabel /\ l \notin BusyLabel
         \/ mUsedSize' = mUsedSize - 1 /\ pc[t] \notin BusyLabel /\ l \in BusyLabel
  PROVE  IInv' /\ AbsKept
<1> USE DEF IInv
<1>1. pc'[t] = l /\ \A u \in Thread \ {t} : pc'[u] = pc[u]
  BY DEF TypeInv, Goto
<1>2. ListInv' /\ NodeInv' /\ ValueInv' /\ AbsKept
  <2>1. \A u \in Thread : /\ pc'[u] \in LinkLabel <=> pc[u] \in LinkLabel
                          /\ pc'[u] = "deq_return" <=> pc[u] = "deq_return"
                          /\ pc[u] = "deq_return" =>
                               snapHead'[u] = snapHead[u] /\ output'[u] = output[u]
    BY <1>1 DEF Only
  <2>. QED  BY <2>1, OwnersKept
<1>3. /\ Roots' = Roots /\ Linking' = Linking /\ LiveNodes' = LiveNodes
      /\ \A n : InList(n)' <=> InList(n)
  BY <1>1, ListsKept
<1>4. WellLinked(Roots, next) /\ mHead.DummyNode \in Roots /\ \A u \in Linking : node[u] \in Roots
  BY DEF ListInv, Roots
<1>5. TailInv'
  BY <1>4, OnList DEF TailInv, TailMoves
<1>6. TargetInv'
  <2> SUFFICES ASSUME NEW u \in Thread, pc'[u] = "enq_link"
               PROVE  tailNext'[u] \in Node /\ (InList(tailNext'[u]) \/ next[tailNext'[u]] # Null)
    BY <1>3 DEF TargetInv
  <2>1. CASE u = t
    <3>1. tailNext'[u] = mTail.DummyNode
      BY <1>1, <2>1
    <3>. QED  BY <1>4, <3>1, OnList DEF TailInv, InList
  <2>2. CASE u # t
    BY <1>1, <2>2 DEF TargetInv, Only
  <2>. QED  BY <2>1, <2>2
<1>7. RankInv'
  <2>1. PICK rank \in [Thread -> Nat], m \in Nat : Ranked(rank, m)
    BY DEF RankInv
  <2>2. ASSUME NEW u \in Thread, NEW w \in Linking, pc'[u] = "enq_link",
               tailNext'[u] \in On(node[w], next)
        PROVE  rank[u] < rank[w]
    <3>1. CASE u = t
      <4>1. tailNext'[u] = mTail.DummyNode
        BY <1>1, <2>2, <3>1
      <4>2. On(node[w], next) \cap On(mHead.DummyNode, next) = {}
        BY <1>4 DEF ListInv, WellLinked
      <4>. QED  BY <2>2, <4>1, <4>2 DEF TailInv
    <3>2. CASE u # t
      BY <1>1, <2>1, <2>2, <3>2 DEF Ranked, Only
    <3>. QED  BY <3>1, <3>2
  <2>3. Ranked(rank, m)'
    BY <1>3, <2>1, <2>2 DEF Ranked
  <2>. QED  BY <2>3 DEF RankInv
<1>8. SnapInv'
  BY SnapsKept
<1>9. SizeInv'
  <2>1. /\ Cardinality(Busy(pc)) \in Nat /\ Cardinality(Busy(pc')) \in Nat
        /\ l \in BusyLabel /\ pc[t] \notin BusyLabel =>
             Cardinality(Busy(pc')) = Cardinality(Busy(pc)) + 1
        /\ l \notin BusyLabel /\ pc[t] \in BusyLabel =>
             Cardinality(Busy(pc')) = Cardinality(Busy(pc)) - 1
        /\ (l \in BusyLabel <=> pc[t] \in BusyLabel) =>
             Cardinality(Busy(pc')) = Cardinality(Busy(pc))
    BY BusyStep
  <2>2. mUsedSize = Cardinality(LiveNodes) - Cardinality(Busy(pc)) /\ mUsedSize \in Int
    BY DEF SizeInv, Busy, TypeInv
  <2>3. Cardinality(LiveNodes) \in Nat
    <3>1. IsFiniteSet(Node) /\ LiveNodes \in SUBSET Node
      BY QueueAssumption DEF LiveNodes
    <3>. QED  BY <3>1, FS_Subset, FS_CardinalityType
  <2>4. mUsedSize' = Cardinality(LiveNodes) - Cardinality(Busy(pc'))
    BY <2>1, <2>2, <2>3
  <2>. QED  BY <1>3, <2>4 DEF SizeInv, Busy
<1>. QED  BY <1>2, <1>5, <1>6, <1>7, <1>8, <1>9

\* A producer reads mTail.
LEMMA EnqueueReads ==
  ASSUME IInv, TypeInv', NEW t \in Thread,
         \/ EnqueueTailNode(t) \/ EnqueueTailUid(t) \/ EnqueueTailNext(t) \/ EnqueueTarget(t)
         \/ (EnqueueLink(t) /\ next[tailNext[t]] # Null)
  PROVE  IInv' /\ AbsKept
<1> DEFINE l == pc'[t]
<1>1. /\ pc[t] \in LinkLabel /\ l \in LinkLabel /\ Goto(t, l) /\ Only(t)
      /\ UNCHANGED <<mHead, mTail, mUsedSize, next, data, pool, node, snapHead, headNext, output, outside>>
  <2>1. \E k \in LinkLabel : Goto(t, k) /\ pc[t] \in LinkLabel
    BY DEF EnqueueTailNode, EnqueueTailUid, EnqueueTailNext, EnqueueTarget, EnqueueLink, LinkLabel
  <2>2. pc[t] \in LinkLabel /\ l \in LinkLabel /\ Goto(t, l)
    BY <2>1 DEF Goto, IInv, TypeInv
  <2>. QED
    BY <2>1, <2>2 DEF EnqueueTailNode, EnqueueTailUid, EnqueueTailNext, EnqueueTarget, EnqueueLink,
         ReadTailNode, ReadTailUid, nodeVars, regVars, Only, Goto, IInv, TypeInv
<1>2. /\ mTail \in Tagged /\ snapTail[t] \in Tagged /\ snapTail'[t] \in Tagged
      /\ snapHead[t].UID <= mHead.UID /\ snapTail[t].UID <= mTail.UID
  BY DEF IInv, TypeInv, SnapInv, TailSnap, HeadSnap
<1>3. HeadSnap(t)'
  BY <1>1, <1>2 DEF HeadSnap, LinkLabel
<1>4. TailSnap(t)' /\ (l = "enq_link" => tailNext'[t] = mTail.DummyNode)
  <2>1. CASE EnqueueTailNode(t)
    <3>1. l = "enq_uid" /\ snapTail'[t].UID = snapTail[t].UID
      BY <1>2, <2>1 DEF EnqueueTailNode, ReadTailNode, Goto, IInv, TypeInv, Tagged
    <3>. QED  BY <1>1, <1>2, <3>1 DEF TailSnap
  <2>2. CASE EnqueueTailUid(t)
    <3>1. l = "enq_next" /\ snapTail'[t].UID = mTail.UID
      BY <1>2, <2>2 DEF EnqueueTailUid, ReadTailUid, Goto, IInv, TypeInv, Tagged
    <3>. QED  BY <1>1, <1>2, <3>1 DEF TailSnap, Tagged
  <2>3. CASE EnqueueTailNext(t)
    <3>1. /\ snapTail' = snapTail /\ tailNext'[t] = next[snapTail[t].DummyNode]
          /\ l = IF next[snapTail[t].DummyNode] # Null THEN "enq_help" ELSE "enq_target"
      BY <2>3 DEF EnqueueTailNext, Goto, IInv, TypeInv
    <3>. QED  BY <1>1, <1>2, <3>1 DEF TailSnap
  <2>4. CASE EnqueueTarget(t)
    <3>1. snapTail' = snapTail /\ tailNext'[t] = mTail.DummyNode /\ l = "enq_link"
      BY <2>4 DEF EnqueueTarget, Goto, IInv, TypeInv
    <3>. QED  BY <1>1, <1>2, <3>1 DEF TailSnap
  <2>5. CASE EnqueueLink(t) /\ next[tailNext[t]] # Null
    <3>1. snapTail' = snapTail /\ l = "enq_node"
      BY <2>5 DEF EnqueueLink, regVars, Goto, IInv, TypeInv
    <3>. QED  BY <1>1, <1>2, <3>1 DEF TailSnap
  <2>. QED  BY <2>1, <2>2, <2>3, <2>4, <2>5
<1>5. /\ pc[t] # "deq_return" /\ l # "deq_return" /\ (pc[t] \in BusyLabel <=> l \in BusyLabel)
  BY <1>1 DEF LinkLabel, BusyLabel
<1> HIDE DEF l
<1>. QED  BY <1>1, <1>3, <1>4, <1>5, QuietStep DEF TailMoves

\* What the exchange of mTail does.
LEMMA TailCasMoves ==
  ASSUME IInv, NEW t \in Thread, NEW n \in Node, TailCas(t, n),
         mTail = snapTail[t] => n = next[mTail.DummyNode]
  PROVE  /\ TailMoves
         /\ mTail'.UID >= mTail.UID /\ mTail'.UID \in Nat
         /\ mTail = snapTail[t] => mTail'.DummyNode # mHead.DummyNode
<1>1. mTail \in Tagged /\ mTail.UID \in Nat /\ snapTail[t] \in Tagged /\ Null \notin Node
  BY QueueAssumption DEF IInv, TypeInv, Tagged
<1>2. CASE mTail = snapTail[t]
  <2>1. mTail' = [UID |-> mTail.UID + 1, DummyNode |-> n]
    BY <1>2 DEF TailCas
  <2>2. mTail'.UID = mTail.UID + 1 /\ mTail'.DummyNode = n /\ n = next[mTail.DummyNode] /\ n # Null
    BY <1>1, <1>2, <2>1
  <2>3. n # mHead.DummyNode
    <3>1. WellLinked(Roots, next) /\ mHead.DummyNode \in Roots /\ mTail.DummyNode \in On(mHead.DummyNode, next)
      BY DEF IInv, ListInv, TailInv, Roots
    <3>. QED  BY <2>2, <3>1, OnList
  <2>. QED  BY <1>1, <2>2, <2>3 DEF TailMoves
<1>3. CASE mTail # snapTail[t]
  BY <1>1, <1>3 DEF TailCas, TailMoves
<1>. QED  BY <1>2, <1>3

\* A producer moves mTail, for another or for itself, and counts.
LEMMA EnqueueMoves ==
  ASSUME IInv, TypeInv', NEW t \in Thread,
         EnqueueHelp(t) \/ EnqueueSwing(t) \/ EnqueueCount(t)
  PROVE  IInv' /\ AbsKept
<1> DEFINE l == IF pc[t] = "enq_help" THEN "enq_node"
                ELSE IF pc[t] = "enq_swing" THEN "enq_count" ELSE "idle"
<1>1. /\ pc[t] \in {"enq_help", "enq_swing", "enq_count"} /\ Goto(t, l)
      /\ UNCHANGED <<mHead, next, data, pool, node, snapHead, snapTail, headNext, tailNext, output, outside>>
  BY DEF EnqueueHelp, EnqueueSwing, EnqueueCount, nodeVars, regVars
<1>2. Only(t) /\ pc'[t] = l
  BY <1>1 DEF Only, Goto, IInv, TypeInv
<1>3. TailMoves /\ mTail'.UID >= mTail.UID /\ mTail'.UID \in Nat /\ mTail.UID \in Nat
  <2>1. mTail.UID \in Nat
    BY DEF IInv, TypeInv, Tagged
  <2>2. CASE EnqueueHelp(t)
    <3>1. tailNext[t] \in Node /\ (mTail = snapTail[t] => tailNext[t] = next[mTail.DummyNode])
      BY <2>2 DEF EnqueueHelp, IInv, SnapInv, TailSnap, TypeInv, Pointer
    <3>. QED  BY <2>1, <2>2, <3>1, TailCasMoves DEF EnqueueHelp
  <2>3. CASE EnqueueSwing(t)
    <3>1. node[t] \in Node /\ (mTail = snapTail[t] => node[t] = next[mTail.DummyNode])
      BY <2>3 DEF EnqueueSwing, IInv, SnapInv, TailSnap, TypeInv
    <3>. QED  BY <2>1, <2>3, <3>1, TailCasMoves DEF EnqueueSwing
  <2>4. CASE EnqueueCount(t)
    BY <2>1, <2>4 DEF EnqueueCount, TailMoves
  <2>. QED  BY <2>2, <2>3, <2>4
<1>4. snapTail[t].UID \in Nat /\ snapTail[t].UID <= mTail.UID /\ snapHead[t].UID <= mHead.UID
  BY DEF IInv, TypeInv, Tagged, SnapInv, TailSnap, HeadSnap
<1>5. HeadSnap(t)' /\ TailSnap(t)'
  BY <1>1, <1>2, <1>3, <1>4 DEF HeadSnap, TailSnap
<1>6. \/ mUsedSize' = mUsedSize /\ (pc[t] \in BusyLabel <=> l \in BusyLabel)
      \/ mUsedSize' = mUsedSize + 1 /\ pc[t] \in BusyLabel /\ l \notin BusyLabel
  BY <1>1 DEF EnqueueHelp, EnqueueSwing, EnqueueCount, BusyLabel, LinkLabel, CountLabel, ClaimLabel
<1>7. /\ pc[t] # "deq_return" /\ l # "deq_return" /\ l # "enq_link"
      /\ pc[t] \in LinkLabel <=> l \in LinkLabel
  BY <1>1 DEF LinkLabel
<1> HIDE DEF l
<1>. QED  BY <1>1, <1>2, <1>3, <1>5, <1>6, <1>7, QuietStep

\* A consumer reserves a value, gives a failed reservation back, or reads.
LEMMA DequeueReads ==
  ASSUME IInv, TypeInv', NEW t \in Thread,
         \/ DequeueReserve(t) \/ DequeueRestore(t) \/ DequeueHeadNode(t) \/ DequeueHeadUid(t)
         \/ DequeueTailNode(t) \/ DequeueTailUid(t) \/ DequeueHeadNext(t) \/ DequeueTailNext(t)
         \/ DequeueCheckTail(t) \/ DequeueData(t) \/ (DequeueCas(t) /\ mHead # snapHead[t])
  PROVE  IInv' /\ AbsKept
<1> DEFINE l == pc'[t]
           Quiet == {"idle", "deq_restore"} \cup ClaimLabel
<1>1. /\ pc[t] \in Quiet /\ l \in Quiet /\ Goto(t, l) /\ Only(t)
      /\ UNCHANGED <<mHead, mTail, next, data, pool, node, outside>>
  <2>1. \E k \in Quiet : Goto(t, k) /\ pc[t] \in Quiet
    BY DEF DequeueReserve, DequeueRestore, DequeueHeadNode, DequeueHeadUid, DequeueTailNode,
           DequeueTailUid, DequeueHeadNext, DequeueTailNext, DequeueCheckTail, DequeueData,
           DequeueCas, ClaimLabel
  <2>2. pc[t] \in Quiet /\ l \in Quiet /\ Goto(t, l)
    BY <2>1 DEF Goto, IInv, TypeInv
  <2> HIDE DEF Quiet
  <2>3. Only(t)
    BY <2>2 DEF DequeueReserve, DequeueRestore, DequeueHeadNode, DequeueHeadUid, DequeueTailNode,
           DequeueTailUid, DequeueHeadNext, DequeueTailNext, DequeueCheckTail, DequeueData,
           DequeueCas, ReadTailNode, ReadTailUid, nodeVars, regVars, Only, Goto, IInv, TypeInv
  <2>4. UNCHANGED <<mHead, mTail, next, data, pool, node, outside>>
    BY DEF DequeueReserve, DequeueRestore, DequeueHeadNode, DequeueHeadUid, DequeueTailNode,
           DequeueTailUid, DequeueHeadNext, DequeueTailNext, DequeueCheckTail, DequeueData,
           DequeueCas, nodeVars, regVars
  <2>. QED  BY <2>2, <2>3, <2>4
<1>2. /\ mHead \in Tagged /\ mTail \in Tagged /\ snapTail[t] \in Tagged /\ snapTail'[t] \in Tagged
      /\ snapHead[t] \in Tagged /\ snapHead'[t] \in Tagged
      /\ snapHead[t].UID <= mHead.UID /\ snapTail[t].UID <= mTail.UID /\ HeadSnap(t)
  BY DEF IInv, TypeInv, SnapInv, TailSnap, HeadSnap
<1>3. HeadSnap(t)' /\ TailSnap(t)'
  <2>1. CASE DequeueReserve(t) \/ DequeueRestore(t) \/ (DequeueCas(t) /\ mHead # snapHead[t])
    <3>1. l \in {"idle", "deq_restore", "deq_head_node"} /\ UNCHANGED <<snapHead, snapTail>>
      BY <2>1 DEF DequeueReserve, DequeueRestore, DequeueCas, regVars, Goto, IInv, TypeInv
    <3>. QED  BY <1>1, <1>2, <3>1 DEF HeadSnap, TailSnap
  <2>2. CASE DequeueHeadNode(t)
    <3>1. l = "deq_head_uid" /\ snapHead'[t].UID = snapHead[t].UID /\ snapTail' = snapTail
      BY <1>2, <2>2 DEF DequeueHeadNode, Goto, IInv, TypeInv, Tagged
    <3>. QED  BY <1>1, <1>2, <3>1 DEF HeadSnap, TailSnap
  <2>3. CASE DequeueHeadUid(t)
    <3>1. l = "deq_tail_node" /\ snapHead'[t].UID = mHead.UID /\ snapTail' = snapTail
      BY <1>2, <2>3 DEF DequeueHeadUid, Goto, IInv, TypeInv, Tagged
    <3>. QED  BY <1>1, <1>2, <3>1 DEF HeadSnap, TailSnap, Tagged
  <2>4. CASE DequeueTailNode(t)
    <3>1. /\ l = "deq_tail_uid" /\ snapTail'[t].UID = snapTail[t].UID
          /\ snapTail'[t].DummyNode = mTail.DummyNode /\ snapHead' = snapHead
      BY <1>2, <2>4 DEF DequeueTailNode, ReadTailNode, Goto, IInv, TypeInv, Tagged
    <3>. QED  BY <1>1, <1>2, <3>1 DEF HeadSnap, TailSnap
  <2>5. CASE DequeueTailUid(t)
    <3>1. /\ pc[t] = "deq_tail_uid" /\ l = "deq_head_next" /\ snapTail'[t].UID = mTail.UID
          /\ snapTail'[t].DummyNode = snapTail[t].DummyNode /\ snapHead' = snapHead
      BY <1>2, <2>5 DEF DequeueTailUid, ReadTailUid, Goto, IInv, TypeInv, Tagged
    <3>. QED  BY <1>1, <1>2, <3>1 DEF HeadSnap, TailSnap, Tagged
  <2>6. CASE DequeueHeadNext(t)
    <3>1. /\ pc[t] = "deq_head_next" /\ l = "deq_tail_next" /\ UNCHANGED <<snapHead, snapTail>>
          /\ headNext'[t] = next[snapHead[t].DummyNode]
      BY <2>6 DEF DequeueHeadNext, Goto, IInv, TypeInv
    <3>. QED  BY <1>1, <1>2, <3>1 DEF HeadSnap, TailSnap
  <2>7. CASE DequeueTailNext(t)
    <3>1. /\ pc[t] = "deq_tail_next" /\ UNCHANGED <<snapHead, snapTail, headNext>>
          /\ tailNext'[t] = next[snapTail[t].DummyNode]
          /\ l = IF headNext[t] = Null THEN "deq_head_node"
                 ELSE IF next[snapTail[t].DummyNode] # Null THEN "deq_help" ELSE "deq_data"
      BY <2>7 DEF DequeueTailNext, Goto, IInv, TypeInv
    <3>. QED  BY <1>1, <1>2, <3>1 DEF HeadSnap, TailSnap
  <2>8. CASE DequeueCheckTail(t)
    <3>1. /\ pc[t] = "deq_check" /\ UNCHANGED <<snapHead, snapTail, headNext>>
          /\ l \in {"deq_head_node", "deq_data"}
      BY <2>8 DEF DequeueCheckTail, regVars, Goto, IInv, TypeInv
    <3>. QED  BY <1>1, <1>2, <3>1 DEF HeadSnap, TailSnap
  <2>9. CASE DequeueData(t)
    <3>1. /\ pc[t] = "deq_data" /\ UNCHANGED <<snapHead, snapTail, headNext>>
          /\ l = "deq_cas" /\ output'[t] = data[headNext[t]]
      BY <2>9 DEF DequeueData, Goto, IInv, TypeInv
    <3>. QED  BY <1>1, <1>2, <3>1 DEF HeadSnap, TailSnap
  <2>. QED  BY <2>1, <2>2, <2>3, <2>4, <2>5, <2>6, <2>7, <2>8, <2>9
<1>4. \/ mUsedSize' = mUsedSize /\ (pc[t] \in BusyLabel <=> l \in BusyLabel)
      \/ mUsedSize' = mUsedSize + 1 /\ pc[t] \in BusyLabel /\ l \notin BusyLabel
      \/ mUsedSize' = mUsedSize - 1 /\ pc[t] \notin BusyLabel /\ l \in BusyLabel
  <2> USE DEF BusyLabel, LinkLabel, CountLabel, ClaimLabel, Goto, IInv, TypeInv
  <2>1. CASE DequeueReserve(t)
    BY <2>1 DEF DequeueReserve
  <2>2. CASE DequeueRestore(t)
    BY <2>2 DEF DequeueRestore
  <2>3. CASE ~DequeueReserve(t) /\ ~DequeueRestore(t)
    BY <2>3 DEF DequeueHeadNode, DequeueHeadUid, DequeueTailNode, DequeueTailUid, DequeueHeadNext,
         DequeueTailNext, DequeueCheckTail, DequeueData, DequeueCas
  <2>. QED  BY <2>1, <2>2, <2>3
<1>5. /\ pc[t] # "deq_return" /\ l # "deq_return" /\ l # "enq_link"
      /\ pc[t] \in LinkLabel <=> l \in LinkLabel
  BY <1>1 DEF LinkLabel, ClaimLabel
<1> HIDE DEF l
<1>. QED  BY <1>1, <1>3, <1>4, <1>5, QuietStep DEF TailMoves

\* A consumer moves mTail.
LEMMA DequeueHelps ==
  ASSUME IInv, TypeInv', NEW t \in Thread, DequeueHelp(t)
  PROVE  IInv' /\ AbsKept
<1> DEFINE l == IF mTail = snapTail[t] THEN "deq_check" ELSE "deq_head_node"
<1>1. /\ pc[t] = "deq_help" /\ Goto(t, l) /\ TailCas(t, tailNext[t])
      /\ UNCHANGED <<mHead, mUsedSize, next, data, pool, node, snapHead, snapTail, headNext, tailNext,
                     output, outside>>
  BY DEF DequeueHelp, nodeVars, regVars
<1>2. Only(t) /\ pc'[t] = l
  BY <1>1 DEF Only, Goto, IInv, TypeInv
<1>3. /\ TailMoves /\ mTail'.UID >= mTail.UID /\ mTail'.UID \in Nat /\ mTail.UID \in Nat
      /\ mTail = snapTail[t] => mTail'.DummyNode # mHead.DummyNode
  <2>1. mTail.UID \in Nat
    BY DEF IInv, TypeInv, Tagged
  <2>2. tailNext[t] \in Node /\ (mTail = snapTail[t] => tailNext[t] = next[mTail.DummyNode])
    BY <1>1 DEF IInv, SnapInv, TailSnap, TypeInv, Pointer
  <2>. QED  BY <1>1, <2>1, <2>2, TailCasMoves
<1>4. /\ snapTail[t].UID \in Nat /\ snapTail[t].UID <= mTail.UID /\ snapHead[t].UID <= mHead.UID
      /\ HeadSnap(t)
  BY DEF IInv, TypeInv, Tagged, SnapInv, TailSnap, HeadSnap
<1>5. HeadSnap(t)'
  BY <1>1, <1>2, <1>3, <1>4 DEF HeadSnap
<1>6. TailSnap(t)'
  BY <1>1, <1>2, <1>3, <1>4 DEF TailSnap
<1>7. /\ l # "deq_return" /\ l # "enq_link" /\ l \notin LinkLabel
      /\ pc[t] \notin LinkLabel /\ pc[t] \in BusyLabel /\ l \in BusyLabel
  BY <1>1 DEF LinkLabel, BusyLabel, CountLabel, ClaimLabel
<1> HIDE DEF l
<1>. QED  BY <1>1, <1>2, <1>3, <1>5, <1>6, <1>7, QuietStep

-----------------------------------------------------------------------------
(* Steps that change the lists. *)

\* The list of mHead.
LEMMA ChainIs ==
  ASSUME ListInv
  PROVE  /\ mHead.DummyNode \in Roots
         /\ Chain = Tail(List(mHead.DummyNode, next))
         /\ Chain \in Seq(Node) /\ Distinct(Chain) /\ Len(Chain) \in Nat
         /\ Len(Chain) = Len(List(mHead.DummyNode, next)) - 1
         /\ \A i \in 1..Len(Chain) : Chain[i] = List(mHead.DummyNode, next)[i + 1]
         /\ Elems(Chain) = On(mHead.DummyNode, next) \ {mHead.DummyNode}
<1>1. mHead.DummyNode \in Roots /\ WellLinked(Roots, next)
  BY DEF ListInv, Roots
<1>. QED  BY <1>1, ListTail DEF Chain, After, On

\* The same after a step.
LEMMA ChainIsNext ==
  ASSUME ListInv'
  PROVE  /\ mHead'.DummyNode \in Roots'
         /\ Chain' = Tail(List(mHead'.DummyNode, next'))
         /\ Chain' \in Seq(Node) /\ Distinct(Chain')
         /\ Len(Chain') = Len(List(mHead'.DummyNode, next')) - 1
         /\ \A i \in 1..Len(Chain') : Chain'[i] = List(mHead'.DummyNode, next')[i + 1]
         /\ Elems(Chain') = On(mHead'.DummyNode, next') \ {mHead'.DummyNode}
<1>1. mHead'.DummyNode \in Roots' /\ WellLinked(Roots', next')
  BY DEF ListInv, Roots
<1>. QED  BY <1>1, ListTail DEF Chain, After, On

\* There are finitely many live nodes.
LEMMA LiveFinite == IsFiniteSet(LiveNodes) /\ Cardinality(LiveNodes) \in Nat
<1>1. IsFiniteSet(Node) /\ LiveNodes \in SUBSET Node
  BY QueueAssumption DEF LiveNodes
<1>. QED  BY <1>1, FS_Subset, FS_CardinalityType

\* A producer rents a node and has a list of its own from then on.
LEMMA RentStep ==
  ASSUME IInv, TypeInv', NEW t \in Thread, NEW v \in Value, EnqueueRent(t, v)
  PROVE  IInv' /\ AbsKept
<1> USE DEF IInv
<1>1. PICK n \in pool : /\ pool' = pool \ {n}
                        /\ node' = [node EXCEPT ![t] = n]
                        /\ data' = [data EXCEPT ![n] = v]
                        /\ next' = [next EXCEPT ![n] = Null]
  BY DEF EnqueueRent
<1>2. /\ pc[t] = "idle" /\ Goto(t, "enq_node") /\ v \in outside /\ outside' = outside \ {v}
      /\ UNCHANGED <<mHead, mTail, mUsedSize, snapHead, snapTail, headNext, tailNext, output>>
  BY DEF EnqueueRent
<1>3. /\ pc'[t] = "enq_node" /\ \A u \in Thread \ {t} : pc'[u] = pc[u]
      /\ node'[t] = n /\ \A u \in Thread \ {t} : node'[u] = node[u]
      /\ n \in Node /\ data'[n] = v /\ \A k \in Node \ {n} : data'[k] = data[k] /\ next'[k] = next[k]
      /\ next'[n] = Null
  BY <1>1, <1>2 DEF TypeInv, Goto
<1>4. Only(t)
  BY <1>2, <1>3 DEF Only
<1>5. /\ WellLinked(Roots, next) /\ mHead.DummyNode \in Roots /\ \A u \in Linking : node[u] \in Roots
      /\ ~InList(n)
  BY DEF ListInv, Roots, NodeInv
<1>6. /\ t \notin Linking /\ Linking' = Linking \cup {t} /\ Roots' = Roots \cup {n}
  <2>1. t \notin Linking /\ Linking' = Linking \cup {t}
    BY <1>2, <1>3, InLinking DEF LinkLabel
  <2>. QED  BY <1>2, <1>3, <2>1, InLinking DEF Roots
<1>7. /\ WellLinked(Roots', next')
      /\ \A m \in Roots : List(m, next') = List(m, next) /\ On(m, next') = On(m, next)
      /\ On(n, next') = {n}
  <2>1. \A m \in Roots : n \notin On(m, next)
    BY <1>5 DEF InList
  <2>2. PICK R, nx, ny : R = Roots /\ nx = next /\ ny = next'
    OBVIOUS
  <2>3. /\ WellLinked(R, nx) /\ (\A m \in R : n \notin On(m, nx)) /\ Roots' = R \cup {n}
        /\ n \in Node /\ Relinked(nx, ny, n, Null)
    BY <1>3, <1>5, <1>6, <2>1, <2>2 DEF TypeInv, Relinked
  <2>4. /\ WellLinked(R \cup {n}, ny)
        /\ \A m \in R : List(m, ny) = List(m, nx) /\ On(m, ny) = On(m, nx)
        /\ List(n, ny) = <<n>> /\ On(n, ny) = {n}
    BY <2>3, NewList
  <2>. QED  BY <2>2, <2>3, <2>4
<1>8. n \notin Roots /\ n # mHead.DummyNode /\ n # mTail.DummyNode
  <2>1. \A m \in Roots : m \in On(m, next)
    BY <1>5, OnList
  <2>. QED  BY <1>5, <2>1 DEF InList, TailInv
<1>9. \A k : (InList(k)' <=> InList(k) \/ k = n) /\ (Live(k)' <=> Live(k) \/ k = n)
  <2>1. \A k : InList(k)' <=> InList(k) \/ k = n
    BY <1>6, <1>7 DEF InList
  <2>. QED  BY <1>2, <1>8, <2>1 DEF Live
<1>10. ListInv'
  BY <1>2, <1>3, <1>5, <1>6, <1>7, <1>8, InLinking DEF ListInv
<1>11. \A u \in Thread : \A x : (Returned(u, x)' <=> Returned(u, x)) /\ (Taken(u, x)' <=> Taken(u, x))
  BY <1>2, <1>3 DEF Returned, Taken
<1>12. NodeInv'
  <2>1. \A u \in Thread : ~Returned(u, n)
    BY <1>3 DEF NodeInv
  <2>. QED  BY <1>1, <1>9, <1>11, <2>1 DEF NodeInv
<1>13. TailInv'
  BY <1>2, <1>5, <1>7 DEF TailInv
<1>14. TargetInv'
  <2> SUFFICES ASSUME NEW u \in Thread, pc'[u] = "enq_link"
               PROVE  tailNext'[u] \in Node /\ (InList(tailNext[u])' \/ next'[tailNext'[u]] # Null)
    BY DEF TargetInv
  <2>1. PICK k : k = tailNext[u] /\ k = tailNext'[u]
    BY <1>2
  <2>2. k \in Node /\ (InList(k) \/ next[k] # Null)
    BY <1>3, <2>1 DEF TargetInv
  <2>3. InList(k)' \/ next'[k] # Null
    BY <1>3, <1>9, <2>2
  <2>. QED  BY <2>1, <2>2, <2>3
<1>15. RankInv'
  <2>1. PICK rank \in [Thread -> Nat], m \in Nat : Ranked(rank, m)
    BY DEF RankInv
  <2>2. PICK new : new = [rank EXCEPT ![t] = m]
    OBVIOUS
  <2>3. new \in [Thread -> Nat] /\ new[t] = m /\ \A u \in Thread \ {t} : new[u] = rank[u] /\ rank[u] < m
    BY <2>1, <2>2 DEF Ranked
  <2>4. ASSUME NEW u \in Thread, NEW w \in Linking', pc'[u] = "enq_link",
               tailNext'[u] \in On(node[w]', next')
        PROVE  new[u] < new[w]
    <3>1. u # t /\ pc[u] = "enq_link"
      BY <1>3, <2>4
    <3>2. CASE w = t
      BY <2>3, <3>1, <3>2
    <3>3. CASE w # t
      <4>1. w \in Linking /\ node'[w] = node[w] /\ On(node[w], next') = On(node[w], next)
        BY <1>3, <1>5, <1>6, <1>7, <3>3, InLinking
      <4>2. rank[u] < rank[w]
        BY <1>2, <2>1, <2>4, <3>1, <4>1 DEF Ranked
      <4>. QED  BY <2>3, <3>1, <3>3, <4>1, <4>2, InLinking
    <3>. QED  BY <3>2, <3>3
  <2>5. \A u \in Thread : new[u] < m + 1
    BY <2>3
  <2>6. Ranked(new, m + 1)'
    BY <2>4, <2>5 DEF Ranked
  <2>. QED  BY <2>3, <2>6 DEF RankInv
<1>16. SnapInv'
  <2>1. \A k \in {mHead.DummyNode, mTail.DummyNode} : next'[k] = next[k]
    BY <1>3, <1>8 DEF TypeInv, Tagged
  <2>2. next[mHead.DummyNode] # Null => data'[next[mHead.DummyNode]] = data[next[mHead.DummyNode]]
    <3> SUFFICES ASSUME next[mHead.DummyNode] # Null
                 PROVE  data'[next[mHead.DummyNode]] = data[next[mHead.DummyNode]]
      OBVIOUS
    <3>1. next[mHead.DummyNode] \in On(mHead.DummyNode, next) /\ next[mHead.DummyNode] \in Node
      BY <1>5, OnList
    <3>2. next[mHead.DummyNode] # n
      BY <1>5, <3>1 DEF InList
    <3>. QED  BY <1>3, <3>1, <3>2
  <2>3. TailSnap(t)' /\ HeadSnap(t)'
    <3>1. snapTail[t].UID <= mTail.UID /\ snapHead[t].UID <= mHead.UID
      BY DEF SnapInv, TailSnap, HeadSnap
    <3>. QED  BY <1>2, <1>3, <3>1 DEF TailSnap, HeadSnap
  <2>. QED  BY <1>2, <1>4, <2>1, <2>2, <2>3, SnapsKept DEF TailMoves
<1>17. \A k : Live(k) => k # n
  BY <1>5 DEF Live
<1>18. ValueInv'
  <2>1. \A k \in Node : Live(k)' => data'[k] \notin outside'
    BY <1>2, <1>3, <1>9 DEF ValueInv
  <2>2. \A k, j \in Node : Live(k)' /\ Live(j)' /\ data'[k] = data'[j] => k = j
    BY <1>2, <1>3, <1>9, <1>17 DEF ValueInv
  <2>3. ASSUME NEW u \in Thread, NEW w \in Value, Taken(u, w)'
        PROVE  /\ w \notin outside' /\ \A k \in Node : Live(k)' => data'[k] # w
               /\ \A x \in Thread : Taken(x, w)' => x = u
    <3>1. /\ w \notin outside /\ \A k \in Node : Live(k) => data[k] # w
          /\ \A x \in Thread : Taken(x, w) => x = u
      BY <1>11, <2>3 DEF ValueInv
    <3>. QED  BY <1>2, <1>3, <1>9, <1>11, <1>17, <3>1
  <2>4. ASSUME NEW w \in Value
        PROVE  \/ w \in outside' \/ (\E k \in Node : Live(k)' /\ data'[k] = w)
               \/ (\E u \in Thread : Taken(u, w)')
    <3>1. \/ w \in outside \/ (\E k \in Node : Live(k) /\ data[k] = w)
          \/ (\E u \in Thread : Taken(u, w))
      BY DEF ValueInv
    <3>. QED  BY <1>2, <1>3, <1>9, <1>11, <1>17, <3>1
  <2>. QED  BY <2>1, <2>2, <2>3, <2>4 DEF ValueInv
<1>19. SizeInv'
  <2>1. LiveNodes' = LiveNodes \cup {n} /\ n \notin LiveNodes
    BY <1>3, <1>9, <1>17 DEF LiveNodes
  <2>2. Cardinality(LiveNodes') = Cardinality(LiveNodes) + 1
    BY <2>1, LiveFinite, FS_AddElement
  <2>3. /\ Cardinality(Busy(pc)) \in Nat
        /\ Cardinality(Busy(pc')) = Cardinality(Busy(pc)) + 1
    BY <1>2, BusyStep DEF BusyLabel, LinkLabel, CountLabel, ClaimLabel
  <2>4. mUsedSize = Cardinality(LiveNodes) - Cardinality(Busy(pc))
    BY DEF SizeInv, Busy
  <2>5. mUsedSize' = Cardinality(LiveNodes') - Cardinality(Busy(pc'))
    BY <1>2, <2>2, <2>3, <2>4, LiveFinite
  <2>. QED  BY <2>5 DEF SizeInv, Busy
<1>20. AbsQueue' = AbsQueue
  <2>1. Chain' = Chain
    BY <1>2, <1>5, <1>7, <1>10, ChainIs, ChainIsNext
  <2>2. \A i \in 1..Len(Chain) : data'[Chain[i]] = data[Chain[i]]
    <3>1. \A i \in 1..Len(Chain) : Chain[i] \in Elems(Chain)
      BY DEF Elems
    <3>2. Elems(Chain) = On(mHead.DummyNode, next) \ {mHead.DummyNode} /\ Elems(Chain) \in SUBSET Node
      BY <1>5, ChainIs, OnList
    <3>3. \A k \in Elems(Chain) : k \in Node \ {n}
      BY <1>5, <3>2 DEF InList
    <3>. QED  BY <1>3, <3>1, <3>3
  <2>. QED  BY <2>1, <2>2 DEF AbsQueue
<1>21. ASSUME NEW w PROVE w \in AbsOutside' <=> w \in AbsOutside
  <2>1. \A u \in Thread : pc[u] \in LinkLabel => u # t /\ On(node[u], next) \in SUBSET Node
                          /\ \A k \in On(node[u], next) : k # n
    BY <1>2, <1>5, InLinking, OnList DEF LinkLabel, InList
  <2>2. \A u \in Thread \ {t} : pc'[u] \in LinkLabel =>
          pc[u] \in LinkLabel /\ node'[u] = node[u] /\ On(node'[u], next') = On(node[u], next)
    BY <1>3, <1>5, <1>7, InLinking
  <2>3. \A u \in Thread \ {t} : pc[u] \in LinkLabel => pc'[u] \in LinkLabel
    BY <1>3
  <2>4. OutsideIs(w)' <=> \/ w \in outside' \/ w = v
                          \/ \E u \in Thread \ {t} : pc'[u] \in LinkLabel /\ \E k \in On(node'[u], next') : data'[k] = w
                          \/ \E u \in Thread : Taken(u, w)'
    <3>1. pc'[t] \in LinkLabel /\ On(node'[t], next') = {n} /\ data'[n] = v
      BY <1>3, <1>7 DEF LinkLabel
    <3>. QED  BY <3>1 DEF OutsideIs
  <2>5. OutsideIs(w) <=> \/ w \in outside
                         \/ \E u \in Thread \ {t} : pc[u] \in LinkLabel /\ \E k \in On(node[u], next) : data[k] = w
                         \/ \E u \in Thread : Taken(u, w)
    BY <2>1 DEF OutsideIs
  <2>6. (\E u \in Thread \ {t} : pc'[u] \in LinkLabel /\ \E k \in On(node'[u], next') : data'[k] = w)
          <=> (\E u \in Thread \ {t} : pc[u] \in LinkLabel /\ \E k \in On(node[u], next) : data[k] = w)
    <3>1. \A u \in Thread \ {t} : pc[u] \in LinkLabel =>
            \A k \in On(node[u], next) : data'[k] = data[k]
      BY <1>3, <2>1
    <3>. QED  BY <2>2, <2>3, <3>1
  <2>7. w \in outside' \/ w = v <=> w \in outside
    BY <1>2
  <2>8. OutsideIs(w)' <=> OutsideIs(w)
    BY <1>11, <2>4, <2>5, <2>6, <2>7
  <2>. QED  BY <1>10, <2>8, InAbsOutside, InAbsOutsideNext
<1>. QED
  BY <1>10, <1>12, <1>13, <1>14, <1>15, <1>16, <1>18, <1>19, <1>20, <1>21 DEF AbsKept

\* A producer appends its list to another one.  If that is the list of mHead, its
\* node and the nodes behind it enter the abstract queue in this order.
LEMMA LinkStep ==
  ASSUME IInv, TypeInv', NEW t \in Thread, EnqueueLink(t), next[tailNext[t]] = Null
  PROVE  IInv' /\ (AbsKept \/ Queue!Next)
<1> USE DEF IInv
<1>1. PICK h, k, r : h = mHead.DummyNode /\ k = tailNext[t] /\ r = node[t]
  OBVIOUS
<1>2. /\ pc[t] = "enq_link" /\ Goto(t, "enq_swing") /\ next' = [next EXCEPT ![k] = r]
      /\ UNCHANGED <<mHead, mTail, mUsedSize, data, pool, node, snapHead, snapTail, headNext, tailNext,
                     output, outside>>
  BY <1>1 DEF EnqueueLink, regVars
<1>3. /\ WellLinked(Roots, next) /\ h \in Roots /\ h \in Node /\ \A u \in Linking : node[u] \in Roots
      /\ t \in Linking /\ r \in Roots /\ r \in Node /\ r # h /\ r # Null
      /\ \A u \in Linking : node[u] = r => u = t
      /\ k \in Node /\ InList(k) /\ next[k] = Null
      /\ Roots \subseteq Node
  <2>1. t \in Linking
    BY <1>2, InLinking DEF LinkLabel
  <2>2. k \in Node /\ InList(k)
    BY <1>1, <1>2 DEF TargetInv
  <2>. QED
    BY <1>1, <2>1, <2>2, QueueAssumption DEF ListInv, Roots, TypeInv, WellLinked
<1>4. PICK p \in Roots : k \in On(p, next)
  BY <1>3 DEF InList
<1>5. PICK rank \in [Thread -> Nat], m \in Nat : Ranked(rank, m)
  BY DEF RankInv
<1>6. p # r
  BY <1>1, <1>2, <1>3, <1>4, <1>5 DEF Ranked
<1>7. /\ pc'[t] = "enq_swing" /\ \A u \in Thread \ {t} : pc'[u] = pc[u]
      /\ next'[k] = r /\ \A n \in Node \ {k} : next'[n] = next[n]
  BY <1>2, <1>3 DEF TypeInv, Goto
<1>8. PICK R, nx, ny : R = Roots /\ nx = next /\ ny = next'
  OBVIOUS
<1>9. /\ WellLinked(R \ {r}, ny)
      /\ \A n \in R \ {p, r} : List(n, ny) = List(n, nx) /\ On(n, ny) = On(n, nx)
      /\ List(p, ny) = List(p, nx) \o List(r, nx)
      /\ On(p, ny) = On(p, nx) \cup On(r, nx)
  <2>1. /\ WellLinked(R, nx) /\ p \in R /\ r \in R /\ p # r /\ k \in On(p, nx) /\ nx[k] = Null
        /\ Relinked(nx, ny, k, r)
    BY <1>3, <1>4, <1>6, <1>7, <1>8 DEF TypeInv, Relinked
  <2>2. Joined(R, nx, ny, p, r)
    BY <2>1, JoinLists
  <2>. QED  BY <2>2 DEF Joined
<1>10. Linking' = Linking \ {t} /\ Roots' = R \ {r}
  <2>1. Linking' = Linking \ {t}
    BY <1>7, InLinking DEF LinkLabel
  <2>. QED  BY <1>1, <1>2, <1>3, <1>8, <2>1 DEF Roots
<1>11. \A n : (InList(n)' <=> InList(n)) /\ (Live(n)' <=> Live(n))
  <2>1. \A n : InList(n)' <=> \E q \in R \ {r} : n \in On(q, ny)
    BY <1>8, <1>10 DEF InList
  <2>2. \A n : InList(n) <=> \E q \in R : n \in On(q, nx)
    BY <1>8 DEF InList
  <2>3. \A n : (\E q \in R \ {r} : n \in On(q, ny)) <=> \E q \in R : n \in On(q, nx)
    BY <1>3, <1>4, <1>6, <1>8, <1>9
  <2>. QED  BY <1>2, <2>1, <2>2, <2>3 DEF Live
<1>12. ListInv'
  BY <1>2, <1>8, <1>9, <1>10 DEF ListInv
<1>13. \A u \in Thread : \A x : (Returned(u, x)' <=> Returned(u, x)) /\ (Taken(u, x)' <=> Taken(u, x))
  BY <1>2, <1>7 DEF Returned, Taken
<1>14. NodeInv'
  BY <1>2, <1>11, <1>13 DEF NodeInv
<1>15. TailInv'
  <2>1. On(h, nx) \subseteq On(h, ny)
    BY <1>3, <1>8, <1>9
  <2>. QED  BY <1>1, <1>2, <1>8, <2>1 DEF TailInv
<1>16. TargetInv'
  <2> SUFFICES ASSUME NEW u \in Thread, pc'[u] = "enq_link"
               PROVE  tailNext'[u] \in Node /\ (InList(tailNext[u])' \/ next'[tailNext'[u]] # Null)
    BY DEF TargetInv
  <2>1. PICK n : n = tailNext[u] /\ n = tailNext'[u]
    BY <1>2
  <2>2. n \in Node /\ (InList(n) \/ next[n] # Null)
    BY <1>7, <2>1 DEF TargetInv
  <2>3. InList(n)' \/ next'[n] # Null
    BY <1>3, <1>7, <1>11, <2>2
  <2>. QED  BY <2>1, <2>2, <2>3
<1>17. RankInv'
  <2>1. ASSUME NEW u \in Thread, NEW w \in Linking', pc'[u] = "enq_link",
               tailNext'[u] \in On(node'[w], next')
        PROVE  rank[u] < rank[w]
    <3>1. /\ pc[u] = "enq_link" /\ w \in Linking /\ w # t /\ node[w] \in R /\ node[w] # r
          /\ tailNext[u] \in On(node[w], ny) /\ w \in Thread
      BY <1>2, <1>3, <1>7, <1>8, <1>10, <2>1, InLinking
    <3>2. CASE tailNext[u] \in On(node[w], next)
      BY <1>5, <3>1, <3>2 DEF Ranked
    <3>3. CASE tailNext[u] \notin On(node[w], next)
      <4>1. node[w] = p /\ tailNext[u] \in On(node[t], next)
        BY <1>1, <1>8, <1>9, <3>1, <3>3
      <4>2. rank[u] < rank[t]
        BY <1>3, <1>5, <3>1, <4>1 DEF Ranked
      <4>3. rank[t] < rank[w]
        BY <1>1, <1>2, <1>4, <1>5, <3>1, <4>1 DEF Ranked
      <4>4. rank[u] \in Nat /\ rank[t] \in Nat /\ rank[w] \in Nat
        BY <1>5, <3>1
      <4>. QED  BY <4>2, <4>3, <4>4
    <3>. QED  BY <3>2, <3>3
  <2>2. \A u \in Thread : rank[u] < m
    BY <1>5 DEF Ranked
  <2>3. Ranked(rank, m)'
    BY <2>1, <2>2 DEF Ranked
  <2>. QED  BY <1>5, <2>3 DEF RankInv
<1>18. SnapInv'
  <2>1. \A n \in {mHead.DummyNode, mTail.DummyNode} : next[n] # Null => next'[n] = next[n]
    BY <1>3, <1>7 DEF TypeInv, Tagged
  <2>2. TailSnap(t) /\ HeadSnap(t)
    BY DEF SnapInv
  <2>3. TailSnap(t)'
    BY <1>1, <1>2, <1>7, <2>2 DEF TailSnap
  <2>4. HeadSnap(t)'
    BY <1>2, <1>7, <2>2 DEF HeadSnap
  <2>5. Only(t)
    BY <1>2, <1>7 DEF Only
  <2>. QED  BY <1>2, <2>1, <2>3, <2>4, <2>5, SnapsKept DEF TailMoves
<1>19. ValueInv'
  BY <1>2, <1>11, <1>13 DEF ValueInv
<1>20. SizeInv'
  <2>1. LiveNodes' = LiveNodes
    BY <1>11 DEF LiveNodes
  <2>2. Cardinality(Busy(pc')) = Cardinality(Busy(pc))
    BY <1>2, BusyStep DEF BusyLabel, LinkLabel, CountLabel
  <2>. QED  BY <1>2, <2>1, <2>2 DEF SizeInv, Busy
<1>21. IInv'
  BY <1>12, <1>14, <1>15, <1>16, <1>17, <1>18, <1>19, <1>20
\* The values outside, before and after.
<1>22. \A v : v \in AbsOutside <=>
         \/ v \in outside \/ \E u \in Thread : Taken(u, v)
         \/ \E u \in Linking : \E n \in On(node[u], nx) : data[n] = v
  BY <1>8, InAbsOutside, InLinking DEF OutsideIs
<1>23. \A v : v \in AbsOutside' <=>
         \/ v \in outside \/ \E u \in Thread : Taken(u, v)
         \/ \E u \in Linking \ {t} : \E n \in On(node[u], ny) : data[n] = v
  <2>1. ASSUME NEW v PROVE OutsideIs(v)' <=>
         \/ v \in outside \/ \E u \in Thread : Taken(u, v)
         \/ \E u \in Linking \ {t} : \E n \in On(node[u], ny) : data[n] = v
    BY <1>2, <1>8, <1>10, <1>13, InLinking DEF OutsideIs
  <2>. QED  BY <1>12, <2>1, InAbsOutsideNext
<1>24. CASE p # h
  <2>1. Chain' = Chain
    <3>1. List(h, ny) = List(h, nx) /\ On(h, ny) = On(h, nx)
      BY <1>3, <1>8, <1>9, <1>24
    <3>. QED  BY <1>1, <1>2, <1>8, <1>12, <3>1, ChainIs, ChainIsNext
  <2>2. AbsQueue' = AbsQueue
    BY <1>2, <2>1 DEF AbsQueue
  <2>3. PICK q \in Linking : p = node[q] /\ q # t
    BY <1>1, <1>4, <1>6, <1>24 DEF Roots
  <2>4. ASSUME NEW v
        PROVE  (\E u \in Linking : \E n \in On(node[u], nx) : data[n] = v)
                 <=> \E u \in Linking \ {t} : \E n \in On(node[u], ny) : data[n] = v
    <3>1. \A u \in Linking \ {t} : node[u] \in R \ {r}
      BY <1>3, <1>8
    <3>2. \A u \in Linking \ {t} : \A n \in On(node[u], nx) : n \in On(node[u], ny)
      BY <1>9, <3>1
    <3>3. \A n \in On(node[t], nx) : n \in On(node[q], ny)
      BY <1>1, <1>9, <2>3
    <3>4. \A u \in Linking \ {t} : \A n \in On(node[u], ny) :
            n \in On(node[u], nx) \/ n \in On(node[t], nx)
      BY <1>1, <1>9, <3>1
    <3>. QED  BY <1>3, <2>3, <3>2, <3>3, <3>4
  <2>5. \A v : v \in AbsOutside' <=> v \in AbsOutside
    BY <1>22, <1>23, <2>4
  <2>6. AbsOutside' = AbsOutside
    BY <2>5
  <2>. QED  BY <1>21, <2>2, <2>6 DEF AbsKept
<1>25. CASE p = h
  <2>1. PICK a, c : a = List(h, nx) /\ c = List(r, nx)
    OBVIOUS
  <2>2. /\ a \in Seq(Node) /\ Len(a) \in Nat \ {0}
        /\ c \in Seq(Node) /\ Len(c) \in Nat \ {0} /\ Distinct(c)
        /\ Elems(c) = On(r, nx) /\ Elems(c) \in SUBSET Node
    <3>1. WellLinked(R, nx) /\ h \in R /\ r \in R
      BY <1>3, <1>8
    <3>2. a \in Seq(Node) /\ c \in Seq(Node) /\ Distinct(c)
      BY <2>1, <3>1 DEF WellLinked
    <3>. QED  BY <2>1, <3>1, <3>2, OnList DEF On
  <2>3. /\ Chain \in Seq(Node) /\ Len(Chain) \in Nat /\ Len(Chain) = Len(a) - 1
        /\ \A i \in 1..Len(Chain) : Chain[i] = a[i + 1]
    BY <1>1, <1>8, <2>1, ChainIs
  <2>4. /\ Chain' \in Seq(Node) /\ Len(Chain') = Len(a \o c) - 1
        /\ \A i \in 1..Len(Chain') : Chain'[i] = (a \o c)[i + 1]
    BY <1>1, <1>2, <1>8, <1>9, <1>12, <1>25, <2>1, ChainIsNext
  <2>5. Len(Chain') = Len(Chain) + Len(c)
    BY <2>2, <2>3, <2>4
  <2>6. ASSUME NEW i \in 1..Len(Chain) PROVE i \in 1..Len(Chain') /\ Chain'[i] = Chain[i]
    <3>1. i \in 1..Len(Chain') /\ i + 1 \in 1..Len(a)
      BY <2>2, <2>3, <2>5
    <3>2. (a \o c)[i + 1] = a[i + 1]
      BY <2>2, <3>1
    <3>. QED  BY <2>3, <2>4, <3>1, <3>2
  <2>7. ASSUME NEW j \in 1..Len(c)
        PROVE  Len(Chain) + j \in 1..Len(Chain') /\ Chain'[Len(Chain) + j] = c[j]
    <3>1. Len(Chain) + j \in 1..Len(Chain') /\ (Len(Chain) + j) + 1 = Len(a) + j
      BY <2>2, <2>3, <2>5
    <3>2. (a \o c)[Len(a) + j] = c[j]
      BY <2>2
    <3>. QED  BY <2>4, <3>1, <3>2
  <2>8. PICK batch : batch = [i \in 1..Len(c) |-> data[c[i]]]
    OBVIOUS
  <2>9. /\ batch \in Seq(Value) /\ Len(batch) = Len(c) /\ DOMAIN batch = 1..Len(c)
        /\ \A i \in 1..Len(c) : batch[i] = data[c[i]] /\ batch[i] \in Value
        /\ batch \in [1..Len(c) -> Value]
    <3>1. data \in [Node -> Value] /\ \A i \in 1..Len(c) : c[i] \in Node
      BY <2>2 DEF TypeInv
    <3>. QED  BY <2>2, <2>8, <3>1
  <2>10. AbsQueue' = AbsQueue \o batch
    <3>1. PICK q, s, e : q = AbsQueue /\ s = AbsQueue' /\ e = AbsQueue \o batch
      OBVIOUS
    <3>2. /\ q \in Seq(Value) /\ Len(q) = Len(Chain)
          /\ \A i \in 1..Len(Chain) : q[i] = data[Chain[i]]
      BY <2>3, <3>1 DEF AbsQueue, TypeInv
    <3>3. /\ s \in Seq(Value) /\ Len(s) = Len(Chain')
          /\ \A i \in 1..Len(Chain') : s[i] = data[Chain'[i]]
      BY <1>2, <2>3, <2>4, <2>5, <3>1 DEF AbsQueue, TypeInv
    <3>4. /\ e \in Seq(Value) /\ Len(e) = Len(Chain) + Len(c)
          /\ \A i \in 1..Len(Chain) : e[i] = q[i]
          /\ \A j \in 1..Len(c) : e[Len(Chain) + j] = batch[j]
      <4>1. /\ e \in Seq(Value) /\ Len(e) = Len(q) + Len(batch)
            /\ \A i \in 1..Len(q) : e[i] = q[i]
            /\ \A j \in 1..Len(batch) : e[Len(q) + j] = batch[j]
        <5>1. e = q \o batch /\ q \in Seq(Value) /\ batch \in Seq(Value)
          BY <2>9, <3>1, <3>2
        <5>. QED  BY <5>1
      <4>. QED  BY <2>9, <3>2, <4>1
    <3>5. ASSUME NEW i \in 1..Len(Chain') PROVE s[i] = e[i]
      <4>1. CASE i \in 1..Len(Chain)
        BY <2>6, <3>2, <3>3, <3>4, <4>1
      <4>2. CASE i \notin 1..Len(Chain)
        <5>1. PICK j \in 1..Len(c) : i = Len(Chain) + j
          <6>1. i - Len(Chain) \in 1..Len(c) /\ i = Len(Chain) + (i - Len(Chain))
            BY <2>2, <2>3, <2>5, <4>2
          <6>. QED  BY <6>1
        <5>2. s[i] = data[c[j]]
          BY <2>7, <3>3, <5>1
        <5>3. e[i] = data[c[j]]
          BY <2>9, <3>4, <5>1
        <5>. QED  BY <5>2, <5>3
      <4>. QED  BY <4>1, <4>2
    <3>6. s = e
      BY <2>5, <3>3, <3>4, <3>5
    <3>. QED  BY <3>1, <3>6
  <2>11. \A n \in Elems(c) : n \in Node /\ Live(n) /\ n \in On(node[t], nx)
    <3>1. On(h, nx) \cap On(r, nx) = {} /\ h \in On(h, nx)
      BY <1>3, <1>8, OnList DEF WellLinked
    <3>2. \A n \in Elems(c) : InList(n)
      BY <1>3, <1>8, <2>2 DEF InList
    <3>. QED  BY <1>1, <2>2, <3>1, <3>2 DEF Live
  <2>12. \A i, j \in DOMAIN batch : batch[i] = batch[j] => i = j
    <3> SUFFICES ASSUME NEW i \in 1..Len(c), NEW j \in 1..Len(c), data[c[i]] = data[c[j]] PROVE i = j
      BY <2>9
    <3>1. c[i] \in Elems(c) /\ c[j] \in Elems(c)
      BY DEF Elems
    <3>2. c[i] = c[j]
      BY <2>11, <3>1 DEF ValueInv
    <3>. QED  BY <2>2, <3>2 DEF Distinct
  <2>13. \A v : v \in {batch[i] : i \in DOMAIN batch} <=> \E n \in On(node[t], nx) : data[n] = v
    <3>1. \A n : n \in On(node[t], nx) <=> \E i \in 1..Len(c) : n = c[i]
      BY <1>1, <2>2 DEF Elems
    <3>. QED  BY <2>9, <3>1
  <2>14. {batch[i] : i \in DOMAIN batch} \subseteq AbsOutside
    BY <1>3, <1>22, <2>13
  <2>15. \A u \in Linking \ {t} : On(node[u], ny) = On(node[u], nx)
    <3>1. \A u \in Linking \ {t} : node[u] \in R \ {p, r}
      BY <1>1, <1>3, <1>8, <1>25 DEF ListInv
    <3>. QED  BY <1>9, <3>1
  <2>16. ASSUME NEW v, NEW n \in On(node[t], nx), data[n] = v
         PROVE  /\ v \notin outside /\ ~\E u \in Thread : Taken(u, v)
                /\ ~\E u \in Linking \ {t} : \E k2 \in On(node[u], nx) : data[k2] = v
    <3>1. n \in Node /\ Live(n) /\ v \in Value
      BY <1>1, <2>2, <2>11, <2>16 DEF TypeInv
    <3>2. v \notin outside /\ ~\E u \in Thread : Taken(u, v)
      BY <2>16, <3>1 DEF ValueInv
    <3>3. ASSUME NEW u \in Linking \ {t}, NEW k2 \in On(node[u], nx), data[k2] = v PROVE FALSE
      <4>1. node[u] \in Roots /\ node[u] # r /\ node[u] # h
        BY <1>1, <1>3 DEF ListInv
      <4>2. /\ On(node[u], nx) \cap On(r, nx) = {} /\ On(node[u], nx) \cap On(h, nx) = {}
            /\ h \in On(h, nx) /\ On(node[u], nx) \in SUBSET Node
        <5>1. WellLinked(Roots, nx) /\ h \in Roots /\ r \in Roots
          BY <1>3, <1>8
        <5>2. h \in On(h, nx) /\ On(node[u], nx) \in SUBSET Node
          BY <4>1, <5>1, OnList
        <5>. QED  BY <4>1, <5>1, <5>2 DEF WellLinked
      <4>3. k2 \in Node /\ Live(k2) /\ k2 # n
        BY <1>1, <1>8, <4>1, <4>2 DEF Live, InList
      <4>. QED  BY <2>16, <3>1, <3>3, <4>3 DEF ValueInv
    <3>. QED  BY <3>2, <3>3
  <2>17. \A v : v \in AbsOutside' <=> v \in AbsOutside /\ v \notin {batch[i] : i \in DOMAIN batch}
    <3>1. \A v : (\E u \in Linking : \E n \in On(node[u], nx) : data[n] = v) <=>
                   \/ \E n \in On(node[t], nx) : data[n] = v
                   \/ \E u \in Linking \ {t} : \E n \in On(node[u], nx) : data[n] = v
      BY <1>3
    <3>2. \A v : (\E u \in Linking \ {t} : \E n \in On(node[u], ny) : data[n] = v) <=>
                   \E u \in Linking \ {t} : \E n \in On(node[u], nx) : data[n] = v
      BY <2>15
    <3>. QED  BY <1>22, <1>23, <2>13, <2>16, <3>1, <3>2
  <2>18. AbsOutside' = AbsOutside \ {batch[i] : i \in DOMAIN batch}
    BY <2>17
  <2>19. Queue!Enqueue(batch)
    BY <2>10, <2>12, <2>14, <2>18 DEF Queue!Enqueue, AbsQueue, AbsOutside
  <2>20. Len(c) \in 1..Cardinality(Value)
    <3>1. Distinct(batch)
      BY <2>9, <2>12 DEF Distinct
    <3>2. IsFiniteSet(Elems(batch)) /\ Cardinality(Elems(batch)) = Len(c)
      BY <2>9, <3>1, DistinctCount
    <3>3. Elems(batch) \in SUBSET Value
      BY <2>9 DEF Elems
    <3>4. Cardinality(Elems(batch)) <= Cardinality(Value) /\ Cardinality(Value) \in Nat
      BY <3>3, QueueAssumption, FS_Subset, FS_CardinalityType
    <3>. QED  BY <2>2, <3>2, <3>4
  <2>21. \E b \in [1..Len(c) -> Value] : Queue!Enqueue(b)
    BY <2>9, <2>19
  <2>22. Queue!Next
    <3>1. \E l \in 1..Cardinality(Value) : \E b \in [1..l -> Value] : Queue!Enqueue(b)
      BY <2>20, <2>21
    <3>2. Queue!Cardinality(Value) = Cardinality(Value)
      BY DEF Queue!Cardinality, Cardinality
    <3>. QED  BY <3>1, <3>2 DEF Queue!Next
  <2>. QED  BY <1>21, <2>22
<1>. QED  BY <1>24, <1>25

\* A consumer moves mHead to the next node, the new dummy node, whose value it takes.
LEMMA CasStep ==
  ASSUME IInv, TypeInv', NEW t \in Thread, DequeueCas(t), mHead = snapHead[t]
  PROVE  IInv' /\ Queue!Next
<1> USE DEF IInv
<1>1. PICK h, e : h = mHead.DummyNode /\ e = headNext[t]
  OBVIOUS
<1>2. /\ pc[t] = "deq_cas" /\ Goto(t, "deq_return")
      /\ mHead' = [UID |-> mHead.UID + 1, DummyNode |-> e]
      /\ UNCHANGED <<mTail, mUsedSize, next, data, pool, node, snapHead, snapTail, headNext, tailNext,
                     output, outside>>
  BY <1>1 DEF DequeueCas, regVars, nodeVars
<1>3. /\ WellLinked(Roots, next) /\ h \in Roots /\ h \in Node /\ mHead.UID \in Nat
      /\ \A u \in Linking : node[u] \in Roots /\ node[u] # h
      /\ e = next[h] /\ e # Null /\ mTail.DummyNode # h /\ output[t] = data[e]
      /\ mHead'.DummyNode = e /\ mHead'.UID = mHead.UID + 1 /\ snapHead[t].DummyNode = h
  <2>1. HeadSnap(t)
    BY DEF SnapInv
  <2>. QED  BY <1>1, <1>2, <2>1 DEF HeadSnap, ListInv, Roots, TypeInv, Tagged
<1>4. /\ pc'[t] = "deq_return" /\ \A u \in Thread \ {t} : pc'[u] = pc[u]
      /\ Linking' = Linking /\ Roots' = (Roots \ {h}) \cup {e}
  <2>1. pc'[t] = "deq_return" /\ \A u \in Thread \ {t} : pc'[u] = pc[u]
    BY <1>2 DEF TypeInv, Goto
  <2>2. Linking' = Linking
    BY <1>2, <2>1, InLinking DEF LinkLabel
  <2>. QED  BY <1>1, <1>2, <1>3, <2>1, <2>2 DEF Roots
<1>5. /\ WellLinked(Roots', next) /\ e \in Node /\ e \notin Roots /\ e # h
      /\ On(e, next) = On(h, next) \ {h} /\ h \in On(h, next)
      /\ \A m \in Roots \ {h} : h \notin On(m, next)
  <2>1. WellLinked((Roots \ {h}) \cup {e}, next) /\ e \in Node /\ e \notin Roots
    BY <1>3, DropFirst
  <2>2. On(e, next) = On(h, next) \ {h} /\ h \in On(h, next)
    BY <1>3, ListTail, OnList
  <2>3. \A m \in Roots \ {h} : h \notin On(m, next)
    BY <1>3, <2>2 DEF WellLinked
  <2>. QED  BY <1>3, <1>4, <2>1, <2>2, <2>3
<1>6. /\ \A n : InList(n)' <=> InList(n) /\ n # h
      /\ InList(h) /\ InList(e)
  <2>1. \A n : InList(n)' <=> \E m \in (Roots \ {h}) \cup {e} : n \in On(m, next)
    BY <1>2, <1>4 DEF InList
  <2>2. e \in On(e, next)
    BY <1>4, <1>5, OnList
  <2>. QED  BY <1>3, <1>5, <2>1, <2>2 DEF InList
<1>7. Live(e) /\ \A n : Live(n)' <=> Live(n) /\ n # e
  BY <1>1, <1>3, <1>5, <1>6 DEF Live
<1>8. ListInv'
  BY <1>2, <1>3, <1>4, <1>5 DEF ListInv
<1>9. /\ \A u \in Thread : \A x : Returned(u, x)' <=> Returned(u, x) \/ (u = t /\ x = h)
      /\ \A u \in Thread : \A x : Taken(u, x)' <=> Taken(u, x) \/ (u = t /\ x = data[e])
  BY <1>2, <1>3, <1>4 DEF Returned, Taken
<1>10. NodeInv'
  <2>1. \A n \in pool : ~InList(n) /\ n # h
    BY <1>6 DEF NodeInv
  <2>2. ASSUME NEW u \in Thread, NEW n \in Node, Returned(u, n)'
        PROVE  n \notin pool /\ ~InList(n)' /\ \A w \in Thread : Returned(w, n)' => w = u
    <3>1. \A w \in Thread : ~Returned(w, h)
      BY <1>3, <1>6 DEF NodeInv
    <3>2. CASE n = h
      BY <1>6, <1>9, <2>1, <2>2, <3>1, <3>2
    <3>3. CASE n # h
      <4>1. Returned(u, n)
        BY <1>9, <2>2, <3>3
      <4>2. n \notin pool /\ ~InList(n) /\ \A w \in Thread : Returned(w, n) => w = u
        BY <4>1 DEF NodeInv
      <4>. QED  BY <1>6, <1>9, <3>3, <4>2
    <3>. QED  BY <3>2, <3>3
  <2>3. ASSUME NEW n \in Node PROVE n \in pool \/ InList(n)' \/ \E u \in Thread : Returned(u, n)'
    BY <1>6, <1>9 DEF NodeInv
  <2>. QED  BY <1>2, <1>6, <2>1, <2>2, <2>3 DEF NodeInv
<1>11. TailInv'
  BY <1>1, <1>2, <1>3, <1>5 DEF TailInv
<1>12. TargetInv'
  <2> SUFFICES ASSUME NEW u \in Thread, pc'[u] = "enq_link"
               PROVE  tailNext'[u] \in Node /\ (InList(tailNext[u])' \/ next'[tailNext'[u]] # Null)
    BY DEF TargetInv
  <2>1. PICK n : n = tailNext[u] /\ n = tailNext'[u]
    BY <1>2
  <2>2. n \in Node /\ (InList(n) \/ next[n] # Null)
    BY <1>4, <2>1 DEF TargetInv
  <2>3. InList(n)' \/ next'[n] # Null
    BY <1>2, <1>3, <1>6, <2>2
  <2>. QED  BY <2>1, <2>2, <2>3
<1>13. RankInv'
  <2>1. PICK rank \in [Thread -> Nat], m \in Nat : Ranked(rank, m)
    BY DEF RankInv
  <2>2. Ranked(rank, m)'
    BY <1>2, <1>4, <2>1 DEF Ranked
  <2>. QED  BY <2>2 DEF RankInv
<1>14. SnapInv'
  <2>1. TailSnap(t) /\ HeadSnap(t) /\ snapHead[t].UID \in Nat
    BY DEF SnapInv, TypeInv, Tagged
  <2>2. TailSnap(t)' /\ HeadSnap(t)'
    BY <1>2, <1>3, <1>4, <2>1 DEF TailSnap, HeadSnap
  <2>3. Only(t)
    BY <1>2, <1>4 DEF Only
  <2>4. mHead'.UID > mHead.UID
    BY <1>3
  <2>. QED  BY <1>2, <2>2, <2>3, <2>4, SnapsKept DEF TailMoves
<1>15. ValueInv'
  <2>1. \A n \in Node : Live(n)' => data[n] \notin outside
    BY <1>7 DEF ValueInv
  <2>2. \A n, k \in Node : Live(n)' /\ Live(k)' /\ data[n] = data[k] => n = k
    BY <1>7 DEF ValueInv
  <2>3. data[e] \in Value /\ data[e] \notin outside /\ \A u \in Thread : ~Taken(u, data[e])
    BY <1>5, <1>7 DEF ValueInv, TypeInv
  <2>4. ASSUME NEW u \in Thread, NEW v \in Value, Taken(u, v)'
        PROVE  /\ v \notin outside /\ \A n \in Node : Live(n)' => data[n] # v
               /\ \A w \in Thread : Taken(w, v)' => w = u
    <3>1. CASE v = data[e]
      <4>1. \A n \in Node : Live(n)' => data[n] # v
        BY <1>5, <1>7, <3>1 DEF ValueInv
      <4>. QED  BY <1>9, <2>3, <2>4, <3>1, <4>1
    <3>2. CASE v # data[e]
      <4>1. Taken(u, v)
        BY <1>9, <2>4, <3>2
      <4>2. v \notin outside /\ (\A n \in Node : Live(n) => data[n] # v) /\ \A w \in Thread : Taken(w, v) => w = u
        BY <4>1 DEF ValueInv
      <4>. QED  BY <1>7, <1>9, <3>2, <4>2
    <3>. QED  BY <3>1, <3>2
  <2>5. ASSUME NEW v \in Value
        PROVE  v \in outside \/ (\E n \in Node : Live(n)' /\ data[n] = v) \/ \E u \in Thread : Taken(u, v)'
    BY <1>7, <1>9 DEF ValueInv
  <2>. QED  BY <1>2, <2>1, <2>2, <2>4, <2>5 DEF ValueInv
<1>16. SizeInv'
  <2>1. LiveNodes' = LiveNodes \ {e} /\ e \in LiveNodes
    BY <1>5, <1>7 DEF LiveNodes
  <2>2. Cardinality(LiveNodes') = Cardinality(LiveNodes) - 1
    BY <2>1, LiveFinite, FS_RemoveElement
  <2>3. /\ Cardinality(Busy(pc)) \in Nat
        /\ Cardinality(Busy(pc')) = Cardinality(Busy(pc)) - 1
    BY <1>2, BusyStep DEF BusyLabel, LinkLabel, CountLabel, ClaimLabel
  <2>4. mUsedSize = Cardinality(LiveNodes) - Cardinality(Busy(pc))
    BY DEF SizeInv, Busy
  <2>5. mUsedSize' = Cardinality(LiveNodes') - Cardinality(Busy(pc'))
    BY <1>2, <2>2, <2>3, <2>4, LiveFinite
  <2>. QED  BY <2>5 DEF SizeInv, Busy
<1>17. IInv'
  BY <1>8, <1>10, <1>11, <1>12, <1>13, <1>14, <1>15, <1>16
<1>18. /\ Chain' = Tail(Chain) /\ Chain \in Seq(Node) /\ Chain # <<>> /\ Chain[1] = e
       /\ Len(Chain) \in Nat \ {0} /\ Chain' \in Seq(Node) /\ Len(Chain') = Len(Chain) - 1
       /\ \A i \in 1..Len(Chain') : Chain'[i] = Chain[i + 1]
  <2>1. Chain = List(e, next)
    BY <1>1, <1>3 DEF Chain, After
  <2>2. WellLinked(Roots', next) /\ e \in Roots'
    BY <1>4, <1>5
  <2>3. Chain \in Seq(Node) /\ Len(Chain) \in Nat \ {0} /\ Chain[1] = e
    BY <2>1, <2>2, OnList DEF WellLinked
  <2>4. Chain' = Tail(Chain)
    BY <1>2, <1>3, <1>8, <2>1, ChainIsNext
  <2>5. Chain # <<>>
    BY <2>3
  <2>. QED  BY <2>3, <2>4, <2>5
<1>19. AbsQueue # <<>> /\ Head(AbsQueue) = data[e] /\ AbsQueue' = Tail(AbsQueue)
  <2>1. PICK q, s, r : q = AbsQueue /\ s = AbsQueue' /\ r = Tail(AbsQueue)
    OBVIOUS
  <2>2. /\ q \in Seq(Value) /\ Len(q) = Len(Chain) /\ \A i \in 1..Len(Chain) : q[i] = data[Chain[i]]
    BY <1>18, <2>1 DEF AbsQueue, TypeInv
  <2>3. /\ s \in Seq(Value) /\ Len(s) = Len(Chain') /\ \A i \in 1..Len(Chain') : s[i] = data[Chain'[i]]
    BY <1>2, <1>18, <2>1 DEF AbsQueue, TypeInv
  <2>4. q # <<>> /\ q[1] = data[e] /\ Head(q) = q[1]
    BY <1>18, <2>2
  <2>5. r \in Seq(Value) /\ Len(r) = Len(q) - 1 /\ \A i \in 1..Len(r) : r[i] = q[i + 1]
    BY <2>1, <2>2, <2>4
  <2>6. ASSUME NEW i \in 1..Len(Chain') PROVE s[i] = r[i]
    <3>1. i \in 1..Len(r) /\ i + 1 \in 1..Len(Chain)
      BY <1>18, <2>2, <2>5
    <3>. QED  BY <1>18, <2>2, <2>3, <2>5, <3>1
  <2>7. s = r
    BY <1>18, <2>2, <2>3, <2>5, <2>6
  <2>. QED  BY <2>1, <2>4, <2>7
<1>20. AbsOutside' = AbsOutside \cup {Head(AbsQueue)}
  <2>1. ASSUME NEW v PROVE OutsideIs(v)' <=> OutsideIs(v) \/ v = data[e]
    <3>1. \A u \in Thread : pc'[u] \in LinkLabel <=> pc[u] \in LinkLabel
      BY <1>2, <1>4 DEF LinkLabel
    <3>. QED  BY <1>2, <1>9, <3>1 DEF OutsideIs
  <2>2. \A v : v \in AbsOutside' <=> v \in AbsOutside \/ v = data[e]
    BY <1>8, <2>1, InAbsOutside, InAbsOutsideNext
  <2>. QED  BY <1>19, <2>2
<1>21. Queue!Dequeue
  BY <1>19, <1>20 DEF Queue!Dequeue, AbsQueue, AbsOutside
<1>. QED  BY <1>17, <1>21 DEF Queue!Next

\* A consumer returns the old dummy node to the pool and the value to its caller.
LEMMA ReturnStep ==
  ASSUME IInv, TypeInv', NEW t \in Thread, DequeueReturn(t)
  PROVE  IInv' /\ AbsKept
<1> USE DEF IInv
<1>1. PICK d, x : d = snapHead[t].DummyNode /\ x = output[t]
  OBVIOUS
<1>2. /\ pc[t] = "deq_return" /\ Goto(t, "idle")
      /\ pool' = pool \cup {d} /\ outside' = outside \cup {x}
      /\ UNCHANGED <<mHead, mTail, mUsedSize, next, data, node, snapHead, snapTail, headNext, tailNext,
                     output>>
  BY <1>1 DEF DequeueReturn, regVars
<1>3. /\ pc'[t] = "idle" /\ \A u \in Thread \ {t} : pc'[u] = pc[u]
      /\ d \in Node /\ x \in Value
      /\ \A u \in Thread : pc'[u] \in LinkLabel <=> pc[u] \in LinkLabel
  <2>1. d \in Node /\ x \in Value
    BY <1>1 DEF TypeInv, Tagged
  <2>. QED  BY <1>2, <2>1 DEF TypeInv, Goto, LinkLabel
<1>4. /\ ListInv' /\ Roots' = Roots /\ Linking' = Linking /\ Chain' = Chain
      /\ \A n : (InList(n)' <=> InList(n)) /\ (Live(n)' <=> Live(n))
      /\ LiveNodes' = LiveNodes
  BY <1>2, <1>3, ListsKept
<1>5. /\ Returned(t, d) /\ Taken(t, x)
      /\ \A u \in Thread : \A n : Returned(u, n)' <=> Returned(u, n) /\ u # t
      /\ \A u \in Thread : \A v : Taken(u, v)' <=> Taken(u, v) /\ u # t
      /\ \A n : Returned(t, n) => n = d
      /\ \A v : Taken(t, v) => v = x
  BY <1>1, <1>2, <1>3 DEF Returned, Taken
<1>6. NodeInv'
  <2>1. /\ d \notin pool /\ ~InList(d) /\ \A u \in Thread : Returned(u, d) => u = t
    BY <1>3, <1>5 DEF NodeInv
  <2>2. \A n \in pool' : ~InList(n)'
    BY <1>2, <1>4, <2>1 DEF NodeInv
  <2>3. ASSUME NEW u \in Thread, NEW n \in Node, Returned(u, n)'
        PROVE  n \notin pool' /\ ~InList(n)' /\ \A w \in Thread : Returned(w, n)' => w = u
    BY <1>2, <1>4, <1>5, <2>1, <2>3 DEF NodeInv
  <2>4. ASSUME NEW n \in Node PROVE n \in pool' \/ InList(n)' \/ \E u \in Thread : Returned(u, n)'
    BY <1>2, <1>4, <1>5 DEF NodeInv
  <2>. QED  BY <2>2, <2>3, <2>4 DEF NodeInv
<1>7. TailInv'
  BY <1>2 DEF TailInv
<1>8. TargetInv'
  <2> SUFFICES ASSUME NEW u \in Thread, pc'[u] = "enq_link"
               PROVE  tailNext'[u] \in Node /\ (InList(tailNext[u])' \/ next'[tailNext'[u]] # Null)
    BY DEF TargetInv
  <2>1. PICK n : n = tailNext[u] /\ n = tailNext'[u]
    BY <1>2
  <2>. QED  BY <1>2, <1>3, <1>4, <2>1 DEF TargetInv
<1>9. RankInv'
  <2>1. PICK rank \in [Thread -> Nat], m \in Nat : Ranked(rank, m)
    BY DEF RankInv
  <2>2. Ranked(rank, m)'
    BY <1>2, <1>3, <1>4, <2>1 DEF Ranked
  <2>. QED  BY <2>2 DEF RankInv
<1>10. SnapInv'
  <2>1. TailSnap(t) /\ HeadSnap(t)
    BY DEF SnapInv
  <2>2. TailSnap(t)' /\ HeadSnap(t)'
    BY <1>2, <1>3, <2>1 DEF TailSnap, HeadSnap
  <2>3. Only(t)
    BY <1>2, <1>3 DEF Only
  <2>. QED  BY <1>2, <2>2, <2>3, SnapsKept DEF TailMoves
<1>11. ValueInv'
  <2>1. x \notin outside /\ (\A n \in Node : Live(n) => data[n] # x) /\ \A u \in Thread : Taken(u, x) => u = t
    BY <1>3, <1>5 DEF ValueInv
  <2>2. \A n \in Node : Live(n)' => data[n] \notin outside'
    BY <1>2, <1>4, <2>1 DEF ValueInv
  <2>3. \A n, k \in Node : Live(n)' /\ Live(k)' /\ data[n] = data[k] => n = k
    BY <1>4 DEF ValueInv
  <2>4. ASSUME NEW u \in Thread, NEW v \in Value, Taken(u, v)'
        PROVE  /\ v \notin outside' /\ \A n \in Node : Live(n)' => data[n] # v
               /\ \A w \in Thread : Taken(w, v)' => w = u
    <3>1. Taken(u, v) /\ u # t /\ v # x
      BY <1>5, <2>1, <2>4
    <3>2. v \notin outside /\ (\A n \in Node : Live(n) => data[n] # v) /\ \A w \in Thread : Taken(w, v) => w = u
      BY <3>1 DEF ValueInv
    <3>. QED  BY <1>2, <1>4, <1>5, <3>1, <3>2
  <2>5. ASSUME NEW v \in Value
        PROVE  v \in outside' \/ (\E n \in Node : Live(n)' /\ data[n] = v) \/ \E u \in Thread : Taken(u, v)'
    BY <1>2, <1>4, <1>5 DEF ValueInv
  <2>. QED  BY <1>2, <2>2, <2>3, <2>4, <2>5 DEF ValueInv
<1>12. SizeInv'
  <2>1. Cardinality(Busy(pc')) = Cardinality(Busy(pc))
    BY <1>2, BusyStep DEF BusyLabel, LinkLabel, CountLabel, ClaimLabel
  <2>. QED  BY <1>2, <1>4, <2>1 DEF SizeInv, Busy
<1>13. AbsQueue' = AbsQueue
  BY <1>2, <1>4 DEF AbsQueue
<1>14. ASSUME NEW v PROVE v \in AbsOutside' <=> v \in AbsOutside
  <2>1. OutsideIs(v)' <=> OutsideIs(v)
    <3>1. v \in outside' \/ (\E u \in Thread : Taken(u, v)') <=> v \in outside \/ \E u \in Thread : Taken(u, v)
      BY <1>2, <1>5
    <3>. QED  BY <1>2, <1>3, <3>1 DEF OutsideIs
  <2>. QED  BY <1>4, <2>1, InAbsOutside, InAbsOutsideNext
<1>. QED  BY <1>4, <1>6, <1>7, <1>8, <1>9, <1>10, <1>11, <1>12, <1>13, <1>14 DEF AbsKept

-----------------------------------------------------------------------------
(* The invariant. *)

\* It holds at first.
LEMMA InitInv == Init => IInv /\ Chain = <<>> /\ AbsOutside = Value
<1> SUFFICES ASSUME Init PROVE IInv /\ Chain = <<>> /\ AbsOutside = Value
  OBVIOUS
<1>1. PICK d \in Node : /\ mHead = [UID |-> 0, DummyNode |-> d] /\ mTail = mHead
                        /\ pool = Node \ {d}
                        /\ snapHead = [t \in Thread |-> mHead] /\ snapTail = snapHead
                        /\ node = [t \in Thread |-> d]
  BY DEF Init
<1>2. /\ next = [n \in Node |-> Null] /\ mUsedSize = 0
      /\ pc = [t \in Thread |-> "idle"] /\ outside = Value
  BY DEF Init
<1>3. TypeInv
  <2>1. PICK v \in Value : v = CHOOSE w \in Value : TRUE
    BY QueueAssumption
  <2>2. data = [n \in Node |-> v] /\ output = [t \in Thread |-> v]
    BY <2>1 DEF Init
  <2>3. headNext = [t \in Thread |-> Null] /\ tailNext = headNext
    BY DEF Init
  <2>4. mHead \in Tagged
    BY <1>1 DEF Tagged
  <2>. QED  BY <1>1, <1>2, <2>2, <2>3, <2>4 DEF TypeInv, Pointer, Label
<1>4. Linking = {} /\ Roots = {d} /\ mHead.DummyNode = d /\ mTail.DummyNode = d
  <2>1. Linking = {}
    BY <1>2, InLinking DEF LinkLabel
  <2>. QED  BY <1>1, <2>1 DEF Roots
<1>5. List(d, next) = <<d>> /\ Links(<<d>>, d, next) /\ Distinct(<<d>>) /\ On(d, next) = {d}
  <2>1. PICK c : c = <<d>>
    OBVIOUS
  <2>2. c \in Seq(Node) /\ Len(c) = 1 /\ c[1] = d /\ c # <<>>
    BY <2>1
  <2>3. Links(c, d, next) /\ Distinct(c) /\ Elems(c) = {d}
    BY <1>2, <2>2 DEF Links, Distinct, Elems
  <2>4. List(d, next) = c
    BY <2>2, <2>3, ListIs
  <2>. QED  BY <2>1, <2>3, <2>4 DEF On
<1>6. ListInv
  <2>1. <<d>> \in Seq(Node)
    OBVIOUS
  <2>2. next \in [Node -> Pointer]
    BY <1>2 DEF Pointer
  <2>. QED  BY <1>4, <1>5, <2>1, <2>2 DEF ListInv, WellLinked
<1>7. /\ \A n : InList(n) <=> n = d
      /\ \A n : ~Live(n)
      /\ \A t \in Thread : pc[t] = "idle"
      /\ \A t \in Thread : \A n : ~Returned(t, n) /\ ~Taken(t, n)
  <2>1. \A t \in Thread : pc[t] = "idle"
    BY <1>2
  <2>. QED  BY <1>4, <1>5, <2>1 DEF InList, Live, Returned, Taken
<1>8. NodeInv
  BY <1>1, <1>7 DEF NodeInv
<1>9. TailInv /\ TargetInv
  BY <1>4, <1>5, <1>7 DEF TailInv, TargetInv
<1>10. RankInv
  <2>1. PICK rank : rank = [t \in Thread |-> 0]
    OBVIOUS
  <2>2. rank \in [Thread -> Nat] /\ Ranked(rank, 1)
    BY <1>7, <2>1 DEF Ranked
  <2>. QED  BY <2>2 DEF RankInv
<1>11. SnapInv
  <2>1. \A t \in Thread : snapTail[t].UID <= mTail.UID /\ snapHead[t].UID <= mHead.UID
    BY <1>1
  <2>. QED  BY <1>7, <2>1 DEF SnapInv, TailSnap, HeadSnap
<1>12. ValueInv
  BY <1>2, <1>7 DEF ValueInv
<1>13. SizeInv
  <2>1. LiveNodes = {} /\ Busy(pc) = {}
    BY <1>7 DEF LiveNodes, Busy, BusyLabel, LinkLabel, CountLabel, ClaimLabel
  <2>2. Cardinality(LiveNodes) = 0 /\ Cardinality(Busy(pc)) = 0
    BY <2>1, FS_EmptySet
  <2>. QED  BY <1>2, <2>2 DEF SizeInv, Busy
<1>14. Chain = <<>>
  <2>1. Chain \in Seq(Node) /\ Len(Chain) = Len(List(d, next)) - 1
    BY <1>4, <1>6, ChainIs
  <2>. QED  BY <1>5, <2>1
<1>15. \A v : v \in AbsOutside <=> v \in outside
  <2>1. \A v : OutsideIs(v) <=> v \in outside
    BY <1>7 DEF OutsideIs, LinkLabel
  <2>. QED  BY <1>6, <2>1, InAbsOutside
<1>16. AbsOutside = Value
  BY <1>2, <1>15
<1>. QED
  BY <1>3, <1>6, <1>8, <1>9, <1>10, <1>11, <1>12, <1>13, <1>14, <1>16 DEF IInv

\* Every step keeps it and is one of the abstract queue, or none.
LEMMA NextInv ==
  IInv /\ [Next]_vars => IInv' /\ (AbsKept \/ Queue!Next)
<1> SUFFICES ASSUME IInv, [Next]_vars PROVE IInv' /\ (AbsKept \/ Queue!Next)
  OBVIOUS
<1>1. TypeInv' /\ Producer \subseteq Thread /\ Consumer \subseteq Thread
  BY TypeStep DEF IInv, Thread
<1>2. ASSUME NEW t \in Producer, NEW v \in Value, EnqueueRent(t, v) PROVE IInv' /\ AbsKept
  BY <1>1, <1>2, RentStep
<1>3. ASSUME NEW t \in Producer, Enqueue(t) PROVE IInv' /\ (AbsKept \/ Queue!Next)
  <2>1. t \in Thread
    BY <1>1
  <2>2. CASE \/ EnqueueTailNode(t) \/ EnqueueTailUid(t) \/ EnqueueTailNext(t) \/ EnqueueTarget(t)
             \/ (EnqueueLink(t) /\ next[tailNext[t]] # Null)
    BY <1>1, <2>1, <2>2, EnqueueReads
  <2>3. CASE EnqueueHelp(t) \/ EnqueueSwing(t) \/ EnqueueCount(t)
    BY <1>1, <2>1, <2>3, EnqueueMoves
  <2>4. CASE EnqueueLink(t) /\ next[tailNext[t]] = Null
    BY <1>1, <2>1, <2>4, LinkStep
  <2>. QED  BY <1>3, <2>2, <2>3, <2>4 DEF Enqueue
<1>4. ASSUME NEW t \in Consumer, DequeueReserve(t) \/ TryDequeue(t)
      PROVE  IInv' /\ (AbsKept \/ Queue!Next)
  <2>1. t \in Thread
    BY <1>1
  <2>2. CASE \/ DequeueReserve(t) \/ DequeueRestore(t) \/ DequeueHeadNode(t) \/ DequeueHeadUid(t)
             \/ DequeueTailNode(t) \/ DequeueTailUid(t) \/ DequeueHeadNext(t) \/ DequeueTailNext(t)
             \/ DequeueCheckTail(t) \/ DequeueData(t) \/ (DequeueCas(t) /\ mHead # snapHead[t])
    BY <1>1, <2>1, <2>2, DequeueReads
  <2>3. CASE DequeueHelp(t)
    BY <1>1, <2>1, <2>3, DequeueHelps
  <2>4. CASE DequeueCas(t) /\ mHead = snapHead[t]
    BY <1>1, <2>1, <2>4, CasStep
  <2>5. CASE DequeueReturn(t)
    BY <1>1, <2>1, <2>5, ReturnStep
  <2>. QED  BY <1>4, <2>2, <2>3, <2>4, <2>5 DEF TryDequeue
<1>5. CASE UNCHANGED vars
  <2>1. /\ UNCHANGED <<mHead, mTail, next, data, mUsedSize, pool, pc, node, snapHead, snapTail>>
        /\ UNCHANGED <<headNext, tailNext, output, outside>>
    BY <1>5 DEF vars, nodeVars, regVars
  <2>2. Linking' = Linking /\ Roots' = Roots
    BY <2>1 DEF Linking, At, Roots
  <2>3. ListInv' /\ NodeInv' /\ TailInv' /\ TargetInv'
    BY <2>1, <2>2 DEF IInv, ListInv, NodeInv, TailInv, TargetInv, InList, Returned
  <2>4. RankInv' /\ SnapInv'
    BY <2>1, <2>2 DEF IInv, RankInv, Ranked, SnapInv, TailSnap, HeadSnap
  <2>5. ValueInv' /\ SizeInv'
    BY <2>1, <2>2 DEF IInv, ValueInv, SizeInv, LiveNodes, Live, InList, Taken
  <2>6. AbsKept
    <3>1. Chain' = Chain /\ Hanging' = Hanging
      BY <2>1, <2>2 DEF Chain, Hanging, After
    <3>. QED  BY <2>1, <2>2, <3>1 DEF AbsKept, AbsQueue, AbsOutside, At
  <2>. QED  BY <1>1, <2>3, <2>4, <2>5, <2>6 DEF IInv
<1>. QED  BY <1>2, <1>3, <1>4, <1>5 DEF Next

\* It holds in every state.
LEMMA InvHolds == Spec => []IInv
<1>1. Init => IInv
  BY InitInv
<1>2. IInv /\ [Next]_vars => IInv'
  BY NextInv
<1>. QED  BY <1>1, <1>2, PTL DEF Spec

\* Enqueue and TryDequeue are atomic, first in, first out, whatever the
\* interleaving and although nodes are reused while they are in snapshots and
\* linked to while they are in no queue.
THEOREM LockFreeQueueIsAQueue == Spec => ImplementsQueue
<1>1. Init => Queue!Init
  <2> SUFFICES ASSUME Init PROVE Queue!Init
    OBVIOUS
  <2>1. Chain = <<>> /\ AbsOutside = Value
    BY InitInv
  <2>2. AbsQueue = <<>>
    BY <2>1 DEF AbsQueue
  <2>. QED  BY <2>1, <2>2 DEF Queue!Init, AbsQueue, AbsOutside
<1>2. AbsKept => UNCHANGED Queue!vars
  BY DEF AbsKept, Queue!vars, AbsQueue, AbsOutside
<1>3. IInv /\ [Next]_vars => [Queue!Next]_(Queue!vars)
  BY <1>2, NextInv
<1>. QED  BY <1>1, <1>3, InvHolds, PTL DEF Spec, ImplementsQueue, Queue!Spec

-----------------------------------------------------------------------------
(* The three records of the content. *)

\* The nodes of the producers that have not linked theirs yet.
OwnNodes == {node[t] : t \in Linking}

\* The nodes with values: those in the queue, those behind a node that is not
\* linked yet, and these.
LEMMA LiveParts ==
  ASSUME IInv
  PROVE  /\ LiveNodes = Elems(Chain) \cup Hanging \cup OwnNodes
         /\ Elems(Chain) \cap Hanging = {}
         /\ (Elems(Chain) \cup Hanging) \cap OwnNodes = {}
<1> USE DEF IInv
<1>1. PICK h : h = mHead.DummyNode
  OBVIOUS
<1>2. /\ WellLinked(Roots, next) /\ h \in Roots /\ Roots \subseteq Node
      /\ Roots = {h} \cup OwnNodes /\ h \notin OwnNodes
      /\ \A t \in Linking : node[t] \in Roots
      /\ \A m \in Roots : m \in On(m, next) /\ On(m, next) \subseteq Node
  <2>1. /\ WellLinked(Roots, next) /\ h \in Roots /\ Roots \subseteq Node
        /\ Roots = {h} \cup OwnNodes /\ h \notin OwnNodes
        /\ \A t \in Linking : node[t] \in Roots
    BY <1>1 DEF ListInv, Roots, WellLinked, OwnNodes
  <2>. QED  BY <2>1, OnList
<1>3. Elems(Chain) = On(h, next) \ {h}
  BY <1>1, ChainIs
<1>4. \A n : n \in Hanging <=> \E m \in OwnNodes : n \in On(m, next) \ {m}
  BY InHanging, InLinking DEF OwnNodes
<1>5. \A m, k \in Roots : m # k => On(m, next) \cap On(k, next) = {}
  BY <1>2 DEF WellLinked
<1>6. \A n : n \in LiveNodes <=> n # h /\ \E m \in Roots : n \in On(m, next)
  BY <1>1, <1>2 DEF LiveNodes, Live, InList
<1>7. \A n : n \in LiveNodes <=> n \in Elems(Chain) \cup Hanging \cup OwnNodes
  BY <1>2, <1>3, <1>4, <1>5, <1>6
<1>8. Elems(Chain) \cap Hanging = {}
  BY <1>2, <1>3, <1>4, <1>5
<1>9. (Elems(Chain) \cup Hanging) \cap OwnNodes = {}
  BY <1>2, <1>3, <1>4, <1>5
<1>. QED  BY <1>7, <1>8, <1>9

\* mUsedSize is exact.
LEMMA SizeIs == IInv => SizeIsExact
<1> SUFFICES ASSUME IInv PROVE SizeIsExact
  OBVIOUS
<1>1. PICK A, H, O, L, C :
        A = Elems(Chain) /\ H = Hanging /\ O = OwnNodes /\ L = Linking
        /\ C = At({"enq_swing", "enq_count", "deq_restore"} \cup
             {"deq_head_node", "deq_head_uid", "deq_tail_node", "deq_tail_uid", "deq_head_next",
              "deq_tail_next", "deq_help", "deq_check", "deq_data", "deq_cas"})
  OBVIOUS
<1>2. /\ LiveNodes = A \cup H \cup O /\ A \cap H = {} /\ (A \cup H) \cap O = {}
  BY <1>1, LiveParts
<1>3. /\ IsFiniteSet(A) /\ IsFiniteSet(H) /\ IsFiniteSet(O) /\ IsFiniteSet(A \cup H)
      /\ Cardinality(A) \in Nat /\ Cardinality(H) \in Nat /\ Cardinality(O) \in Nat
  <2>1. A \in SUBSET LiveNodes /\ H \in SUBSET LiveNodes /\ O \in SUBSET LiveNodes
        /\ A \cup H \in SUBSET LiveNodes
    BY <1>2
  <2>. QED  BY <2>1, LiveFinite, FS_Subset, FS_CardinalityType
<1>4. Cardinality(LiveNodes) = Cardinality(A) + Cardinality(H) + Cardinality(O)
  <2>1. Cardinality(A \cup H) = Cardinality(A) + Cardinality(H) - Cardinality(A \cap H)
    BY <1>3, FS_Union
  <2>2. /\ Cardinality((A \cup H) \cup O)
             = Cardinality(A \cup H) + Cardinality(O) - Cardinality((A \cup H) \cap O)
    BY <1>3, FS_Union
  <2>3. Cardinality(A \cap H) = 0 /\ Cardinality((A \cup H) \cap O) = 0
    BY <1>2, FS_EmptySet
  <2>4. LiveNodes = (A \cup H) \cup O
    BY <1>2
  <2>. QED  BY <1>3, <2>1, <2>2, <2>3, <2>4
<1>5. Cardinality(A) = Len(Chain) /\ Len(Chain) \in Nat
  <2>1. Chain \in Seq(Node) /\ Distinct(Chain)
    BY ChainIs DEF IInv
  <2>. QED  BY <1>1, <2>1, DistinctCount
<1>6. Busy(pc) = L \cup C /\ L \cap C = {}
  BY <1>1, InLinking DEF Busy, At, BusyLabel, LinkLabel, CountLabel, ClaimLabel
<1>7. IsFiniteSet(L) /\ IsFiniteSet(C) /\ Cardinality(L) \in Nat /\ Cardinality(C) \in Nat
  <2>1. L \in SUBSET Thread /\ C \in SUBSET Thread /\ IsFiniteSet(Thread)
    BY <1>1, QueueAssumption DEF Linking, At
  <2>. QED  BY <2>1, FS_Subset, FS_CardinalityType
<1>8. Cardinality(Busy(pc)) = Cardinality(L) + Cardinality(C)
  <2>1. Cardinality(L \cup C) = Cardinality(L) + Cardinality(C) - Cardinality(L \cap C)
    BY <1>7, FS_Union
  <2>2. Cardinality(L \cap C) = 0
    BY <1>6, FS_EmptySet
  <2>. QED  BY <1>6, <1>7, <2>1, <2>2
<1>9. Cardinality(O) = Cardinality(L)
  <2>1. PICK f : f = [t \in L |-> node[t]]
    OBVIOUS
  <2>2. f \in [L -> O] /\ (\A a, b \in L : f[a] = f[b] => a = b) /\ \A n \in O : \E t \in L : f[t] = n
    BY <1>1, <2>1 DEF IInv, ListInv, OwnNodes
  <2>3. f \in Bijection(L, O)
    BY <2>2, Fun_IsBij
  <2>4. ExistsBijection(L, O)
    BY <2>3 DEF ExistsBijection
  <2>. QED  BY <1>7, <2>4, FS_Bijection
<1>10. mUsedSize = Cardinality(LiveNodes) - Cardinality(Busy(pc))
  BY DEF IInv, SizeInv, Busy
<1>11. mUsedSize = Len(Chain) + Cardinality(H) - Cardinality(C)
  BY <1>3, <1>4, <1>5, <1>7, <1>8, <1>9, <1>10
<1>. QED  BY <1>1, <1>11 DEF SizeIsExact

\* Nothing is lost.
LEMMA NothingIsLost == IInv /\ SizeIsExact => NothingLost
<1> SUFFICES ASSUME IInv, SizeIsExact, At({"idle"}) = Thread PROVE
      LET values == [i \in 1..Len(Chain) |-> data[Chain[i]]]
          queued == {values[i] : i \in 1..Len(Chain)}
      IN  /\ mUsedSize = Len(Chain) /\ Cardinality(queued) = Len(Chain)
          /\ queued \cup outside = Value /\ queued \cap outside = {}
          /\ pool = Node \ ({mHead.DummyNode} \cup {Chain[i] : i \in 1..Len(Chain)})
  BY DEF NothingLost
<1> USE DEF IInv
<1>1. PICK h, q : h = mHead.DummyNode /\ q = AbsQueue
  OBVIOUS
<1>2. \A t \in Thread : pc[t] = "idle"
  BY DEF At
<1>3. Linking = {} /\ OwnNodes = {} /\ \A n : n \notin Hanging
  <2>1. Linking = {}
    BY <1>2, InLinking DEF LinkLabel
  <2>2. \A n : n \notin Hanging
    BY <2>1, InHanging, InLinking
  <2>. QED  BY <2>1, <2>2 DEF OwnNodes
<1>4. /\ LiveNodes = Elems(Chain)
      /\ \A n \in Node : InList(n) <=> n = h \/ n \in Elems(Chain)
      /\ h \in Node
  <2>1. LiveNodes = Elems(Chain)
    BY <1>3, LiveParts
  <2>2. InList(h) /\ h \in Node
    <3>1. WellLinked(Roots, next) /\ h \in Roots /\ h \in Node
      BY <1>1 DEF ListInv, Roots, WellLinked
    <3>. QED  BY <3>1, OnList DEF InList
  <2>3. \A n \in Node : n \in LiveNodes <=> InList(n) /\ n # h
    BY <1>1 DEF LiveNodes, Live
  <2>. QED  BY <2>1, <2>2, <2>3
<1>5. \A t \in Thread : \A x : ~Returned(t, x) /\ ~Taken(t, x)
  BY <1>2 DEF Returned, Taken
<1>6. pool = Node \ ({h} \cup Elems(Chain))
  BY <1>4, <1>5 DEF NodeInv, TypeInv
<1>7. /\ Chain \in Seq(Node) /\ Distinct(Chain) /\ Len(Chain) \in Nat
      /\ q \in Seq(Value) /\ Len(q) = Len(Chain)
      /\ \A i \in 1..Len(Chain) : q[i] = data[Chain[i]] /\ Chain[i] \in Elems(Chain)
  BY <1>1, ChainIs DEF AbsQueue, TypeInv, Elems
<1>8. \A n \in Elems(Chain) : n \in Node /\ Live(n)
  BY <1>4 DEF LiveNodes
<1>9. Distinct(q)
  <2> SUFFICES ASSUME NEW i \in 1..Len(Chain), NEW j \in 1..Len(Chain), q[i] = q[j] PROVE i = j
    BY <1>7 DEF Distinct
  <2>1. Chain[i] = Chain[j]
    BY <1>7, <1>8 DEF ValueInv
  <2>. QED  BY <1>7, <2>1 DEF Distinct
<1>10. Cardinality(Elems(q)) = Len(Chain)
  BY <1>7, <1>9, DistinctCount
<1>11. \A v : v \in Elems(q) <=> \E n \in Elems(Chain) : data[n] = v
  <2>1. \A v : v \in Elems(q) <=> \E i \in 1..Len(Chain) : v = q[i]
    BY <1>7 DEF Elems
  <2>2. \A n : n \in Elems(Chain) <=> \E i \in 1..Len(Chain) : n = Chain[i]
    BY DEF Elems
  <2>. QED  BY <1>7, <2>1, <2>2
<1>12. Elems(q) \cup outside = Value /\ Elems(q) \cap outside = {}
  <2>1. \A v \in Value : v \in Elems(q) \/ v \in outside
    BY <1>4, <1>5, <1>11 DEF ValueInv, LiveNodes
  <2>2. \A v : v \in Elems(q) => v \in Value /\ v \notin outside
    BY <1>8, <1>11 DEF ValueInv, TypeInv
  <2>. QED  BY <2>1, <2>2 DEF TypeInv
<1>13. mUsedSize = Len(Chain)
  <2>1. Cardinality(Busy(pc)) = 0
    <3>1. Busy(pc) = {}
      BY <1>2 DEF Busy, BusyLabel, LinkLabel, CountLabel, ClaimLabel
    <3>. QED  BY <3>1, FS_EmptySet
  <2>2. Cardinality(LiveNodes) = Len(Chain)
    BY <1>4, <1>7, DistinctCount
  <2>. QED  BY <1>7, <2>1, <2>2 DEF SizeInv, Busy
<1>. QED  BY <1>1, <1>6, <1>7, <1>10, <1>12, <1>13 DEF AbsQueue, Elems

\* The count, the list and the pool agree, and mTail never points to a node that
\* was given back, for every number of producers, consumers, values and nodes.
THEOREM QueueIsAlwaysConsistent == Spec => []QueueIsConsistent
<1>1. IInv => TailIsInQueue
  <2> SUFFICES ASSUME IInv PROVE TailIsInQueue
    OBVIOUS
  <2>1. InList(mTail.DummyNode)
    BY DEF IInv, TailInv, InList, Roots
  <2>. QED  BY <2>1 DEF IInv, NodeInv, TailIsInQueue
<1>2. IInv => QueueIsConsistent
  BY <1>1, SizeIs, NothingIsLost DEF QueueIsConsistent
<1>. QED  BY <1>2, InvHolds, PTL
==============================================================================
