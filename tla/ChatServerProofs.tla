--------------------------- MODULE ChatServerProofs ---------------------------
(***************************************************************************)
(* The chat server for any number of sessions, users, packets and network  *)
(* threads, any size of the map and any requests, on the map or off it:    *)
(* packets are counted as they are shared, the tables of users agree, and  *)
(* nobody stays behind whose requests were not overtaken.                  *)
(***************************************************************************)
EXTENDS ChatServer, FiniteSetTheorems, SequenceTheorems, TLAPS

-----------------------------------------------------------------------------
(* The inductive invariant. *)

Label == {"idle", "received", "set_received", "set_left", "free"}

\* A network thread has a packet exactly while it is in OnReceived, for a
\* session that has not left.
ThreadInv ==
  /\ left \in SUBSET Session
  /\ receiving \in [Receiver -> Session \cup {None}]
  /\ pc \in [Receiver -> Label]
  /\ held \in [Receiver -> Packet \cup {None}]
  /\ \A t \in Receiver :
       /\ pc[t] \in {"received", "set_received", "free"} <=> held[t] # None
       /\ held[t] # None <=> receiving[t] # None
       /\ receiving[t] \notin left

\* The job thread has a job exactly while it handles it, and it has ended when
\* the main thread works on the queue.
JobThreadInv ==
  /\ job \in Job \cup {None}
  /\ jobPc \in {"handled", "aborted"} <=> job # None
  /\ mainPc \in {"drain", "done"} => jobPc = "exited"

\* A request has a session and a packet, a disconnect a session that has left.
Proper(j) ==
  /\ j.type \in UserRequest => j.session \in Session /\ j.packet \in Packet
  /\ j.type = "SystemDisconnectUser" => j.session \in left

QueueInv ==
  /\ mJobQueue \in Seq(Job)
  /\ \A i \in 1..Len(mJobQueue) : Proper(mJobQueue[i])
LateInv ==
  /\ lateJobs \in SUBSET Job /\ overtaken \in SUBSET (Session \cup {None})
  /\ \A x \in lateJobs : Proper(x)

\* Who still needs a packet, as an operator of the state.
HoldersIn(p, h, q, l, j) ==
  {<<t, "receive">> : t \in {x \in Receiver : h[x] = p}}
  \cup {<<i, "queued">> : i \in {k \in DOMAIN q : q[k].packet = p}}
  \cup {<<y, "late">> : y \in {x \in l : x.packet = p}}
  \cup {<<y, "handled">> : y \in {x \in {j} : x # None /\ x.packet = p}}

\* A packet that somebody needs has a content.
PacketInv ==
  /\ refCount \in [Packet -> Int] /\ DOMAIN content = Packet
  /\ \A p \in Packet : refCount[p] # 0 => content[p] \in Request

CountInv ==
  \A p \in Packet : /\ IsFiniteSet(HoldersIn(p, held, mJobQueue, lateJobs, job))
                    /\ refCount[p] = Cardinality(HoldersIn(p, held, mJobQueue, lateJobs, job))

PacketsInv == ThreadInv /\ JobThreadInv /\ QueueInv /\ LateInv /\ PacketInv /\ CountInv

-----------------------------------------------------------------------------
(* Those who hold a packet. *)

\* Who is in the set.
LEMMA InHolders ==
  ASSUME NEW p, NEW h, NEW q \in Seq(Job), NEW l, NEW j, NEW e
  PROVE  e \in HoldersIn(p, h, q, l, j) <=>
           \/ \E t \in Receiver : h[t] = p /\ e = <<t, "receive">>
           \/ \E k \in 1..Len(q) : q[k].packet = p /\ e = <<k, "queued">>
           \/ \E y \in l : y.packet = p /\ e = <<y, "late">>
           \/ j # None /\ j.packet = p /\ e = <<j, "handled">>
  BY DEF HoldersIn

\* Nobody holds a packet when there is neither a job nor a receive with it.
LEMMA NobodyHolds ==
  ASSUME NEW p, NEW h, \A t \in Receiver : h[t] # p, NEW q \in Seq(Job), Len(q) = 0
  PROVE  HoldersIn(p, h, q, {}, None) = {}
<1>1. DOMAIN q = {}
  OBVIOUS
<1>2. /\ {x \in Receiver : h[x] = p} = {}
      /\ {k \in DOMAIN q : q[k].packet = p} = {}
      /\ {x \in {} : x.packet = p} = {}
      /\ {x \in {None} : x # None /\ x.packet = p} = {}
  BY <1>1
<1>. QED  BY <1>2 DEF HoldersIn

\* A job at the end of the queue.
LEMMA HoldersAppendSet ==
  ASSUME NEW p, NEW h, NEW q \in Seq(Job), NEW l, NEW j, NEW x \in Job
  PROVE  HoldersIn(p, h, Append(q, x), l, j) =
           IF x.packet = p THEN HoldersIn(p, h, q, l, j) \cup {<<Len(q) + 1, "queued">>}
           ELSE HoldersIn(p, h, q, l, j)
<1>0. SUFFICES ASSUME NEW a, a = Append(q, x)
               PROVE  HoldersIn(p, h, a, l, j) =
                        IF x.packet = p THEN HoldersIn(p, h, q, l, j) \cup {<<Len(q) + 1, "queued">>}
                        ELSE HoldersIn(p, h, q, l, j)
  OBVIOUS
<1>1. /\ a \in Seq(Job) /\ Len(a) = Len(q) + 1
      /\ \A i \in 1..Len(q) : a[i] = q[i]
      /\ a[Len(q) + 1] = x
  BY <1>0, AppendProperties
<1>2. \A k : k \in 1..(Len(q) + 1) <=> k \in 1..Len(q) \/ k = Len(q) + 1
  OBVIOUS
<1>3. ASSUME NEW e
      PROVE  e \in HoldersIn(p, h, a, l, j) <=>
               \/ e \in HoldersIn(p, h, q, l, j)
               \/ x.packet = p /\ e = <<Len(q) + 1, "queued">>
  <2>1. (\E k \in 1..Len(a) : a[k].packet = p /\ e = <<k, "queued">>)
          <=> \/ \E k \in 1..Len(q) : q[k].packet = p /\ e = <<k, "queued">>
              \/ x.packet = p /\ e = <<Len(q) + 1, "queued">>
    BY <1>1, <1>2
  <2>2. e \in HoldersIn(p, h, a, l, j) <=>
           \/ \E t \in Receiver : h[t] = p /\ e = <<t, "receive">>
           \/ \E k \in 1..Len(a) : a[k].packet = p /\ e = <<k, "queued">>
           \/ \E y \in l : y.packet = p /\ e = <<y, "late">>
           \/ j # None /\ j.packet = p /\ e = <<j, "handled">>
    BY <1>1, InHolders
  <2>3. e \in HoldersIn(p, h, q, l, j) <=>
           \/ \E t \in Receiver : h[t] = p /\ e = <<t, "receive">>
           \/ \E k \in 1..Len(q) : q[k].packet = p /\ e = <<k, "queued">>
           \/ \E y \in l : y.packet = p /\ e = <<y, "late">>
           \/ j # None /\ j.packet = p /\ e = <<j, "handled">>
    BY InHolders
  <2>. QED  BY <2>1, <2>2, <2>3
<1>. QED  BY <1>3

\* The first job leaves the queue: as many hold the packet as before, without it.
LEMMA HoldersTail ==
  ASSUME NEW p, NEW h, NEW q \in Seq(Job), q # <<>>, NEW l, NEW j,
         IsFiniteSet(HoldersIn(p, h, q, l, j))
  PROVE  /\ IsFiniteSet(HoldersIn(p, h, Tail(q), l, j))
         /\ Cardinality(HoldersIn(p, h, Tail(q), l, j)) =
              IF Head(q).packet = p THEN Cardinality(HoldersIn(p, h, q, l, j)) - 1
              ELSE Cardinality(HoldersIn(p, h, q, l, j))
<1>0. SUFFICES ASSUME NEW r, r = Tail(q)
               PROVE  /\ IsFiniteSet(HoldersIn(p, h, r, l, j))
                      /\ Cardinality(HoldersIn(p, h, r, l, j)) =
                           IF Head(q).packet = p THEN Cardinality(HoldersIn(p, h, q, l, j)) - 1
                           ELSE Cardinality(HoldersIn(p, h, q, l, j))
  OBVIOUS
<1>. DEFINE A == HoldersIn(p, h, q, l, j)
            B == A \ {<<1, "queued">>}
            C == HoldersIn(p, h, r, l, j)
            up(e) == IF e[2] = "queued" THEN <<e[1] - 1, "queued">> ELSE e
            f == [e \in B |-> up(e)]
<1>1. /\ r \in Seq(Job) /\ Len(r) = Len(q) - 1 /\ Head(q) = q[1]
      /\ \A i \in 1..Len(r) : r[i] = q[i + 1]
      /\ Len(q) \in Nat /\ Len(q) >= 1
  BY <1>0, HeadTailProperties, EmptySeq
<1>2. <<1, "queued">> \in A <=> Head(q).packet = p
  <2>1. \A t : /\ <<1, "queued">> # <<t, "receive">> /\ <<1, "queued">> # <<t, "handled">>
              /\ <<1, "queued">> # <<t, "late">>
    OBVIOUS
  <2>. QED  BY <1>1, <2>1, InHolders
<1>3. /\ IsFiniteSet(B)
      /\ Cardinality(B) = IF Head(q).packet = p THEN Cardinality(A) - 1 ELSE Cardinality(A)
  BY <1>2, FS_RemoveElement
<1>4. ASSUME NEW e
      PROVE  e \in B <=> \/ \E t \in Receiver : h[t] = p /\ e = <<t, "receive">>
                         \/ \E k \in 2..Len(q) : q[k].packet = p /\ e = <<k, "queued">>
                         \/ \E y \in l : y.packet = p /\ e = <<y, "late">>
                         \/ j # None /\ j.packet = p /\ e = <<j, "handled">>
  <2>1. \A k : k \in 2..Len(q) <=> k \in 1..Len(q) /\ k # 1
    BY <1>1
  <2>2. \A k : <<k, "queued">> = <<1, "queued">> <=> k = 1
    OBVIOUS
  <2>3. \A t : /\ <<1, "queued">> # <<t, "receive">> /\ <<1, "queued">> # <<t, "handled">>
              /\ <<1, "queued">> # <<t, "late">>
    OBVIOUS
  <2>. QED  BY <2>1, <2>2, <2>3, InHolders
<1>5. ASSUME NEW e
      PROVE  e \in C <=> \/ \E t \in Receiver : h[t] = p /\ e = <<t, "receive">>
                         \/ \E k \in 2..Len(q) : q[k].packet = p /\ e = <<k - 1, "queued">>
                         \/ \E y \in l : y.packet = p /\ e = <<y, "late">>
                         \/ j # None /\ j.packet = p /\ e = <<j, "handled">>
  <2>1. (\E k \in 1..Len(r) : r[k].packet = p /\ e = <<k, "queued">>)
          <=> \E k \in 2..Len(q) : q[k].packet = p /\ e = <<k - 1, "queued">>
    <3>1. ASSUME NEW k \in 1..Len(r), r[k].packet = p, e = <<k, "queued">>
          PROVE  \E m \in 2..Len(q) : q[m].packet = p /\ e = <<m - 1, "queued">>
      <4>1. k + 1 \in 2..Len(q) /\ (k + 1) - 1 = k /\ q[k + 1].packet = p
        BY <1>1, <3>1
      <4>. QED  BY <3>1, <4>1
    <3>2. ASSUME NEW k \in 2..Len(q), q[k].packet = p, e = <<k - 1, "queued">>
          PROVE  \E m \in 1..Len(r) : r[m].packet = p /\ e = <<m, "queued">>
      <4>1. k - 1 \in 1..Len(r) /\ (k - 1) + 1 = k
        BY <1>1
      <4>2. r[k - 1] = q[(k - 1) + 1]
        BY <1>1, <4>1
      <4>. QED  BY <3>2, <4>1, <4>2
    <3>. QED  BY <3>1, <3>2
  <2>2. e \in HoldersIn(p, h, r, l, j) <=>
           \/ \E t \in Receiver : h[t] = p /\ e = <<t, "receive">>
           \/ \E k \in 1..Len(r) : r[k].packet = p /\ e = <<k, "queued">>
           \/ \E y \in l : y.packet = p /\ e = <<y, "late">>
           \/ j # None /\ j.packet = p /\ e = <<j, "handled">>
    <3>1. r \in Seq(Job)
      BY <1>1
    <3>. QED  BY <3>1 DEF HoldersIn
  <2>. QED  BY <2>1, <2>2
<1>6. /\ \A t : up(<<t, "receive">>) = <<t, "receive">>
      /\ \A t : up(<<t, "handled">>) = <<t, "handled">>
      /\ \A t : up(<<t, "late">>) = <<t, "late">>
      /\ \A k : up(<<k, "queued">>) = <<k - 1, "queued">>
  OBVIOUS
<1>. HIDE DEF B, C, up
<1>7. f \in [B -> C]
  <2>1. ASSUME NEW e \in B PROVE up(e) \in C
    <3>1. CASE \E t \in Receiver : h[t] = p /\ e = <<t, "receive">>
      BY <3>1, <1>5, <1>6
    <3>2. CASE \E k \in 2..Len(q) : q[k].packet = p /\ e = <<k, "queued">>
      BY <3>2, <1>5, <1>6
    <3>3. CASE j # None /\ j.packet = p /\ e = <<j, "handled">>
      BY <3>3, <1>5, <1>6
    <3>4. CASE \E y \in l : y.packet = p /\ e = <<y, "late">>
      BY <3>4, <1>5, <1>6
    <3>. QED  BY <3>1, <3>2, <3>3, <3>4, <1>4
  <2>. QED  BY <2>1
<1>8. ASSUME NEW c \in C PROVE \E b \in B : f[b] = c
  <2>1. \E b \in B : up(b) = c
    <3>1. ASSUME NEW t \in Receiver, h[t] = p, c = <<t, "receive">> PROVE c \in B /\ up(c) = c
      BY <3>1, <1>4, <1>6
    <3>2. ASSUME NEW k \in 2..Len(q), q[k].packet = p, c = <<k - 1, "queued">>
          PROVE  <<k, "queued">> \in B /\ up(<<k, "queued">>) = c
      BY <3>2, <1>4, <1>6
    <3>3. CASE j # None /\ j.packet = p /\ c = <<j, "handled">>
      BY <3>3, <1>4, <1>6
    <3>4. CASE \E y \in l : y.packet = p /\ c = <<y, "late">>
      BY <3>4, <1>4, <1>6
    <3>. QED  BY <3>1, <3>2, <3>3, <3>4, <1>5
  <2>. QED  BY <2>1
<1>9. ASSUME NEW a \in B, NEW b \in B, f[a] = f[b] PROVE a = b
  <2>1. up(a) = up(b)
    BY <1>9
  <2>2. \A k \in 2..Len(q), m \in 2..Len(q) :
          <<k - 1, "queued">> = <<m - 1, "queued">> => k = m
    BY <1>1
  <2>3. /\ \A k, t : <<k, "queued">> # <<t, "receive">>
        /\ \A k, t : <<k, "queued">> # <<t, "handled">>
        /\ \A k, t : <<k, "queued">> # <<t, "late">>
        /\ \A k, t : <<k, "receive">> # <<t, "handled">>
    OBVIOUS
  <2>4. CASE \E k \in 2..Len(q) : q[k].packet = p /\ a = <<k, "queued">>
    BY <2>1, <2>2, <2>3, <2>4, <1>4, <1>6
  <2>5. CASE \E k \in 2..Len(q) : q[k].packet = p /\ b = <<k, "queued">>
    BY <2>1, <2>2, <2>3, <2>5, <1>4, <1>6
  <2>6. CASE ~ \E k \in 2..Len(q) : q[k].packet = p /\ (a = <<k, "queued">> \/ b = <<k, "queued">>)
    <3>1. ASSUME NEW e \in B, ~ \E k \in 2..Len(q) : q[k].packet = p /\ e = <<k, "queued">>
          PROVE  up(e) = e
      <4>1. CASE \E t \in Receiver : h[t] = p /\ e = <<t, "receive">>
        BY <4>1, <1>6
      <4>2. CASE \E y \in l : y.packet = p /\ e = <<y, "late">>
        BY <4>2, <1>6
      <4>3. CASE j # None /\ j.packet = p /\ e = <<j, "handled">>
        BY <4>3, <1>6
      <4>. QED  BY <3>1, <4>1, <4>2, <4>3, <1>4
    <3>. QED  BY <2>1, <2>6, <3>1
  <2>. QED  BY <2>4, <2>5, <2>6
<1>10. ExistsBijection(B, C)
  BY <1>7, <1>8, <1>9 DEF ExistsBijection, Bijection, Injection, Surjection, IsInjective
<1>. QED  BY <1>3, <1>10, FS_Bijection DEF C

\* One more of those who hold a packet.
LEMMA OneMore ==
  ASSUME NEW S, IsFiniteSet(S), NEW T, NEW x, x \notin S, T = S \cup {x}
  PROVE  IsFiniteSet(T) /\ Cardinality(T) = Cardinality(S) + 1
  BY FS_AddElement

\* One less of them.
LEMMA OneLess ==
  ASSUME NEW S, IsFiniteSet(S), NEW T, NEW x, x \in S, T = S \ {x}
  PROVE  IsFiniteSet(T) /\ Cardinality(T) = Cardinality(S) - 1
  BY FS_RemoveElement

\* A job at the end of the queue is one more for its packet.
LEMMA HoldersAppend ==
  ASSUME NEW p, NEW h, NEW q \in Seq(Job), NEW l, NEW j, NEW x \in Job,
         IsFiniteSet(HoldersIn(p, h, q, l, j))
  PROVE  /\ IsFiniteSet(HoldersIn(p, h, Append(q, x), l, j))
         /\ Cardinality(HoldersIn(p, h, Append(q, x), l, j)) =
              IF x.packet = p THEN Cardinality(HoldersIn(p, h, q, l, j)) + 1
              ELSE Cardinality(HoldersIn(p, h, q, l, j))
<1>. DEFINE S == HoldersIn(p, h, q, l, j)
            T == HoldersIn(p, h, Append(q, x), l, j)
            e == <<Len(q) + 1, "queued">>
<1>1. e \notin S
  <2>1. \A k : e # <<k, "receive">> /\ e # <<k, "handled">> /\ e # <<k, "late">>
    OBVIOUS
  <2>2. \A k \in 1..Len(q) : e # <<k, "queued">>
    OBVIOUS
  <2>. HIDE DEF e
  <2>. QED  BY <2>1, <2>2 DEF HoldersIn
<1>2. T = IF x.packet = p THEN S \cup {e} ELSE S
  BY HoldersAppendSet
<1>. HIDE DEF S, T, e
<1>3. IsFiniteSet(S)
  BY DEF S
<1>4. /\ IsFiniteSet(T)
      /\ Cardinality(T) = IF x.packet = p THEN Cardinality(S) + 1 ELSE Cardinality(S)
  BY <1>1, <1>2, <1>3, OneMore
<1>. QED  BY <1>4 DEF S, T

\* A network thread takes or gives up a packet: g is h, with or without it, at t.
LEMMA HoldersReceive ==
  ASSUME NEW x, NEW h, NEW g, NEW q, NEW l, NEW j, NEW t \in Receiver, h[t] # x,
         \A u \in Receiver \ {t} : g[u] = h[u]
  PROVE  /\ g[t] # x => HoldersIn(x, g, q, l, j) = HoldersIn(x, h, q, l, j)
         /\ g[t] = x /\ IsFiniteSet(HoldersIn(x, h, q, l, j)) =>
              /\ IsFiniteSet(HoldersIn(x, g, q, l, j))
              /\ Cardinality(HoldersIn(x, g, q, l, j)) = Cardinality(HoldersIn(x, h, q, l, j)) + 1
         /\ g[t] = x /\ IsFiniteSet(HoldersIn(x, g, q, l, j)) =>
              /\ IsFiniteSet(HoldersIn(x, h, q, l, j))
              /\ Cardinality(HoldersIn(x, h, q, l, j)) = Cardinality(HoldersIn(x, g, q, l, j)) - 1
<1>. DEFINE S == HoldersIn(x, h, q, l, j)
            T == HoldersIn(x, g, q, l, j)
            R(f) == {<<u, "receive">> : u \in {v \in Receiver : f[v] = x}}
            e == <<t, "receive">>
<1>1. \A k : e # <<k, "queued">> /\ e # <<k, "handled">> /\ e # <<k, "late">>
  OBVIOUS
<1>2. \A u : e = <<u, "receive">> <=> u = t
  OBVIOUS
<1>3. e \notin S
  BY <1>1, <1>2 DEF HoldersIn
<1>4. g[t] = x => R(g) = R(h) \cup {e}
  OBVIOUS
<1>5. g[t] # x => R(g) = R(h)
  OBVIOUS
<1>6. g[t] = x => T = S \cup {e}
  BY <1>4 DEF HoldersIn
<1>7. g[t] # x => T = S
  BY <1>5 DEF HoldersIn
<1>. HIDE DEF S, T, e
<1>8. g[t] = x => S = T \ {e} /\ e \in T
  BY <1>3, <1>6
<1>9. g[t] = x /\ IsFiniteSet(S) => IsFiniteSet(T) /\ Cardinality(T) = Cardinality(S) + 1
  BY <1>3, <1>6, OneMore
<1>10. g[t] = x /\ IsFiniteSet(T) => IsFiniteSet(S) /\ Cardinality(S) = Cardinality(T) - 1
  BY <1>8, OneLess
<1>. QED  BY <1>7, <1>9, <1>10 DEF S, T

\* The job thread takes the job j, or is done with it.
LEMMA HoldersJob ==
  ASSUME NEW x, NEW h, NEW q, NEW l, NEW j \in Job
  PROVE  /\ j.packet # x => HoldersIn(x, h, q, l, j) = HoldersIn(x, h, q, l, None)
         /\ j.packet = x /\ IsFiniteSet(HoldersIn(x, h, q, l, None)) =>
              /\ IsFiniteSet(HoldersIn(x, h, q, l, j))
              /\ Cardinality(HoldersIn(x, h, q, l, j)) = Cardinality(HoldersIn(x, h, q, l, None)) + 1
         /\ j.packet = x /\ IsFiniteSet(HoldersIn(x, h, q, l, j)) =>
              /\ IsFiniteSet(HoldersIn(x, h, q, l, None))
              /\ Cardinality(HoldersIn(x, h, q, l, None)) = Cardinality(HoldersIn(x, h, q, l, j)) - 1
<1>. DEFINE S == HoldersIn(x, h, q, l, None)
            T == HoldersIn(x, h, q, l, j)
            R(k) == {<<y, "handled">> : y \in {z \in {k} : z # None /\ z.packet = x}}
            e == <<j, "handled">>
<1>1. \A k : e # <<k, "queued">> /\ e # <<k, "receive">> /\ e # <<k, "late">>
  OBVIOUS
<1>2. R(None) = {} /\ j # None
  BY ChatAssumption
<1>3. e \notin S
  BY <1>1, <1>2 DEF HoldersIn
<1>4. /\ j.packet = x => R(j) = {e}
      /\ j.packet # x => R(j) = {}
  BY <1>2
<1>6. j.packet = x => T = S \cup {e}
  BY <1>2, <1>4 DEF HoldersIn
<1>7. j.packet # x => T = S
  BY <1>2, <1>4 DEF HoldersIn
<1>. HIDE DEF S, T, e
<1>8. j.packet = x => S = T \ {e} /\ e \in T
  BY <1>3, <1>6
<1>9. j.packet = x /\ IsFiniteSet(S) => IsFiniteSet(T) /\ Cardinality(T) = Cardinality(S) + 1
  BY <1>3, <1>6, OneMore
<1>10. j.packet = x /\ IsFiniteSet(T) => IsFiniteSet(S) /\ Cardinality(S) = Cardinality(T) - 1
  BY <1>8, OneLess
<1>. QED  BY <1>7, <1>9, <1>10 DEF S, T

\* A job joins those that are late, or leaves them.
LEMMA HoldersLate ==
  ASSUME NEW x, NEW h, NEW q, NEW l, NEW j, NEW y, y \notin l, NEW m, m = l \cup {y}
  PROVE  /\ y.packet # x => HoldersIn(x, h, q, m, j) = HoldersIn(x, h, q, l, j)
         /\ y.packet = x /\ IsFiniteSet(HoldersIn(x, h, q, l, j)) =>
              /\ IsFiniteSet(HoldersIn(x, h, q, m, j))
              /\ Cardinality(HoldersIn(x, h, q, m, j)) = Cardinality(HoldersIn(x, h, q, l, j)) + 1
         /\ y.packet = x /\ IsFiniteSet(HoldersIn(x, h, q, m, j)) =>
              /\ IsFiniteSet(HoldersIn(x, h, q, l, j))
              /\ Cardinality(HoldersIn(x, h, q, l, j)) = Cardinality(HoldersIn(x, h, q, m, j)) - 1
<1>. DEFINE S == HoldersIn(x, h, q, l, j)
            T == HoldersIn(x, h, q, m, j)
            R(k) == {<<z, "late">> : z \in {v \in k : v.packet = x}}
            e == <<y, "late">>
<1>1. \A k : e # <<k, "queued">> /\ e # <<k, "receive">> /\ e # <<k, "handled">>
  OBVIOUS
<1>2. \A z : e = <<z, "late">> <=> z = y
  OBVIOUS
<1>3. e \notin S
  BY <1>1, <1>2 DEF HoldersIn
<1>4. /\ y.packet = x => R(m) = R(l) \cup {e}
      /\ y.packet # x => R(m) = R(l)
  OBVIOUS
<1>6. y.packet = x => T = S \cup {e}
  BY <1>4 DEF HoldersIn
<1>7. y.packet # x => T = S
  BY <1>4 DEF HoldersIn
<1>. HIDE DEF S, T, e
<1>8. y.packet = x => S = T \ {e} /\ e \in T
  BY <1>3, <1>6
<1>9. y.packet = x /\ IsFiniteSet(S) => IsFiniteSet(T) /\ Cardinality(T) = Cardinality(S) + 1
  BY <1>3, <1>6, OneMore
<1>10. y.packet = x /\ IsFiniteSet(T) => IsFiniteSet(S) /\ Cardinality(S) = Cardinality(T) - 1
  BY <1>8, OneLess
<1>. QED  BY <1>7, <1>9, <1>10 DEF S, T

\* A packet that somebody holds is counted, and can be read.
LEMMA HeldIsCounted ==
  ASSUME PacketsInv, NEW p \in Packet, HoldersIn(p, held, mJobQueue, lateJobs, job) # {}
  PROVE  refCount[p] \in Nat /\ refCount[p] >= 1 /\ content[p] \in Request
<1>1. refCount[p] \in Nat /\ refCount[p] # 0
  BY FS_EmptySet, FS_CardinalityType DEF PacketsInv, CountInv
<1>. QED  BY <1>1 DEF PacketsInv, PacketInv

\* What TryFreeRecv does to counts and contents.
LEMMA TryFreeRecvStep ==
  ASSUME PacketsInv, NEW p \in Packet, HoldersIn(p, held, mJobQueue, lateJobs, job) # {}, TryFreeRecv(p)
  PROVE  /\ PacketInv'
         /\ refCount'[p] = refCount[p] - 1
         /\ \A x \in Packet \ {p} : refCount'[x] = refCount[x]
  BY HeldIsCounted DEF TryFreeRecv, PacketsInv, PacketInv

-----------------------------------------------------------------------------
(* The threads and the packets, step by step. *)

\* In the beginning.
LEMMA InitPackets == Init => PacketsInv
<1>. SUFFICES ASSUME Init PROVE PacketsInv
  OBVIOUS
<1>. USE DEF Init
<1>1. ThreadInv
  BY DEF ThreadInv, Label
<1>2. JobThreadInv
  BY DEF JobThreadInv
<1>3. mJobQueue \in Seq(Job) /\ Len(mJobQueue) = 0
  BY EmptySeq
<1>4. QueueInv
  BY <1>3 DEF QueueInv
<1>9. LateInv
  BY DEF LateInv
<1>5. PacketInv
  BY DEF PacketInv
<1>6. ASSUME NEW p \in Packet PROVE HoldersIn(p, held, mJobQueue, lateJobs, job) = {}
  <2>1. /\ \A t \in Receiver : held[t] # p
        /\ job = None /\ lateJobs = {}
    BY ChatAssumption
  <2>. HIDE DEF Init
  <2>. QED  BY <1>3, <2>1, NobodyHolds
<1>7. CountInv
  BY <1>6, FS_EmptySet DEF CountInv
<1>. QED  BY <1>1, <1>2, <1>4, <1>5, <1>7, <1>9 DEF PacketsInv

\* An action that leaves the queue, the packets and the jobs alone.
LEMMA PacketsKept ==
  ASSUME PacketsInv, ThreadInv', JobThreadInv', left \subseteq left',
         UNCHANGED <<refCount, content, held, mJobQueue, lateJobs, overtaken, job>>
  PROVE  PacketsInv'
<1>1. QueueInv' /\ LateInv'
  BY DEF PacketsInv, QueueInv, LateInv, Proper
<1>2. PacketInv' /\ CountInv'
  BY DEF PacketsInv, PacketInv, CountInv
<1>. QED  BY <1>1, <1>2 DEF PacketsInv

\* Enqueue, with the job named.
Enqueued(x) ==
  \/ mJobQueue' = Append(mJobQueue, x) /\ lateJobs' = lateJobs /\ overtaken' = overtaken
  \/ /\ x \notin lateJobs /\ lateJobs' = lateJobs \cup {x} /\ mJobQueue' = mJobQueue
     /\ overtaken' = IF x.type \in UserRequest THEN overtaken \cup {x.session} ELSE overtaken

LEMMA EnqueueIs ==
  ASSUME NEW ty, NEW s, NEW p, Enqueue(ty, s, p)
  PROVE  \E x : x = [type |-> ty, session |-> s, packet |-> p] /\ Enqueued(x)
  BY DEF Enqueue, Enqueued

\* A job is added to a sequence of jobs.
LEMMA AppendStep ==
  ASSUME QueueInv, NEW x \in Job, mJobQueue' = Append(mJobQueue, x),
         \A y \in Job : Proper(y) => Proper(y)', Proper(x)'
  PROVE  QueueInv'
<1>1. /\ mJobQueue' \in Seq(Job) /\ Len(mJobQueue') = Len(mJobQueue) + 1
      /\ \A i \in 1..Len(mJobQueue) : mJobQueue'[i] = mJobQueue[i] /\ mJobQueue[i] \in Job
      /\ mJobQueue'[Len(mJobQueue) + 1] = x
  BY AppendProperties DEF QueueInv
<1>2. \A i : i \in 1..Len(mJobQueue') <=> i \in 1..Len(mJobQueue) \/ i = Len(mJobQueue) + 1
  BY <1>1 DEF QueueInv
<1>3. \A i \in 1..Len(mJobQueue') : Proper(mJobQueue[i])'
  BY <1>1, <1>2 DEF QueueInv, Proper
<1>. QED  BY <1>1, <1>3 DEF QueueInv

\* A job of this or that type is added.
LEMMA EnqueueStep ==
  ASSUME QueueInv, LateInv, left \subseteq left', left' \in SUBSET Session, NEW x \in Job,
         Proper(x)', Enqueued(x)
  PROVE  QueueInv' /\ LateInv'
<1>1. \A y \in Job : Proper(y) => Proper(y)'
  BY DEF Proper
<1>2. CASE mJobQueue' = Append(mJobQueue, x) /\ lateJobs' = lateJobs /\ overtaken' = overtaken
  <2>1. LateInv'
    BY <1>1, <1>2 DEF LateInv
  <2>. QED  BY <1>1, <1>2, <2>1, AppendStep
<1>3. CASE /\ lateJobs' = lateJobs \cup {x} /\ mJobQueue' = mJobQueue
           /\ overtaken' = IF x.type \in UserRequest THEN overtaken \cup {x.session} ELSE overtaken
  <2>1. QueueInv'
    <3>1. \A i \in 1..Len(mJobQueue) : mJobQueue[i] \in Job
      BY DEF QueueInv
    <3>. QED  BY <1>1, <1>3, <3>1 DEF QueueInv, Proper
  <2>2. LateInv'
    BY <1>1, <1>3 DEF LateInv, Job
  <2>. QED  BY <2>1, <2>2
<1>. QED  BY <1>2, <1>3 DEF Enqueued

\* It is one more for its packet, late or not.
LEMMA HoldersEnqueue ==
  ASSUME PacketsInv, NEW x \in Job, Enqueued(x), NEW p \in Packet
  PROVE  /\ IsFiniteSet(HoldersIn(p, held, mJobQueue', lateJobs', job))
         /\ Cardinality(HoldersIn(p, held, mJobQueue', lateJobs', job)) =
              IF x.packet = p THEN refCount[p] + 1 ELSE refCount[p]
<1>1. /\ IsFiniteSet(HoldersIn(p, held, mJobQueue, lateJobs, job))
      /\ refCount[p] = Cardinality(HoldersIn(p, held, mJobQueue, lateJobs, job))
      /\ mJobQueue \in Seq(Job)
  BY DEF PacketsInv, CountInv, QueueInv
<1>2. CASE mJobQueue' = Append(mJobQueue, x) /\ lateJobs' = lateJobs
  BY <1>1, <1>2, HoldersAppend
<1>3. CASE x \notin lateJobs /\ lateJobs' = lateJobs \cup {x} /\ mJobQueue' = mJobQueue
  BY <1>1, <1>3, HoldersLate
<1>. QED  BY <1>2, <1>3 DEF Enqueued

\* The first job is taken.
LEMMA DequeueStep ==
  ASSUME QueueInv, left' = left, mJobQueue # <<>>, mJobQueue' = Tail(mJobQueue)
  PROVE  QueueInv' /\ Head(mJobQueue) \in Job /\ Proper(Head(mJobQueue))
<1>1. /\ mJobQueue' \in Seq(Job) /\ Len(mJobQueue') = Len(mJobQueue) - 1
      /\ \A i \in 1..Len(mJobQueue') : mJobQueue'[i] = mJobQueue[i + 1]
      /\ Len(mJobQueue) \in Nat /\ Len(mJobQueue) >= 1
  BY HeadTailProperties, EmptySeq DEF QueueInv
<1>2. Head(mJobQueue) = mJobQueue[1] /\ Head(mJobQueue) \in Job
  BY HeadTailProperties DEF QueueInv
<1>3. \A i \in 1..Len(mJobQueue') : i + 1 \in 1..Len(mJobQueue)
  BY <1>1
<1>4. \A i \in 1..Len(mJobQueue') : Proper(mJobQueue[i])'
  BY <1>1, <1>3 DEF QueueInv, Proper
<1>. QED  BY <1>1, <1>2, <1>4 DEF QueueInv

\* A late job can be reached: as many hold its packet as before.
LEMMA LinkLateStep ==
  ASSUME PacketsInv, NEW x \in lateJobs, LinkLate(x)
  PROVE  PacketsInv'
<1>. USE DEF PacketsInv
<1>. DEFINE M(z) == HoldersIn(z, held, mJobQueue, lateJobs \ {x}, job)
            N(z) == HoldersIn(z, held, Append(mJobQueue, x), lateJobs \ {x}, job)
<1>1. /\ x \in Job /\ Proper(x)
      /\ mJobQueue' = Append(mJobQueue, x) /\ lateJobs' = lateJobs \ {x}
      /\ left' = left /\ held' = held /\ job' = job /\ overtaken' = overtaken
      /\ refCount' = refCount /\ content' = content
  BY DEF LinkLate, LateInv, eventVars, threadVars, jobVars, packetVars
<1>2. ThreadInv' /\ JobThreadInv'
  BY DEF LinkLate, eventVars, threadVars, jobVars, mainVars, ThreadInv, JobThreadInv
<1>3. QueueInv'
  BY <1>1, AppendStep DEF Proper
<1>4. LateInv'
  BY <1>1 DEF LateInv, Proper
<1>5. ASSUME NEW p \in Packet
      PROVE  IsFiniteSet(N(p)) /\ refCount[p] = Cardinality(N(p))
  <2>1. /\ IsFiniteSet(HoldersIn(p, held, mJobQueue, lateJobs, job))
        /\ refCount[p] = Cardinality(HoldersIn(p, held, mJobQueue, lateJobs, job))
        /\ refCount[p] \in Int
    BY DEF CountInv, PacketInv
  <2>2. x \notin lateJobs \ {x} /\ lateJobs = (lateJobs \ {x}) \cup {x}
    OBVIOUS
  <2>3. /\ IsFiniteSet(M(p))
        /\ Cardinality(M(p)) = IF x.packet = p THEN refCount[p] - 1 ELSE refCount[p]
    BY <2>1, <2>2, HoldersLate
  <2>4. /\ IsFiniteSet(N(p))
        /\ Cardinality(N(p)) = IF x.packet = p THEN Cardinality(M(p)) + 1 ELSE Cardinality(M(p))
    BY <1>1, <2>3, HoldersAppend DEF QueueInv
  <2>. HIDE DEF M, N
  <2>. QED  BY <2>1, <2>3, <2>4
<1>6. PacketInv' /\ CountInv'
  BY <1>1, <1>5 DEF PacketInv, CountInv
<1>. QED  BY <1>2, <1>3, <1>4, <1>6

\* NetworkRecvCompleted takes a packet nobody has.
LEMMA ReceiveStep ==
  ASSUME PacketsInv, NEW t \in Receiver, NEW s \in Session, NEW p \in Packet,
         NEW r \in Request, Receive(t, s, p, r)
  PROVE  PacketsInv'
<1>. USE DEF PacketsInv
<1>. DEFINE H(z) == HoldersIn(z, held, mJobQueue, lateJobs, job)
            N(z) == HoldersIn(z, held', mJobQueue', lateJobs', job')
<1>1. ThreadInv' /\ held[t] = None
  BY ChatAssumption DEF Receive, Net!BeginAnyReceive, Goto, ThreadInv, Label
<1>2. JobThreadInv' /\ QueueInv' /\ LateInv'
  BY DEF Receive, Net!BeginAnyReceive, jobVars, queueVars, jobsVars, mainVars, JobThreadInv, QueueInv,
         LateInv, Proper
<1>3. PacketInv'
  BY DEF Receive, PacketInv
<1>4. mJobQueue' = mJobQueue /\ lateJobs' = lateJobs /\ job' = job
  BY DEF Receive, queueVars, jobsVars, jobVars
<1>5. ASSUME NEW x \in Packet
      PROVE  IsFiniteSet(N(x)) /\ refCount'[x] = Cardinality(N(x))
  <2>1. /\ \A u \in Receiver \ {t} : held'[u] = held[u]
        /\ held'[t] = p /\ held[t] # x
    BY <1>1, ChatAssumption DEF ThreadInv, Receive
  <2>2. refCount'[x] = IF x = p THEN refCount[x] + 1 ELSE refCount[x]
    BY DEF Receive, PacketInv
  <2>3. IsFiniteSet(H(x)) /\ refCount[x] = Cardinality(H(x))
    BY DEF CountInv
  <2>. QED  BY <2>1, <2>2, <2>3, <1>4, HoldersReceive
<1>6. CountInv'
  BY <1>5 DEF CountInv
<1>. QED  BY <1>1, <1>2, <1>3, <1>6

\* OnReceived: the job's reference is counted before the job can be seen.
LEMMA OnReceivedStep ==
  ASSUME PacketsInv, NEW t \in Receiver, OnReceived(t)
  PROVE  PacketsInv'
<1>. USE DEF PacketsInv
<1>. DEFINE H(z) == HoldersIn(z, held, mJobQueue, lateJobs, job)
            N(z) == HoldersIn(z, held', mJobQueue', lateJobs', job')
<1>0. PICK p : p = held[t]
  OBVIOUS
<1>1. p \in Packet /\ receiving[t] \in Session
  BY <1>0 DEF OnReceived, ThreadInv
<1>2. JobThreadInv'
  BY DEF OnReceived, jobVars, mainVars, JobThreadInv
<1>3. ThreadInv'
  BY DEF OnReceived, eventVars, Goto, ThreadInv, Label
<1>4. CASE UNCHANGED <<refCount, jobsVars>>
  BY <1>4, <1>2, <1>3, PacketsKept DEF OnReceived, eventVars, jobsVars, jobVars
<1>5. CASE /\ content[p].type \in UserRequest
           /\ refCount' = [refCount EXCEPT ![p] = @ + 1]
           /\ Enqueue(content[p].type, receiving[t], p)
  <2>. PICK x : /\ x = [type |-> content[p].type, session |-> receiving[t], packet |-> p]
               /\ Enqueued(x)
    BY <1>5, EnqueueIs
  <2>1. x \in Job /\ x.packet = p /\ x.type \in UserRequest /\ x.session \in Session
    BY <1>1, <1>5 DEF Job
  <2>2. held' = held /\ job' = job /\ left' = left
    BY DEF OnReceived, eventVars, jobVars
  <2>3. QueueInv' /\ LateInv'
    <3>1. Proper(x)'
      BY <1>1, <2>1 DEF Proper, UserRequest
    <3>. QED  BY <2>1, <2>2, <3>1, EnqueueStep DEF ThreadInv
  <2>4. <<t, "receive">> \in H(p)
    BY <1>0, InHolders DEF QueueInv
  <2>5. PacketInv'
    BY <1>1, <1>5, <2>4, HeldIsCounted DEF PacketInv, OnReceived
  <2>6. ASSUME NEW y \in Packet
        PROVE  IsFiniteSet(N(y)) /\ refCount'[y] = Cardinality(N(y))
    <3>1. refCount'[y] = IF y = p THEN refCount[y] + 1 ELSE refCount[y]
      BY <1>1, <1>5 DEF PacketInv
    <3>. QED  BY <2>1, <2>2, <3>1, HoldersEnqueue
  <2>7. CountInv'
    BY <2>6 DEF CountInv
  <2>. QED  BY <1>2, <1>3, <2>3, <2>5, <2>7
<1>. QED  BY <1>0, <1>4, <1>5 DEF OnReceived

\* A job without a packet is added: OnDisconnected, on a network thread or on
\* the job thread, and the heartbeat.
LEMMA SystemJobStep ==
  ASSUME PacketsInv, ThreadInv', JobThreadInv', NEW ty, NEW s,
         \/ ty = "SystemHeartBeat" /\ s = None
         \/ ty = "SystemDisconnectUser" /\ s \in left',
         left \subseteq left', Enqueue(ty, s, None),
         UNCHANGED <<refCount, content, held, job>>
  PROVE  PacketsInv'
<1>. USE DEF PacketsInv
<1>. DEFINE H(z) == HoldersIn(z, held, mJobQueue, lateJobs, job)
            N(z) == HoldersIn(z, held', mJobQueue', lateJobs', job')
<1>0. PICK x : x = [type |-> ty, session |-> s, packet |-> None] /\ Enqueued(x)
  BY EnqueueIs
<1>1. x \in Job /\ Proper(x)' /\ x.packet = None
  BY <1>0 DEF Job, Proper, UserRequest, ThreadInv
<1>3. QueueInv' /\ LateInv'
  BY <1>0, <1>1, EnqueueStep DEF ThreadInv
<1>4. ASSUME NEW p \in Packet
      PROVE  IsFiniteSet(N(p)) /\ refCount'[p] = Cardinality(N(p))
  <2>1. held' = held /\ job' = job /\ refCount' = refCount /\ x.packet # p
    BY <1>1, ChatAssumption
  <2>. QED  BY <1>0, <1>1, <2>1, HoldersEnqueue
<1>. QED  BY <1>3, <1>4 DEF PacketInv, CountInv

\* NetworkRecvCompleted gives its reference up.
LEMMA ReceiveDoneStep ==
  ASSUME PacketsInv, NEW t \in Receiver, ReceiveDone(t)
  PROVE  PacketsInv'
<1>. USE DEF PacketsInv
<1>. DEFINE H(z) == HoldersIn(z, held, mJobQueue, lateJobs, job)
            N(z) == HoldersIn(z, held', mJobQueue', lateJobs', job')
<1>0. PICK p : p = held[t]
  OBVIOUS
<1>1. p \in Packet
  BY <1>0 DEF ReceiveDone, ThreadInv
<1>2. ThreadInv'
  BY ChatAssumption DEF ReceiveDone, Net!EndReceive, Goto, ThreadInv, Label
<1>3. JobThreadInv' /\ QueueInv' /\ LateInv'
  BY DEF ReceiveDone, Net!EndReceive, jobVars, queueVars, jobsVars, mainVars, JobThreadInv, QueueInv,
         LateInv, Proper
<1>4. mJobQueue' = mJobQueue /\ lateJobs' = lateJobs /\ job' = job
  BY DEF ReceiveDone, queueVars, jobsVars, jobVars
<1>6. <<t, "receive">> \in H(p)
  BY <1>0, InHolders DEF QueueInv
<1>7. /\ PacketInv' /\ refCount'[p] = refCount[p] - 1
      /\ \A x \in Packet \ {p} : refCount'[x] = refCount[x]
  BY <1>0, <1>1, <1>6, TryFreeRecvStep DEF ReceiveDone
<1>8. ASSUME NEW x \in Packet
      PROVE  IsFiniteSet(N(x)) /\ refCount'[x] = Cardinality(N(x))
  <2>1. /\ \A u \in Receiver \ {t} : held[u] = held'[u]
        /\ held[t] = p /\ held'[t] # x
    BY <1>0, <1>1, ChatAssumption DEF ThreadInv, ReceiveDone
  <2>2. IsFiniteSet(H(x)) /\ refCount[x] = Cardinality(H(x))
    BY DEF CountInv
  <2>. QED  BY <2>1, <2>2, <1>4, <1>7, HoldersReceive
<1>9. CountInv'
  BY <1>8 DEF CountInv
<1>. QED  BY <1>2, <1>3, <1>7, <1>9

\* The job thread takes the first job: its reference goes along.
LEMMA JobProcessStep ==
  ASSUME PacketsInv, JobProcess
  PROVE  PacketsInv'
<1>. USE DEF PacketsInv
<1>. DEFINE H(z) == HoldersIn(z, held, mJobQueue, lateJobs, job)
            N(z) == HoldersIn(z, held', mJobQueue', lateJobs', job')
<1>1. /\ left' = left /\ mJobQueue # <<>> /\ mJobQueue' = Tail(mJobQueue)
      /\ held' = held /\ job = None /\ job' = Head(mJobQueue)
      /\ lateJobs' = lateJobs /\ overtaken' = overtaken
      /\ jobPc' \in {"handled", "aborted"} /\ mainPc' = mainPc
      /\ refCount' = refCount /\ content' = content
  BY DEF JobProcess, eventVars, threadVars, packetVars, mainVars, JobThreadInv
<1>2. QueueInv' /\ LateInv' /\ job' \in Job
  BY <1>1, DequeueStep DEF LateInv, Proper
<1>3. ThreadInv'
  BY DEF JobProcess, eventVars, threadVars, ThreadInv
<1>4. JobThreadInv'
  BY <1>1, <1>2, ChatAssumption DEF JobThreadInv, JobProcess
<1>5. ASSUME NEW p \in Packet
      PROVE  IsFiniteSet(N(p)) /\ refCount'[p] = Cardinality(N(p))
  <2>. DEFINE M == HoldersIn(p, held, mJobQueue', lateJobs, None)
  <2>1. IsFiniteSet(H(p)) /\ refCount[p] = Cardinality(H(p)) /\ Cardinality(H(p)) \in Nat
    BY FS_CardinalityType DEF CountInv
  <2>2. /\ IsFiniteSet(M)
        /\ Cardinality(M) = IF job'.packet = p THEN Cardinality(H(p)) - 1 ELSE Cardinality(H(p))
    BY <1>1, <2>1, HoldersTail DEF QueueInv
  <2>3. /\ IsFiniteSet(N(p))
        /\ Cardinality(N(p)) = IF job'.packet = p THEN Cardinality(M) + 1 ELSE Cardinality(M)
    <3>1. held' = held /\ lateJobs' = lateJobs
      BY <1>1
    <3>. QED  BY <1>2, <2>2, <3>1, HoldersJob
  <2>. QED  BY <1>1, <2>1, <2>2, <2>3
<1>6. PacketInv' /\ CountInv'
  BY <1>1, <1>5 DEF PacketInv, CountInv
<1>. QED  BY <1>2, <1>3, <1>4, <1>6

\* The job thread is done with its job.
LEMMA JobDoneStep ==
  ASSUME PacketsInv, JobDone
  PROVE  PacketsInv'
<1>. USE DEF PacketsInv
<1>. DEFINE H(z) == HoldersIn(z, held, mJobQueue, lateJobs, job)
            N(z) == HoldersIn(z, held', mJobQueue', lateJobs', job')
<1>1. /\ left' = left /\ held' = held /\ mJobQueue' = mJobQueue /\ job' = None
      /\ lateJobs' = lateJobs /\ job \in Job
  BY DEF JobDone, eventVars, threadVars, queueVars, jobsVars, JobThreadInv
<1>2. ThreadInv' /\ QueueInv' /\ LateInv'
  BY DEF JobDone, eventVars, threadVars, queueVars, jobsVars, ThreadInv, QueueInv, LateInv, Proper
<1>3. JobThreadInv'
  BY DEF JobDone, mainVars, JobThreadInv
<1>4. PICK p : p = job.packet
  OBVIOUS
<1>5. \A x \in Packet : IsFiniteSet(H(x)) /\ refCount[x] = Cardinality(H(x))
  BY DEF CountInv
<1>6. CASE p = None
  <2>1. refCount' = refCount /\ content' = content
    BY <1>4, <1>6 DEF JobDone, FreePacket, packetVars
  <2>2. ASSUME NEW x \in Packet
        PROVE  IsFiniteSet(N(x)) /\ refCount'[x] = Cardinality(N(x))
    <3>1. job.packet # x
      BY <1>4, <1>6, ChatAssumption
    <3>. QED  BY <1>1, <1>5, <2>1, <3>1, HoldersJob
  <2>. QED  BY <1>2, <1>3, <2>1, <2>2 DEF PacketInv, CountInv
<1>7. CASE p \in Packet
  <2>1. TryFreeRecv(p)
    BY <1>4, <1>7, ChatAssumption DEF JobDone, FreePacket
  <2>2. H(p) # {}
    <3>1. job # None /\ job.packet = p
      BY <1>1, <1>4, ChatAssumption
    <3>2. <<job, "handled">> \in H(p)
      BY <3>1, InHolders DEF QueueInv
    <3>. QED  BY <3>2
  <2>3. /\ PacketInv' /\ refCount'[p] = refCount[p] - 1
        /\ \A x \in Packet \ {p} : refCount'[x] = refCount[x]
    BY <1>7, <2>1, <2>2, TryFreeRecvStep
  <2>4. ASSUME NEW x \in Packet
        PROVE  IsFiniteSet(N(x)) /\ refCount'[x] = Cardinality(N(x))
    BY <1>1, <1>4, <1>5, <2>3, HoldersJob
  <2>5. CountInv'
    BY <2>4 DEF CountInv
  <2>. QED  BY <1>2, <1>3, <2>3, <2>5
<1>. QED  BY <1>1, <1>4, <1>6, <1>7 DEF Job

\* The main thread drops the first job.
LEMMA QuitDrainStep ==
  ASSUME PacketsInv, QuitDrain
  PROVE  PacketsInv'
<1>. USE DEF PacketsInv
<1>. DEFINE H(z) == HoldersIn(z, held, mJobQueue, lateJobs, job)
            N(z) == HoldersIn(z, held', mJobQueue', lateJobs', job')
<1>1. /\ left' = left /\ held' = held /\ job' = job
      /\ lateJobs' = lateJobs /\ overtaken' = overtaken
      /\ mJobQueue # <<>> /\ mJobQueue' = Tail(mJobQueue)
  BY DEF QuitDrain, eventVars, threadVars
<1>2. QueueInv' /\ LateInv' /\ Head(mJobQueue) \in Job
  BY <1>1, DequeueStep DEF LateInv, Proper
<1>3. ThreadInv' /\ JobThreadInv'
  BY DEF QuitDrain, eventVars, threadVars, mainVars, ThreadInv, JobThreadInv
<1>4. PICK p : p = Head(mJobQueue).packet
  OBVIOUS
<1>5. \A x \in Packet : IsFiniteSet(H(x)) /\ refCount[x] = Cardinality(H(x))
  BY DEF CountInv
<1>6. ASSUME NEW x \in Packet
      PROVE  /\ IsFiniteSet(N(x))
             /\ Cardinality(N(x)) = IF x = p THEN Cardinality(H(x)) - 1 ELSE Cardinality(H(x))
  BY <1>1, <1>4, <1>5, HoldersTail DEF QueueInv
<1>7. CASE p = None
  <2>1. refCount' = refCount /\ content' = content
    BY <1>4, <1>7 DEF QuitDrain, FreePacket, packetVars
  <2>2. p \notin Packet
    BY <1>7, ChatAssumption
  <2>. QED  BY <1>2, <1>3, <1>5, <1>6, <2>1, <2>2 DEF PacketInv, CountInv
<1>8. CASE p \in Packet
  <2>1. TryFreeRecv(p)
    BY <1>4, <1>8, ChatAssumption DEF QuitDrain, FreePacket
  <2>2. H(p) # {}
    <3>1. 1 \in 1..Len(mJobQueue) /\ mJobQueue[1].packet = p
      BY <1>1, <1>4, EmptySeq, HeadTailProperties DEF QueueInv
    <3>2. <<1, "queued">> \in H(p)
      BY <3>1, InHolders DEF QueueInv
    <3>. QED  BY <3>2
  <2>3. /\ PacketInv' /\ refCount'[p] = refCount[p] - 1
        /\ \A x \in Packet \ {p} : refCount'[x] = refCount[x]
    BY <1>8, <2>1, <2>2, TryFreeRecvStep
  <2>4. CountInv'
    BY <1>5, <1>6, <2>3 DEF CountInv
  <2>. QED  BY <1>2, <1>3, <2>3, <2>4
<1>. QED  BY <1>2, <1>4, <1>7, <1>8 DEF Job

\* Every step keeps the invariant.
LEMMA NextPackets == PacketsInv /\ [Next]_vars => PacketsInv'
<1>. SUFFICES ASSUME PacketsInv, [Next]_vars PROVE PacketsInv'
  OBVIOUS
<1>2. ASSUME NEW t \in Receiver, SetJobEvent(t) PROVE PacketsInv'
  <2>1. ThreadInv' /\ JobThreadInv'
    BY <1>2 DEF SetJobEvent, Goto, eventVars, jobVars, mainVars, PacketsInv, ThreadInv, JobThreadInv, Label
  <2>. QED  BY <1>2, <2>1, PacketsKept DEF SetJobEvent, eventVars, jobsVars, jobVars, packetVars
<1>3. ASSUME NEW t \in Receiver, NEW s \in Session, OnDisconnected(t, s) PROVE PacketsInv'
  <2>1. ThreadInv' /\ JobThreadInv' /\ left \subseteq left' /\ s \in left'
    BY <1>3 DEF OnDisconnected, Net!LeaveAtAnyTime, Goto, jobVars, mainVars, PacketsInv, ThreadInv, JobThreadInv, Label
  <2>. QED  BY <1>3, <2>1, SystemJobStep DEF OnDisconnected, jobVars, packetVars
<1>4. ASSUME NEW s \in Session, JobReleases(s) PROVE PacketsInv'
  <2>1. ThreadInv' /\ JobThreadInv' /\ left \subseteq left' /\ s \in left'
    BY <1>4 DEF JobReleases, Net!LeaveAtAnyTime, threadVars, jobVars, mainVars, PacketsInv, ThreadInv, JobThreadInv
  <2>. QED  BY <1>4, <2>1, SystemJobStep DEF JobReleases, threadVars, jobVars, packetVars
<1>5. CASE BeatTick
  <2>1. ThreadInv' /\ JobThreadInv' /\ left' = left
    BY <1>5 DEF BeatTick, eventVars, threadVars, jobVars, mainVars, PacketsInv, ThreadInv, JobThreadInv
  <2>. QED  BY <1>5, <2>1, SystemJobStep DEF BeatTick, threadVars, jobVars, packetVars
<1>6. CASE JobWait \/ JobWoken \/ JobLoopEnds
  <2>1. ThreadInv' /\ JobThreadInv' /\ left' = left
    BY <1>6 DEF JobWait, JobWoken, JobLoopEnds, eventVars, threadVars, mainVars, PacketsInv,
                ThreadInv, JobThreadInv
  <2>. QED  BY <1>6, <2>1, PacketsKept
            DEF JobWait, JobWoken, JobLoopEnds, threadVars, queueVars, jobsVars, packetVars
<1>7. CASE BeatSet \/ BeatQuit \/ UNCHANGED vars
  <2>1. ThreadInv' /\ JobThreadInv' /\ left' = left
    BY <1>7 DEF BeatSet, BeatQuit, vars, eventVars, threadVars, jobVars, mainVars, PacketsInv,
                ThreadInv, JobThreadInv
  <2>. QED  BY <1>7, <2>1, PacketsKept
            DEF BeatSet, BeatQuit, vars, threadVars, jobVars, queueVars, jobsVars, packetVars
<1>8. CASE StopNetwork \/ QuitFlag \/ QuitSetQuitEvent \/ QuitSetJobEvent \/ QuitJoin \/ QuitEnds
  <2>1. ThreadInv' /\ JobThreadInv' /\ left' = left
    BY <1>8 DEF StopNetwork, QuitFlag, QuitSetQuitEvent, QuitSetJobEvent, QuitJoin, QuitEnds,
                MainGoto, eventVars, threadVars, jobVars, PacketsInv, ThreadInv, JobThreadInv
  <2>. QED  BY <1>8, <2>1, PacketsKept
            DEF StopNetwork, QuitFlag, QuitSetQuitEvent, QuitSetJobEvent, QuitJoin, QuitEnds,
                threadVars, jobVars, queueVars, jobsVars, packetVars
<1>. QED  BY <1>2, <1>3, <1>4, <1>5, <1>6, <1>7, <1>8, LinkLateStep, ReceiveStep, OnReceivedStep,
             ReceiveDoneStep, JobProcessStep, JobDoneStep, QuitDrainStep
          DEF Next, Network, ThreadProcessJob, ThreadHeartbeat, OnQuit

\* The threads, the queue and the packets are always in order.
LEMMA AlwaysPackets == Spec => []PacketsInv
  BY InitPackets, NextPackets, PTL DEF Spec

\* A packet's mRefCount is the number of those who still need it, the receiving
\* thread, the queued job and the job being handled, in every state and for any
\* number of threads and packets: it is freed with the last of them.
THEOREM PacketsAreAlwaysShared == Spec => []PacketsAreShared
<1>1. PacketsInv => PacketsAreShared
  BY DEF PacketsInv, CountInv, PacketsAreShared, Holders, HoldersIn
<1>. QED  BY <1>1, AlwaysPackets, PTL


-----------------------------------------------------------------------------
(* The users and the sectors. *)

\* The places TryMove lets a user stand at: those the array has an entry for.
Place == {p \in Nat \X Nat : IndexOf(p) \in SectorIndex}

UserType ==
  /\ mUserPool \in SUBSET User /\ mSector \in [SectorIndex -> SUBSET User]
  /\ user \in [User -> [session : Session \cup {None}, account : Account \cup {None},
                        pos : Place \cup {Nowhere}]]

\* A table and the field of the user that is its key point at each other, and a
\* user stands in the list of its place.
SessionInv ==
  /\ \A s \in DOMAIN mSessionUserMap :
       /\ mSessionUserMap[s] \in User \ mUserPool
       /\ user[mSessionUserMap[s]].session = s
  /\ \A u \in User \ mUserPool : /\ user[u].session \in DOMAIN mSessionUserMap
                                 /\ mSessionUserMap[user[u].session] = u
AccountInv ==
  /\ \A a \in DOMAIN mAccountUserMap :
       /\ mAccountUserMap[a] \in User \ mUserPool
       /\ user[mAccountUserMap[a]].account = a
  /\ \A u \in User \ mUserPool : /\ user[u].account \in DOMAIN mAccountUserMap
                                 /\ mAccountUserMap[user[u].account] = u
SectorInv ==
  \A u \in User, i \in SectorIndex :
    u \in mSector[i] <=> /\ u \notin mUserPool /\ user[u].pos # Nowhere
                         /\ IndexOf(user[u].pos) = i

UserInv == UserType /\ SessionInv /\ AccountInv /\ SectorInv

\* The position of a user that is in no sector is none of the map, and no place.
LEMMA NowhereIsNoPlace == Nowhere \notin Sector /\ Nowhere \notin Place
  BY ChatAssumption DEF Nowhere, Sector, Place

\* The pointwise invariant is the property.
LEMMA UserInvMeans == UserInv => UsersAreConsistent
<1>. SUFFICES ASSUME UserInv PROVE UsersAreConsistent
  OBVIOUS
<1>. USE DEF UserInv, UserType
<1>1. ASSUME NEW u \in User \ mUserPool
      PROVE  {s \in DOMAIN mSessionUserMap : mSessionUserMap[s] = u} = {user[u].session}
  BY DEF SessionInv
<1>2. ASSUME NEW u \in User \ mUserPool
      PROVE  {a \in DOMAIN mAccountUserMap : mAccountUserMap[a] = u} = {user[u].account}
  BY DEF AccountInv
<1>3. ASSUME NEW u \in User \ mUserPool
      PROVE  {i \in SectorIndex : u \in mSector[i]} =
               {IndexOf(pos) : pos \in {user[u].pos} \ {Nowhere}}
  <2>1. user[u].pos # Nowhere => IndexOf(user[u].pos) \in SectorIndex
    BY DEF Place
  <2>2. ASSUME NEW i
        PROVE  i \in SectorIndex /\ u \in mSector[i]
                 <=> user[u].pos # Nowhere /\ i = IndexOf(user[u].pos)
    BY <2>1 DEF SectorInv
  <2>. QED  BY <2>2
<1>4. ASSUME NEW u \in mUserPool
      PROVE  /\ \A s \in DOMAIN mSessionUserMap : mSessionUserMap[s] # u
             /\ \A a \in DOMAIN mAccountUserMap : mAccountUserMap[a] # u
             /\ \A i \in SectorIndex : u \notin mSector[i]
  BY DEF SessionInv, AccountInv, SectorInv
<1>. QED  BY <1>1, <1>2, <1>3, <1>4 DEF UsersAreConsistent

\* In the beginning all users are in the pool.
LEMMA InitUsers == Init => UserInv
<1>. SUFFICES ASSUME Init PROVE UserInv
  OBVIOUS
<1>1. UserType
  BY DEF Init, UserType, Blank
<1>2. SessionInv /\ AccountInv /\ SectorInv
  BY DEF Init, SessionInv, AccountInv, SectorInv
<1>. QED  BY <1>1, <1>2 DEF UserInv

\* AddUser enters the user of the pool into both tables.
LEMMA AddUserStep ==
  ASSUME UserInv, NEW s \in Session, NEW a \in Account, NEW u \in mUserPool,
         AddUserAccepts(s, a), AddUser(s, a, u), mSector' = mSector
  PROVE  UserInv'
<1>. USE DEF UserInv, UserType, AddUser, AddUserAccepts, Known, Put
<1>1. UserType'
  OBVIOUS
<1>2. SessionInv'
  BY DEF SessionInv
<1>3. AccountInv'
  BY DEF AccountInv
<1>4. SectorInv'
  BY DEF SectorInv
<1>. QED  BY <1>1, <1>2, <1>3, <1>4

\* RemoveUser and RemoveSectorUser take it out of both and of its list.
LEMMA RemoveUserStep ==
  ASSUME UserInv, NEW s, Known(s), mSector' = Without(mSector, UserOf(s)), RemoveUser(s)
  PROVE  UserInv'
<1>. USE DEF UserInv, UserType, Known
<1>0. PICK u \in User \ mUserPool : u = UserOf(s) /\ user[u].session = s
  BY DEF SessionInv, UserOf
<1>1. /\ mSessionUserMap' = Erase(mSessionUserMap, s)
      /\ mAccountUserMap' = Erase(mAccountUserMap, user[u].account)
      /\ mUserPool' = mUserPool \cup {u}
      /\ user' = [user EXCEPT ![u] = Blank]
      /\ mSector' = Without(mSector, u)
  BY <1>0 DEF RemoveUser
<1>2. UserType'
  BY <1>1 DEF Blank, Without
<1>3. SessionInv'
  BY <1>0, <1>1 DEF SessionInv, Erase
<1>4. AccountInv'
  BY <1>1 DEF AccountInv, Erase
<1>5. SectorInv'
  BY <1>1 DEF SectorInv, Without
<1>. QED  BY <1>2, <1>3, <1>4, <1>5

\* TryMove changes one user's place and the lists of two places.
LEMMA MoveStep ==
  ASSUME UserInv, NEW u \in User \ mUserPool, NEW dest \in Nat \X Nat, TryMove(u, dest),
         UNCHANGED <<mSessionUserMap, mAccountUserMap, mUserPool>>
  PROVE  UserInv'
<1>. USE DEF UserInv, UserType
<1>1. CASE user' = user /\ mSector' = mSector
  BY <1>1 DEF SessionInv, AccountInv, SectorInv
<1>2. CASE /\ user[u].pos # dest /\ IndexOf(dest) \in SectorIndex
           /\ mSector' = [Without(mSector, u) EXCEPT ![IndexOf(dest)] = @ \cup {u}]
           /\ user' = [user EXCEPT ![u].pos = dest]
  <2>1. dest \in Place /\ dest # Nowhere
    BY <1>2, NowhereIsNoPlace DEF Place
  <2>2. Without(mSector, u) \in [SectorIndex -> SUBSET User]
    BY DEF Without
  <2>3. UserType'
    <3>1. user' \in [User -> [session : Session \cup {None}, account : Account \cup {None},
                              pos : Place \cup {Nowhere}]]
      BY <1>2, <2>1
    <3>2. mSector' \in [SectorIndex -> SUBSET User]
      BY <1>2, <2>2
    <3>. QED  BY <3>1, <3>2
  <2>4. \A v \in User : /\ user'[v].session = user[v].session
                        /\ user'[v].account = user[v].account
                        /\ user'[v].pos = IF v = u THEN dest ELSE user[v].pos
    BY <1>2
  <2>5. SessionInv' /\ AccountInv'
    BY <2>4 DEF SessionInv, AccountInv
  <2>6. SectorInv'
    <3>1. ASSUME NEW v \in User, NEW i \in SectorIndex
          PROVE  v \in mSector'[i] <=>
                   \/ v = u /\ i = IndexOf(dest)
                   \/ v \in mSector[i] /\ ~ (v = u /\ user[u].pos # Nowhere /\ i = IndexOf(user[u].pos))
      <4>1. v \in Without(mSector, u)[i] <=>
              v \in mSector[i] /\ ~ (v = u /\ user[u].pos # Nowhere /\ i = IndexOf(user[u].pos))
        BY DEF Without
      <4>2. v \in mSector'[i] <=> v \in Without(mSector, u)[i] \/ (v = u /\ i = IndexOf(dest))
        BY <1>2, <2>2
      <4>. QED  BY <4>1, <4>2
    <3>2. ASSUME NEW v \in User, NEW i \in SectorIndex
          PROVE  v \in mSector'[i] <=> /\ v \notin mUserPool /\ user'[v].pos # Nowhere
                                       /\ IndexOf(user'[v].pos) = i
      <4>1. v \in mSector[i] <=> /\ v \notin mUserPool /\ user[v].pos # Nowhere
                                 /\ IndexOf(user[v].pos) = i
        BY DEF SectorInv
      <4>2. CASE v = u
        BY <2>1, <2>4, <3>1, <4>1, <4>2
      <4>3. CASE v # u
        BY <2>4, <3>1, <4>1, <4>3
      <4>. QED  BY <4>2, <4>3
    <3>. QED  BY <3>2 DEF SectorInv
  <2>. QED  BY <2>3, <2>5, <2>6
<1>. QED  BY <1>1, <1>2 DEF TryMove

\* A handler, whatever the job.
LEMMA HandleJobStep ==
  ASSUME PacketsInv, UserInv, NEW j \in Job, Proper(j), HandleJob(j),
         j.packet # None => content[j.packet] \in Request
  PROVE  UserInv'
<1>1. CASE UNCHANGED userVars
  BY <1>1 DEF userVars, UserInv, UserType, SessionInv, AccountInv, SectorInv
<1>2. CASE JobSystemDisconnectUser(j)
  BY <1>1, <1>2, RemoveUserStep DEF JobSystemDisconnectUser
<1>3. ASSUME j.packet # None, NEW r, r = content[j.packet],
             JobUserLogin(j, r) \/ JobUserSectorMove(j, r)
      PROVE  UserInv'
  <2>1. r.account \in Account /\ r.dest \in Nat \X Nat
    BY <1>3, ChatAssumption
  <2>2. j.session \in Session \/ UNCHANGED userVars
    BY <1>3 DEF JobUserLogin, JobUserSectorMove, Proper, UserRequest
  <2>3. CASE JobUserLogin(j, r) /\ j.session \in Session
    BY <1>1, <2>1, <2>3, AddUserStep DEF JobUserLogin, userVars
  <2>4. CASE JobUserSectorMove(j, r)
    <3>1. CASE Known(j.session) /\ TryMove(UserOf(j.session), r.dest)
      <4>1. UserOf(j.session) \in User \ mUserPool
        BY <3>1 DEF UserInv, SessionInv, Known, UserOf
      <4>. QED  BY <2>1, <2>4, <3>1, <4>1, MoveStep DEF JobUserSectorMove
    <3>. QED  BY <1>1, <2>4, <3>1 DEF JobUserSectorMove, userVars
  <2>. QED  BY <1>3, <1>1, <2>2, <2>3, <2>4
<1>. QED  BY <1>1, <1>2, <1>3 DEF HandleJob, JobHeartBeat, JobUserMessage, JobTruncated

\* The first job is proper, and its packet can be read.
LEMMA HeadIsProper ==
  ASSUME PacketsInv, mJobQueue # <<>>
  PROVE  /\ Head(mJobQueue) \in Job /\ Proper(Head(mJobQueue))
         /\ Head(mJobQueue).packet # None => content[Head(mJobQueue).packet] \in Request
<1>1. 1 \in 1..Len(mJobQueue) /\ Head(mJobQueue) = mJobQueue[1] /\ mJobQueue[1] \in Job
  BY EmptySeq, HeadTailProperties DEF PacketsInv, QueueInv
<1>2. Proper(mJobQueue[1])
  BY <1>1 DEF PacketsInv, QueueInv
<1>3. ASSUME mJobQueue[1].packet # None PROVE content[mJobQueue[1].packet] \in Request
  <2>1. PICK p \in Packet : p = mJobQueue[1].packet
    BY <1>1, <1>3 DEF Job
  <2>2. <<1, "queued">> \in HoldersIn(p, held, mJobQueue, lateJobs, job)
    BY <1>1, <2>1, InHolders DEF PacketsInv, QueueInv
  <2>. QED  BY <2>1, <2>2, HeldIsCounted
<1>. QED  BY <1>1, <1>2, <1>3

\* Every step keeps the tables of users and sectors in agreement.
LEMMA NextUsers == PacketsInv /\ UserInv /\ [Next]_vars => UserInv'
<1>. SUFFICES ASSUME PacketsInv, UserInv, [Next]_vars PROVE UserInv'
  OBVIOUS
<1>1. CASE UNCHANGED userVars
  BY <1>1 DEF userVars, UserInv, UserType, SessionInv, AccountInv, SectorInv
<1>2. CASE JobProcess
  BY <1>1, <1>2, HeadIsProper, HandleJobStep DEF JobProcess
<1>3. CASE QuitDrain
  BY <1>1, <1>3, HeadIsProper, HandleJobStep DEF QuitDrain, HandleJob
<1>4. CASE Network
  BY <1>1, <1>4 DEF Network, LinkLate, OnReceived, SetJobEvent, ReceiveDone, OnDisconnected, Receive
<1>5. CASE JobWait \/ JobWoken \/ JobLoopEnds \/ JobDone \/ \E s \in Session : JobReleases(s)
  BY <1>1, <1>5 DEF JobWait, JobWoken, JobLoopEnds, JobDone, JobReleases
<1>6. CASE ThreadHeartbeat \/ StopNetwork
  BY <1>1, <1>6 DEF ThreadHeartbeat, BeatTick, BeatSet, BeatQuit, StopNetwork
<1>7. CASE QuitFlag \/ QuitSetQuitEvent \/ QuitSetJobEvent \/ QuitJoin \/ QuitEnds \/ UNCHANGED vars
  BY <1>1, <1>7 DEF QuitFlag, QuitSetQuitEvent, QuitSetJobEvent, QuitJoin, QuitEnds, vars
<1>. QED  BY <1>2, <1>3, <1>4, <1>5, <1>6, <1>7 DEF Next, ThreadProcessJob, OnQuit

\* Both tables, the pool, the sector lists and the users' own fields agree in
\* every state, for any number of users, any map and any destination a client
\* names: TryMove and RemoveSectorUser use the same list for a position, on
\* the map or off it, and the handlers of EventHandler never forget a table.
THEOREM UsersAreAlwaysConsistent == Spec => []UsersAreConsistent
<1>1. PacketsInv /\ UserInv /\ [Next]_vars => (PacketsInv /\ UserInv)'
  BY NextPackets, NextUsers
<1>2. Init => PacketsInv /\ UserInv
  BY InitPackets, InitUsers
<1>. QED  BY <1>1, <1>2, UserInvMeans, PTL DEF Spec

-----------------------------------------------------------------------------
(* Messages. *)

\* A row further is at least a row of entries further in the array.
LEMMA RowsApart ==
  ASSUME NEW x \in Nat, NEW y \in Nat, x < y, NEW n \in Nat
  PROVE  x * n + n <= y * n
<1>. DEFINE d == y - x - 1
<1>1. d \in Nat /\ y = x + 1 + d
  OBVIOUS
<1>2. d * n \in Nat
  BY <1>1
<1>. HIDE DEF d
<1>3. (x + 1 + d) * n = x * n + n + d * n
  BY <1>1
<1>4. x * n \in Nat /\ y * n = x * n + n + d * n
  BY <1>1, <1>3
<1>. QED  BY <1>2, <1>4

\* Two sectors of the map have two lists, ...
LEMMA SectorsHaveTheirLists ==
  ASSUME NEW a \in Sector, NEW b \in Sector, IndexOf(a) = IndexOf(b)
  PROVE  a = b
<1>1. /\ a[1] \in Nat /\ a[2] \in Nat /\ a = <<a[1], a[2]>> /\ a[1] < Side
      /\ b[1] \in Nat /\ b[2] \in Nat /\ b = <<b[1], b[2]>> /\ b[1] < Side
      /\ Side \in Nat
  BY ChatAssumption DEF Sector
<1>2. /\ a[2] * Side + a[1] = b[2] * Side + b[1]
      /\ a[2] * Side \in Nat /\ b[2] * Side \in Nat
  BY <1>1 DEF IndexOf
<1>3. CASE a[2] < b[2]
  <2>1. a[2] * Side + Side <= b[2] * Side
    BY <1>1, <1>3, RowsApart
  <2>. QED  BY <1>1, <1>2, <2>1
<1>4. CASE b[2] < a[2]
  <2>1. b[2] * Side + Side <= a[2] * Side
    BY <1>1, <1>4, RowsApart
  <2>. QED  BY <1>1, <1>2, <2>1
<1>5. CASE a[2] = b[2]
  BY <1>1, <1>2, <1>5
<1>. QED  BY <1>1, <1>3, <1>4, <1>5

\* ... and each has one.
LEMMA SectorsHaveLists ==
  ASSUME NEW a \in Sector
  PROVE  IndexOf(a) \in SectorIndex
<1>1. a[1] \in Nat /\ a[2] \in Nat /\ a[1] < Side /\ a[2] < Side /\ Side \in Nat
  BY ChatAssumption DEF Sector
<1>2. a[2] * Side + Side <= Side * Side
  BY <1>1, RowsApart
<1>3. a[2] * Side \in Nat /\ Side * Side \in Nat
  BY <1>1
<1>. HIDE DEF IndexOf
<1>4. IndexOf(a) = a[2] * Side + a[1]
  BY DEF IndexOf
<1>. QED  BY <1>1, <1>2, <1>3, <1>4 DEF SectorIndex

\* Being in a sector around a place is standing next to it.
LEMMA AroundIsNear ==
  ASSUME NEW a \in Sector, NEW b \in Place \cup {Nowhere}
  PROVE  a \in GetSectorAround(b) <=> Near(a, b)
<1>1. /\ a[1] \in Int /\ a[2] \in Int /\ a = <<a[1], a[2]>>
      /\ b[1] \in Int /\ b[2] \in Int
  BY ChatAssumption DEF Sector, Nowhere, Place
<1>2. Near(a, b) <=> a[1] - b[1] \in -1..1 /\ a[2] - b[2] \in -1..1
  BY DEF Near
<1>3. a \in GetSectorAround(b) <=> /\ a[1] \in (b[1] - 1)..(b[1] + 1)
                                   /\ a[2] \in (b[2] - 1)..(b[2] + 1)
  BY <1>1 DEF GetSectorAround
<1>. QED  BY <1>1, <1>2, <1>3

\* Who hears is in the list of a sector around.
LEMMA HearsIs ==
  ASSUME NEW a \in Place \cup {Nowhere}, NEW b \in Place \cup {Nowhere}
  PROVE  Hears(a, b) <=>
           a # Nowhere /\ \E q \in GetSectorAround(b) : IndexOf(q) = IndexOf(a)
<1>1. \A q \in Sector : q \in GetSectorAround(b) <=> Near(q, b)
  BY AroundIsNear
<1>2. GetSectorAround(b) \subseteq Sector
  BY DEF GetSectorAround
<1>3. CASE a \in Sector
  <2>1. \A q \in Sector : IndexOf(q) = IndexOf(a) <=> q = a
    BY <1>3, SectorsHaveTheirLists
  <2>. QED  BY <1>1, <1>2, <1>3, <2>1, NowhereIsNoPlace DEF Hears
<1>4. CASE a \notin Sector
  BY <1>1, <1>2, <1>4 DEF Hears
<1>. QED  BY <1>3, <1>4

\* SendMessageToSectorAround sends one packet to each user who hears.
LEMMA SendAroundIs ==
  ASSUME UserInv, NEW pos \in Place \cup {Nowhere}, NEW s \in Session
  PROVE  SendAround(pos)[s] = IF Known(s) /\ Hears(user[UserOf(s)].pos, pos) THEN 1 ELSE 0
<1>. USE DEF UserInv, UserType
<1>. DEFINE S == {e \in GetSectorAround(pos) \X User :
                    e[2] \in mSector[IndexOf(e[1])] /\ user[e[2]].session = s}
<1>1. SendAround(pos)[s] = Cardinality(S)
  BY DEF SendAround
<1>2. GetSectorAround(pos) \subseteq Sector
  BY DEF GetSectorAround
<1>3. ASSUME NEW q \in Sector, NEW u \in User
      PROVE  u \in mSector[IndexOf(q)] /\ user[u].session = s <=>
               /\ Known(s) /\ u = UserOf(s) /\ user[u].pos # Nowhere
               /\ IndexOf(user[u].pos) = IndexOf(q)
  <2>1. IndexOf(q) \in SectorIndex
    BY SectorsHaveLists
  <2>2. u \in mSector[IndexOf(q)] <=> /\ u \notin mUserPool /\ user[u].pos # Nowhere
                                      /\ IndexOf(user[u].pos) = IndexOf(q)
    BY <2>1 DEF SectorInv
  <2>3. u \notin mUserPool /\ user[u].session = s <=> Known(s) /\ u = UserOf(s)
    BY DEF SessionInv, Known, UserOf
  <2>. QED  BY <2>2, <2>3
<1>4. CASE Known(s) /\ Hears(user[UserOf(s)].pos, pos)
  <2>1. UserOf(s) \in User /\ user[UserOf(s)].pos \in Place \cup {Nowhere}
    BY <1>4 DEF SessionInv, Known, UserOf
  <2>2. PICK q \in GetSectorAround(pos) : IndexOf(q) = IndexOf(user[UserOf(s)].pos)
    BY <1>4, <2>1, HearsIs
  <2>3. user[UserOf(s)].pos # Nowhere
    BY <1>4, <2>1, HearsIs
  <2>4. S = {<<q, UserOf(s)>>}
    <3>1. ASSUME NEW e \in S PROVE e = <<q, UserOf(s)>>
      <4>1. e = <<e[1], e[2]>> /\ e[1] \in Sector /\ e[2] \in User
        BY <1>2
      <4>2. e[2] = UserOf(s) /\ IndexOf(e[1]) = IndexOf(q)
        BY <1>3, <2>2, <4>1
      <4>3. e[1] = q
        BY <1>2, <4>1, <4>2, SectorsHaveTheirLists
      <4>. QED  BY <4>1, <4>2, <4>3
    <3>2. <<q, UserOf(s)>> \in S
      <4>1. UserOf(s) \in mSector[IndexOf(q)] /\ user[UserOf(s)].session = s
        BY <1>2, <1>3, <1>4, <2>1, <2>2, <2>3
      <4>. QED  BY <2>1, <4>1
    <3>. QED  BY <3>1, <3>2
  <2>. QED  BY <1>1, <1>4, <2>4, FS_Singleton
<1>5. CASE ~ (Known(s) /\ Hears(user[UserOf(s)].pos, pos))
  <2>1. ASSUME NEW e \in S PROVE FALSE
    <3>1. e = <<e[1], e[2]>> /\ e[1] \in Sector /\ e[2] \in User /\ e[1] \in GetSectorAround(pos)
      BY <1>2
    <3>2. /\ Known(s) /\ e[2] = UserOf(s) /\ user[UserOf(s)].pos # Nowhere
          /\ IndexOf(e[1]) = IndexOf(user[UserOf(s)].pos)
      BY <1>3, <3>1
    <3>3. user[UserOf(s)].pos \in Place \cup {Nowhere}
      BY <3>2 DEF SessionInv, Known, UserOf
    <3>4. Hears(user[UserOf(s)].pos, pos)
      BY <3>1, <3>2, <3>3, HearsIs
    <3>. QED  BY <1>5, <3>2, <3>4
  <2>2. S = {}
    BY <2>1
  <2>. QED  BY <1>1, <1>5, <2>2, FS_EmptySet
<1>. QED  BY <1>4, <1>5

\* What the handler sent still goes to those who hear until the job is done.
LEMMA NextMessages ==
  PacketsInv /\ UserInv /\ MessagesReachNeighbours /\ [Next]_vars => MessagesReachNeighbours'
<1>. SUFFICES ASSUME PacketsInv, UserInv, MessagesReachNeighbours, [Next]_vars
              PROVE  MessagesReachNeighbours'
  OBVIOUS
<1>1. CASE jobPc' # "handled"
  BY <1>1 DEF MessagesReachNeighbours
<1>2. CASE UNCHANGED <<jobVars, userVars>>
  BY <1>2 DEF jobVars, userVars, MessagesReachNeighbours, Known, UserOf
<1>3. CASE JobProcess /\ jobPc' = "handled"
  <2>. SUFFICES ASSUME job'.type = "UserMessage", cuts' = {}, NEW s \in Session
                PROVE  sends'[s] = IF /\ Known(s)'
                                      /\ Hears(user'[UserOf(s)'].pos, user'[mSessionUserMap'[job'.session]].pos)
                                   THEN 1 ELSE 0
    BY DEF MessagesReachNeighbours, UserOf
  <2>1. PICK j : j = Head(mJobQueue)
    OBVIOUS
  <2>2. job' = j /\ HandleJob(j) /\ j.type = "UserMessage"
    BY <1>3, <2>1 DEF JobProcess
  <2>3. JobUserMessage(j, content[j.packet])
    BY <2>2 DEF HandleJob, JobHeartBeat, JobSystemDisconnectUser, JobUserLogin,
                JobUserSectorMove, JobTruncated
  <2>4. /\ Known(j.session) /\ sends' = SendAround(user[UserOf(j.session)].pos)
        /\ UNCHANGED userVars
    BY <2>3 DEF JobUserMessage
  <2>5. user[UserOf(j.session)].pos \in Place \cup {Nowhere}
    BY <2>4 DEF UserInv, UserType, SessionInv, Known, UserOf
  <2>6. sends'[s] = IF Known(s) /\ Hears(user[UserOf(s)].pos, user[UserOf(j.session)].pos)
                    THEN 1 ELSE 0
    BY <2>4, <2>5, SendAroundIs
  <2>. QED  BY <2>2, <2>4, <2>6 DEF userVars, Known, UserOf
<1>4. CASE QuitDrain
  BY <1>1, <1>4 DEF QuitDrain, PacketsInv, JobThreadInv
<1>5. CASE Network
  BY <1>2, <1>5 DEF Network, LinkLate, OnReceived, SetJobEvent, ReceiveDone, OnDisconnected, Receive
<1>6. CASE JobWait \/ JobWoken \/ JobLoopEnds \/ JobDone
  BY <1>1, <1>6 DEF JobWait, JobWoken, JobLoopEnds, JobDone
<1>7. CASE (\E s \in Session : JobReleases(s)) \/ ThreadHeartbeat \/ StopNetwork
  BY <1>2, <1>7 DEF JobReleases, ThreadHeartbeat, BeatTick, BeatSet, BeatQuit, StopNetwork
<1>8. CASE QuitFlag \/ QuitSetQuitEvent \/ QuitSetJobEvent \/ QuitJoin \/ QuitEnds \/ UNCHANGED vars
  BY <1>2, <1>8 DEF QuitFlag, QuitSetQuitEvent, QuitSetJobEvent, QuitJoin, QuitEnds, vars
<1>. QED  BY <1>1, <1>3, <1>4, <1>5, <1>6, <1>7, <1>8 DEF Next, ThreadProcessJob, OnQuit

\* A message is sent once to each logged-in user in the list of a sector next to
\* its sender and to nobody else, for any map and any number of users, wherever
\* they have moved: on the map the sectors have lists of their own and the users
\* reached are exactly the neighbours, at the edges too; a position off the map
\* that TryMove accepts is heard where its list is.
THEOREM MessagesAlwaysReachNeighbours == Spec => []MessagesReachNeighbours
<1>. DEFINE I == PacketsInv /\ UserInv /\ MessagesReachNeighbours
<1>1. Init => I
  BY InitPackets, InitUsers DEF Init, MessagesReachNeighbours
<1>2. I /\ [Next]_vars => I'
  BY NextPackets, NextUsers, NextMessages
<1>. QED  BY <1>1, <1>2, PTL DEF Spec

-----------------------------------------------------------------------------
(* Ghosts. *)

\* The disconnect of s, and where one is; no job of s.
Parts(j, s) == j.type = "SystemDisconnectUser" /\ j.session = s
PartsIn(q, s) == \E i \in 1..Len(q) : Parts(q[i], s)
Absent(q, s) == \A i \in 1..Len(q) : q[i].session # s

\* Behind a disconnect of s nothing else is asked for s.
LastIn(q, s) ==
  \A i, k \in 1..Len(q) : i < k /\ Parts(q[i], s) /\ q[k].session = s => Parts(q[k], s)

\* When s has left, its disconnect is still to come or nothing of s is left.
GoneIn(s) ==
  \/ PartsIn(mJobQueue, s)
  \/ \E x \in lateJobs : Parts(x, s)
  \/ Absent(mJobQueue, s) /\ s \notin DOMAIN mSessionUserMap

\* A session none of whose requests was late.
GhostInvOf(s) ==
  /\ LastIn(mJobQueue, s)
  /\ \A x \in lateJobs : x.session = s => Parts(x, s)
  /\ s \in left => GoneIn(s)

GhostInv == \A s \in Session \ overtaken : GhostInvOf(s)

\* A job at the end of the queue.
LEMMA LastAppend ==
  ASSUME NEW q \in Seq(Job), NEW x \in Job, NEW s, LastIn(q, s),
         x.session # s \/ Parts(x, s) \/ ~PartsIn(q, s)
  PROVE  /\ LastIn(Append(q, x), s)
         /\ PartsIn(q, s) \/ Parts(x, s) => PartsIn(Append(q, x), s)
         /\ Absent(q, s) /\ x.session # s => Absent(Append(q, x), s)
<1>0. SUFFICES ASSUME NEW a, a = Append(q, x)
               PROVE  /\ LastIn(a, s)
                      /\ PartsIn(q, s) \/ Parts(x, s) => PartsIn(a, s)
                      /\ Absent(q, s) /\ x.session # s => Absent(a, s)
  OBVIOUS
<1>1. /\ Len(a) = Len(q) + 1 /\ Len(q) \in Nat
      /\ \A i \in 1..Len(q) : a[i] = q[i]
      /\ a[Len(q) + 1] = x
  BY <1>0, AppendProperties
<1>2. \A i \in 1..Len(a) : i \in 1..Len(q) \/ i = Len(q) + 1
  BY <1>1
<1>3. PartsIn(q, s) \/ Parts(x, s) => PartsIn(a, s)
  BY <1>1 DEF PartsIn
<1>4. Absent(q, s) /\ x.session # s => Absent(a, s)
  BY <1>1, <1>2 DEF Absent
<1>5. ASSUME NEW i \in 1..Len(a), NEW k \in 1..Len(a), i < k, Parts(a[i], s), a[k].session = s
      PROVE  Parts(a[k], s)
  <2>1. i \in 1..Len(q) /\ Parts(q[i], s)
    BY <1>1, <1>5
  <2>2. CASE k \in 1..Len(q)
    BY <1>1, <1>5, <2>1, <2>2 DEF LastIn
  <2>3. CASE k = Len(q) + 1
    BY <1>1, <1>5, <2>1, <2>3 DEF PartsIn
  <2>. QED  BY <1>2, <2>2, <2>3
<1>. QED  BY <1>3, <1>4, <1>5 DEF LastIn

\* The first job leaves: what is behind a disconnect of s is disconnects.
LEMMA LastTail ==
  ASSUME NEW q \in Seq(Job), q # <<>>, NEW s, LastIn(q, s)
  PROVE  /\ LastIn(Tail(q), s)
         /\ PartsIn(q, s) /\ ~Parts(Head(q), s) => PartsIn(Tail(q), s)
         /\ Parts(Head(q), s) => PartsIn(Tail(q), s) \/ Absent(Tail(q), s)
         /\ Absent(q, s) => Head(q).session # s /\ Absent(Tail(q), s)
<1>0. SUFFICES ASSUME NEW r, r = Tail(q)
               PROVE  /\ LastIn(r, s)
                      /\ PartsIn(q, s) /\ ~Parts(Head(q), s) => PartsIn(r, s)
                      /\ Parts(Head(q), s) => PartsIn(r, s) \/ Absent(r, s)
                      /\ Absent(q, s) => Head(q).session # s /\ Absent(r, s)
  OBVIOUS
<1>1. /\ Len(r) = Len(q) - 1 /\ Head(q) = q[1]
      /\ \A i \in 1..Len(r) : r[i] = q[i + 1] /\ i + 1 \in 1..Len(q)
      /\ Len(q) \in Nat /\ Len(q) >= 1
  BY <1>0, HeadTailProperties, EmptySeq
<1>2. \A i \in 2..Len(q) : i - 1 \in 1..Len(r) /\ r[i - 1] = q[i]
  BY <1>1
<1>3. ASSUME PartsIn(q, s), ~Parts(Head(q), s) PROVE PartsIn(r, s)
  <2>1. PICK i \in 1..Len(q) : Parts(q[i], s)
    BY <1>3 DEF PartsIn
  <2>2. i \in 2..Len(q)
    BY <1>1, <1>3, <2>1
  <2>. QED  BY <1>2, <2>1, <2>2 DEF PartsIn
<1>4. ASSUME Parts(Head(q), s), NEW i \in 1..Len(r), r[i].session = s PROVE PartsIn(r, s)
  <2>1. 1 \in 1..Len(q) /\ i + 1 \in 1..Len(q) /\ 1 < i + 1 /\ r[i] = q[i + 1] /\ Parts(q[1], s)
    BY <1>1, <1>4
  <2>2. Parts(r[i], s)
    BY <1>4, <2>1 DEF LastIn
  <2>. QED  BY <2>2 DEF PartsIn
<1>5. ASSUME NEW i \in 1..Len(r), NEW k \in 1..Len(r), i < k, Parts(r[i], s), r[k].session = s
      PROVE  Parts(r[k], s)
  <2>1. i + 1 \in 1..Len(q) /\ k + 1 \in 1..Len(q) /\ i + 1 < k + 1
    BY <1>1, <1>5
  <2>. QED  BY <1>1, <1>5, <2>1 DEF LastIn
<1>6. Absent(q, s) => Head(q).session # s /\ Absent(r, s)
  BY <1>1 DEF Absent
<1>. QED  BY <1>3, <1>4, <1>5, <1>6 DEF LastIn, Absent

\* A handler gives a user only to the session of its job, and not when that one
\* is disconnected.
LEMMA HandleJobUsers ==
  ASSUME NEW j \in Job, HandleJob(j), NEW s, s \in DOMAIN mSessionUserMap'
  PROVE  /\ s \in DOMAIN mSessionUserMap \/ s = j.session
         /\ ~Parts(j, s)
<1>1. CASE j.type = "SystemDisconnectUser"
  <2>1. JobSystemDisconnectUser(j)
    BY <1>1 DEF HandleJob, JobHeartBeat, JobUserLogin, JobUserSectorMove, JobUserMessage,
                JobTruncated
  <2>. QED  BY <2>1 DEF JobSystemDisconnectUser, Known, RemoveUser, Erase, userVars, Parts
<1>2. CASE j.type = "UserLogin"
  <2>1. \/ mSessionUserMap' = mSessionUserMap
        \/ \E v : mSessionUserMap' = Put(mSessionUserMap, j.session, v)
    BY <1>2 DEF HandleJob, JobHeartBeat, JobSystemDisconnectUser, JobUserLogin,
                JobUserSectorMove, JobUserMessage, JobTruncated, AddUser, userVars
  <2>. QED  BY <1>2, <2>1 DEF Put, Parts
<1>3. CASE j.type \notin {"UserLogin", "SystemDisconnectUser"}
  <2>1. mSessionUserMap' = mSessionUserMap
    BY <1>3 DEF HandleJob, JobHeartBeat, JobSystemDisconnectUser, JobUserLogin,
                JobUserSectorMove, JobUserMessage, JobTruncated, userVars
  <2>. QED  BY <1>3, <2>1 DEF Parts
<1>. QED  BY <1>1, <1>2, <1>3

\* A job is added, late or not: a request of a session that is here, the
\* disconnect of one that is leaving, or a heartbeat.
LEMMA GhostEnqueue ==
  ASSUME PacketsInv, GhostInv, NEW x \in Job, Enqueued(x), mSessionUserMap' = mSessionUserMap,
         \/ left' = left /\ x.type \in UserRequest /\ x.session \in Session \ left
         \/ left' = left /\ x.session \notin Session
         \/ x.type = "SystemDisconnectUser" /\ left' = left \cup {x.session}
  PROVE  GhostInv'
<1>1. mJobQueue \in Seq(Job)
  BY DEF PacketsInv, QueueInv
<1>2. \A s : PartsIn(mJobQueue, s) => s \in left
  BY DEF PacketsInv, QueueInv, Proper, PartsIn, Parts
<1>. SUFFICES ASSUME NEW s \in Session, s \notin overtaken' PROVE GhostInvOf(s)'
  BY DEF GhostInv
<1>3. s \notin overtaken /\ GhostInvOf(s)
  BY DEF GhostInv, Enqueued
<1>4. x.session = s => \/ Parts(x, s)
                       \/ x.type \in UserRequest /\ s \notin left /\ left' = left
  BY DEF Parts
<1>5. s \in left' => s \in left \/ Parts(x, s)
  BY DEF Parts
<1>6. CASE mJobQueue' = Append(mJobQueue, x) /\ lateJobs' = lateJobs
  <2>1. x.session # s \/ Parts(x, s) \/ ~PartsIn(mJobQueue, s)
    BY <1>2, <1>4
  <2>2. /\ LastIn(mJobQueue', s)
        /\ PartsIn(mJobQueue, s) \/ Parts(x, s) => PartsIn(mJobQueue', s)
        /\ Absent(mJobQueue, s) /\ x.session # s => Absent(mJobQueue', s)
    BY <1>1, <1>3, <1>6, <2>1, LastAppend DEF GhostInvOf
  <2>3. s \in left' => GoneIn(s)'
    BY <1>3, <1>4, <1>5, <1>6, <2>2 DEF GhostInvOf, GoneIn
  <2>. QED  BY <1>3, <1>6, <2>2, <2>3 DEF GhostInvOf
<1>7. CASE /\ mJobQueue' = mJobQueue /\ lateJobs' = lateJobs \cup {x}
           /\ overtaken' = IF x.type \in UserRequest THEN overtaken \cup {x.session} ELSE overtaken
  <2>1. x.session = s => Parts(x, s)
    BY <1>4, <1>7
  <2>2. s \in left' => GoneIn(s)'
    BY <1>3, <1>5, <1>7 DEF GhostInvOf, GoneIn
  <2>. QED  BY <1>3, <1>7, <2>1, <2>2 DEF GhostInvOf
<1>. QED  BY <1>6, <1>7 DEF Enqueued

\* A late job joins the queue: for these sessions it can only be a disconnect.
LEMMA GhostLink ==
  ASSUME PacketsInv, GhostInv, NEW x \in lateJobs, LinkLate(x)
  PROVE  GhostInv'
<1>1. /\ mJobQueue \in Seq(Job) /\ x \in Job
      /\ mJobQueue' = Append(mJobQueue, x) /\ lateJobs' = lateJobs \ {x}
      /\ left' = left /\ overtaken' = overtaken /\ mSessionUserMap' = mSessionUserMap
  BY DEF LinkLate, PacketsInv, QueueInv, LateInv, eventVars, userVars
<1>. SUFFICES ASSUME NEW s \in Session \ overtaken PROVE GhostInvOf(s)'
  BY <1>1 DEF GhostInv
<1>2. GhostInvOf(s) /\ (x.session # s \/ Parts(x, s))
  BY DEF GhostInv, GhostInvOf
<1>3. /\ LastIn(mJobQueue', s)
      /\ PartsIn(mJobQueue, s) \/ Parts(x, s) => PartsIn(mJobQueue', s)
      /\ Absent(mJobQueue, s) /\ x.session # s => Absent(mJobQueue', s)
  BY <1>1, <1>2, LastAppend DEF GhostInvOf
<1>4. s \in left' => GoneIn(s)'
  BY <1>1, <1>2, <1>3 DEF GhostInvOf, GoneIn
<1>. QED  BY <1>1, <1>2, <1>3, <1>4 DEF GhostInvOf

\* The first job is handled, or dropped.
LEMMA GhostTail ==
  ASSUME PacketsInv, GhostInv, mJobQueue # <<>>, mJobQueue' = Tail(mJobQueue),
         UNCHANGED <<left, lateJobs, overtaken>>,
         \/ HandleJob(Head(mJobQueue))
         \/ Head(mJobQueue).type # "SystemDisconnectUser" /\ mSessionUserMap' = mSessionUserMap
  PROVE  GhostInv'
<1>1. mJobQueue \in Seq(Job) /\ Head(mJobQueue) \in Job
  BY HeadIsProper DEF PacketsInv, QueueInv
<1>. SUFFICES ASSUME NEW s \in Session \ overtaken PROVE GhostInvOf(s)'
  BY DEF GhostInv
<1>2. GhostInvOf(s)
  BY DEF GhostInv
<1>3. /\ LastIn(mJobQueue', s)
      /\ PartsIn(mJobQueue, s) /\ ~Parts(Head(mJobQueue), s) => PartsIn(mJobQueue', s)
      /\ Parts(Head(mJobQueue), s) => PartsIn(mJobQueue', s) \/ Absent(mJobQueue', s)
      /\ Absent(mJobQueue, s) => Head(mJobQueue).session # s /\ Absent(mJobQueue', s)
  BY <1>1, <1>2, LastTail DEF GhostInvOf
<1>4. /\ Parts(Head(mJobQueue), s) => s \notin DOMAIN mSessionUserMap'
      /\ Head(mJobQueue).session # s /\ s \notin DOMAIN mSessionUserMap
           => s \notin DOMAIN mSessionUserMap'
  BY <1>1, HandleJobUsers DEF Parts
<1>5. s \in left' => GoneIn(s)'
  BY <1>2, <1>3, <1>4 DEF GhostInvOf, GoneIn
<1>. QED  BY <1>2, <1>3, <1>5 DEF GhostInvOf

\* Every step keeps the queue free of jobs behind the disconnect.
LEMMA NextGhosts == PacketsInv /\ GhostInv /\ [Next]_vars => GhostInv'
<1>. SUFFICES ASSUME PacketsInv, GhostInv, [Next]_vars PROVE GhostInv'
  OBVIOUS
<1>. USE DEF PacketsInv
<1>1. CASE UNCHANGED <<left, jobsVars, mSessionUserMap>>
  BY <1>1 DEF jobsVars, GhostInv, GhostInvOf, GoneIn
<1>2. ASSUME NEW t \in Receiver, OnReceived(t) PROVE GhostInv'
  <2>1. /\ receiving[t] \in Session \ left /\ held[t] \in Packet
        /\ left' = left /\ mSessionUserMap' = mSessionUserMap
    BY <1>2 DEF OnReceived, ThreadInv, eventVars, userVars
  <2>2. CASE UNCHANGED jobsVars
    BY <1>1, <2>1, <2>2
  <2>3. CASE /\ content[held[t]].type \in UserRequest
             /\ Enqueue(content[held[t]].type, receiving[t], held[t])
    <3>1. PICK x : /\ x = [type |-> content[held[t]].type, session |-> receiving[t],
                           packet |-> held[t]]
                   /\ Enqueued(x)
      BY <2>3, EnqueueIs
    <3>2. x \in Job /\ x.session \in Session \ left /\ x.type \in UserRequest
      BY <2>1, <2>3, <3>1 DEF Job
    <3>. QED  BY <2>1, <3>1, <3>2, GhostEnqueue
  <2>. QED  BY <1>2, <2>2, <2>3 DEF OnReceived
<1>3. ASSUME NEW s \in Session, Net!LeaveAtAnyTime(s), Enqueue("SystemDisconnectUser", s, None),
             mSessionUserMap' = mSessionUserMap
      PROVE  GhostInv'
  <2>1. PICK x : /\ x = [type |-> "SystemDisconnectUser", session |-> s, packet |-> None]
                 /\ Enqueued(x)
    BY <1>3, EnqueueIs
  <2>2. x \in Job /\ x.type = "SystemDisconnectUser" /\ left' = left \cup {x.session}
    BY <1>3, <2>1 DEF Job, Net!LeaveAtAnyTime
  <2>. QED  BY <1>3, <2>1, <2>2, GhostEnqueue
<1>4. CASE BeatTick
  <2>1. PICK x : /\ x = [type |-> "SystemHeartBeat", session |-> None, packet |-> None]
                 /\ Enqueued(x)
    BY <1>4, EnqueueIs DEF BeatTick
  <2>2. x \in Job /\ x.session \notin Session
    BY <2>1, ChatAssumption DEF Job
  <2>3. left' = left /\ mSessionUserMap' = mSessionUserMap
    BY <1>4 DEF BeatTick, eventVars, userVars
  <2>. QED  BY <2>1, <2>2, <2>3, GhostEnqueue
<1>5. CASE JobProcess
  <2>1. \/ HandleJob(Head(mJobQueue))
        \/ Head(mJobQueue).type # "SystemDisconnectUser" /\ mSessionUserMap' = mSessionUserMap
    BY <1>5 DEF JobProcess, MovesOffMap, userVars
  <2>. QED  BY <1>5, <2>1, GhostTail DEF JobProcess, eventVars
<1>6. CASE QuitDrain
  <2>1. \/ HandleJob(Head(mJobQueue))
        \/ Head(mJobQueue).type # "SystemDisconnectUser" /\ mSessionUserMap' = mSessionUserMap
    BY <1>6 DEF QuitDrain, HandleJob, userVars
  <2>. QED  BY <1>6, <2>1, GhostTail DEF QuitDrain, eventVars
<1>7. CASE Network
  BY <1>1, <1>2, <1>3, <1>7, GhostLink
  DEF Network, SetJobEvent, ReceiveDone, OnDisconnected, Receive,
      Net!BeginAnyReceive, Net!EndReceive, eventVars, queueVars, userVars
<1>8. CASE JobWait \/ JobWoken \/ JobLoopEnds \/ JobDone \/ \E s \in Session : JobReleases(s)
  BY <1>1, <1>3, <1>8
  DEF JobWait, JobWoken, JobLoopEnds, JobDone, JobReleases, eventVars, queueVars, userVars
<1>9. CASE BeatSet \/ BeatQuit \/ StopNetwork \/ UNCHANGED vars
  BY <1>1, <1>9 DEF BeatSet, BeatQuit, StopNetwork, vars, eventVars, queueVars, userVars
<1>10. CASE QuitFlag \/ QuitSetQuitEvent \/ QuitSetJobEvent \/ QuitJoin \/ QuitEnds
  BY <1>1, <1>10
  DEF QuitFlag, QuitSetQuitEvent, QuitSetJobEvent, QuitJoin, QuitEnds, eventVars, queueVars, userVars
<1>. QED  BY <1>4, <1>5, <1>6, <1>7, <1>8, <1>9, <1>10
          DEF Next, ThreadProcessJob, ThreadHeartbeat, OnQuit

\* Once OnDisconnected was called for a session none of whose requests the queue
\* let be overtaken, nothing but disconnects of it is behind its disconnect, and
\* when that is gone so is the user: no login that was queued or is being handled
\* brings a user back, whichever thread reports the disconnect, however often and
\* however late.
THEOREM GhostsComeOnlyFromLateRequests == Spec => []OnlyLateRequestsLeaveGhosts
<1>1. Init => PacketsInv /\ GhostInv
  <2>. SUFFICES ASSUME Init PROVE GhostInv
    BY InitPackets
  <2>1. mJobQueue = <<>> /\ left = {} /\ lateJobs = {} /\ Len(mJobQueue) = 0
    BY EmptySeq DEF Init
  <2>. QED  BY <2>1 DEF GhostInv, GhostInvOf, LastIn
<1>2. PacketsInv /\ GhostInv /\ [Next]_vars => (PacketsInv /\ GhostInv)'
  BY NextPackets, NextGhosts
<1>3. PacketsInv /\ GhostInv => OnlyLateRequestsLeaveGhosts
  <2>. SUFFICES ASSUME PacketsInv, GhostInv, NEW s \in left \ overtaken
                PROVE  Leaving(s) \/ ~Known(s)
    BY DEF OnlyLateRequestsLeaveGhosts
  <2>1. GoneIn(s)
    BY DEF GhostInv, GhostInvOf, PacketsInv, ThreadInv
  <2>2. DOMAIN mJobQueue = 1..Len(mJobQueue)
    BY DEF PacketsInv, QueueInv
  <2>3. PartsIn(mJobQueue, s) => Leaving(s)
    BY <2>2 DEF Leaving, PartsIn, Parts
  <2>4. (\E x \in lateJobs : Parts(x, s)) => Leaving(s)
    BY DEF Leaving, Parts
  <2>. QED  BY <2>1, <2>3, <2>4 DEF GoneIn, Known
<1>. QED  BY <1>1, <1>2, <1>3, PTL DEF Spec
===============================================================================
