--------------------------- MODULE PacketPoolProofs ---------------------------
(***************************************************************************)
(* The packet pool for any number of threads, chunks and blocks: packets   *)
(* are owned by those who hold references, and a chunk is in one place.    *)
(***************************************************************************)
EXTENDS PacketPool, FiniteSetTheorems, TLAPS

-----------------------------------------------------------------------------
(* The inductive invariant. *)

Label == {"idle", "rent", "swap", "construct", "return", "return_chunk", "count_down"}

\* t has a packet in its hands that nobody has a reference to.
Busy(t) == pc[t] \in {"swap", "construct", "return"}

Owners(p) == {t \in Thread : <<t, p>> \in refs}
Held == {r[2] : r \in refs}
LiveIn(c) == {p \in Live : p[1] = c}

\* cur is a packet where it is used.
PoolType ==
  /\ pooled \in SUBSET Chunk /\ tls \in [Thread -> Chunk \cup {Null}]
  /\ index \in [Chunk -> 0..Blocks] /\ free \in [Chunk -> Int]
  /\ refCount \in [Packet -> Int] /\ size \in Int
  /\ refs \in SUBSET (Thread \X Packet)
  /\ pc \in [Thread -> Label]
  /\ DOMAIN cur = Thread
  /\ \A t \in Thread : pc[t] \in {"swap", "construct", "return", "return_chunk", "count_down"}
                         => cur[t] \in Packet

\* What a thread has in its hands is its alone.
HandsInv ==
  \A t \in Thread : Busy(t) => /\ \A u \in Thread : Busy(u) /\ cur[u] = cur[t] => u = t
                               /\ \A u \in Thread : <<u, cur[t]>> \notin refs

\* A live packet was handed out of a chunk that is not in the pool.
PlaceInv == \A p \in Live : p[1] \notin pooled /\ p[2] >= index[p[1]]

\* A chunk in a thread-local slot is out of the pool, in one slot only, and has
\* blocks left unless its thread is about to swap it.
TlsInv ==
  \A t \in Thread :
    /\ tls[t] # Null =>
         /\ tls[t] \notin pooled
         /\ \A u \in Thread : tls[u] = tls[t] => u = t
         /\ pc[t] # "swap" => index[tls[t]] > 0
    /\ pc[t] = "swap" => tls[t] = cur[t][1] /\ index[tls[t]] = 0

\* A chunk that is about to be returned is used up and free, and one thread
\* returns it.
ReturnInv ==
  \A t \in Thread : pc[t] = "return_chunk" =>
    /\ cur[t][1] \notin pooled /\ index[cur[t][1]] = 0 /\ free[cur[t][1]] = 0
    /\ \A u \in Thread : pc[u] = "return_chunk" /\ cur[u][1] = cur[t][1] => u = t

\* AvailableFreeCount counts the blocks not handed out and the live packets;
\* a chunk with blocks left has a renter, a chunk without either is returned.
CountInv ==
  \A c \in Chunk \ pooled :
    /\ free[c] = index[c] + Cardinality(LiveIn(c))
    /\ index[c] = 0 \/ \E t \in Thread : tls[t] = c
    /\ free[c] = 0 => \E t \in Thread : pc[t] = "return_chunk" /\ cur[t][1] = c

RefInv == \A p \in Packet : Owners(p) # {} => refCount[p] = Cardinality(Owners(p))

IInv ==
  PoolType /\ HandsInv /\ PlaceInv /\ TlsInv /\ ReturnInv /\ CountInv /\ RefInv
  /\ UsedSizeIsExact

-----------------------------------------------------------------------------
(* Sets. *)

\* There are finitely many packets: finitely many chunks of finitely many blocks.
LEMMA PacketsFinite == IsFiniteSet(Packet)
<1>1. 0 \in Int /\ Blocks - 1 \in Int
  BY PoolAssumption
<1>2. IsFiniteSet(0..(Blocks - 1))
  BY <1>1, FS_Interval
<1>. QED  BY <1>2, FS_Product, PoolAssumption DEF Packet

\* The packets of a set of references.
LEMMA Seconds ==
  ASSUME NEW R \in SUBSET (Thread \X Packet), NEW p
  PROVE  p \in {r[2] : r \in R} <=> \E t \in Thread : <<t, p>> \in R
<1>1. ASSUME NEW t \in Thread, <<t, p>> \in R PROVE p \in {r[2] : r \in R}
  <2>1. <<t, p>>[2] = p
    OBVIOUS
  <2>. QED  BY <1>1, <2>1
<1>2. ASSUME NEW r \in R, p = r[2] PROVE \E t \in Thread : <<t, p>> \in R
  <2>1. r = <<r[1], r[2]>> /\ r[1] \in Thread
    OBVIOUS
  <2>. QED  BY <1>2, <2>1
<1>. QED  BY <1>1, <1>2

\* The packets that have an owner.
LEMMA InHeld ==
  ASSUME NEW p
  PROVE  /\ PoolType => (p \in Held <=> \E t \in Thread : <<t, p>> \in refs)
         /\ PoolType' => (p \in Held' <=> \E t \in Thread : <<t, p>> \in refs')
  BY Seconds DEF Held, PoolType

\* The packets in use: owned, or in the hands of a thread.
LEMMA InLive ==
  ASSUME NEW p
  PROVE  /\ PoolType => (p \in Live <=> \/ \E t \in Thread : Busy(t) /\ cur[t] = p
                                        \/ \E t \in Thread : <<t, p>> \in refs)
         /\ PoolType' => (p \in Live' <=> \/ \E t \in Thread : Busy(t)' /\ cur'[t] = p
                                          \/ \E t \in Thread : <<t, p>> \in refs')
<1>1. p \in Live <=> (\E t \in Thread : Busy(t) /\ cur[t] = p) \/ p \in Held
  BY DEF Live, At, Busy, Held
<1>2. p \in Live' <=> (\E t \in Thread : Busy(t)' /\ cur'[t] = p) \/ p \in Held'
  BY DEF Live, At, Busy, Held
<1>. QED  BY <1>1, <1>2, InHeld

\* A live packet is a packet.
LEMMA LivePackets ==
  /\ PoolType => Live \subseteq Packet /\ Held \subseteq Packet
  /\ PoolType' => Live' \subseteq Packet /\ Held' \subseteq Packet
  BY DEF Live, Held, At, Busy, PoolType

\* The sets that are counted are finite.
LEMMA Finite ==
  /\ PoolType => /\ IsFiniteSet(Held) /\ \A c : IsFiniteSet(LiveIn(c))
                 /\ \A p : IsFiniteSet(Owners(p)) /\ \A L : IsFiniteSet(At(L))
  /\ PoolType' => /\ IsFiniteSet(Held') /\ \A c : IsFiniteSet(LiveIn(c)')
                  /\ \A p : IsFiniteSet(Owners(p)')
<1>1. ASSUME PoolType PROVE IsFiniteSet(Held) /\ \A c : IsFiniteSet(LiveIn(c))
  BY <1>1, LivePackets, PacketsFinite, FS_Subset DEF LiveIn
<1>2. ASSUME PoolType' PROVE IsFiniteSet(Held') /\ \A c : IsFiniteSet(LiveIn(c)')
  BY <1>2, LivePackets, PacketsFinite, FS_Subset DEF LiveIn
<1>3. IsFiniteSet(Thread)
  BY PoolAssumption
<1>4. \A p : IsFiniteSet(Owners(p)) /\ IsFiniteSet(Owners(p)')
  BY <1>3, FS_Subset DEF Owners
<1>5. \A L : IsFiniteSet(At(L))
  BY <1>3, FS_Subset DEF At
<1>. QED  BY <1>1, <1>2, <1>4, <1>5

-----------------------------------------------------------------------------
(* Types. *)

\* PacketPool starts with its types ...
LEMMA InitType == Init => PoolType
  BY PoolAssumption DEF Init, PoolType, Label

\* What RentChunk does to the types.
LEMMA RentChunkType ==
  ASSUME PoolType, NEW t \in Thread, NEW c \in pooled, RentChunk(t, c)
  PROVE  /\ pooled' \in SUBSET Chunk /\ tls' \in [Thread -> Chunk \cup {Null}]
         /\ index' \in [Chunk -> 0..Blocks] /\ free' \in [Chunk -> Int]
         /\ refCount' \in [Packet -> Int]
  BY PoolAssumption DEF PoolType, RentChunk

\* ... and every step keeps them.
LEMMA TypeStep == PoolType /\ TlsInv /\ [Next]_vars => PoolType'
<1> SUFFICES ASSUME PoolType, TlsInv, [Next]_vars PROVE PoolType'
  OBVIOUS
<1>1. ASSUME NEW t \in Thread, RentFirst(t) PROVE PoolType'
  <2>1. PICK c \in pooled : RentChunk(t, c)
    BY <1>1 DEF RentFirst
  <2>. QED  BY <1>1, <2>1, RentChunkType DEF RentFirst, Goto, PoolType, Label
<1>2. ASSUME NEW t \in Thread, RentBlock(t) PROVE PoolType'
  <2>1. /\ tls[t] \in Chunk /\ pc[t] # "swap"
        /\ index[tls[t]] \in 1..Blocks
    BY <1>2, PoolAssumption DEF RentBlock, PoolType, TlsInv
  <2>2. index' \in [Chunk -> 0..Blocks] /\ cur'[t] \in Packet /\ DOMAIN cur' = Thread
    BY <1>2, <2>1, PoolAssumption DEF RentBlock, PoolType, Packet
  <2>. QED  BY <1>2, <2>2 DEF RentBlock, Goto, PoolType, Label
<1>3. ASSUME NEW t \in Thread, SwapChunk(t) PROVE PoolType'
  <2>1. PICK c \in pooled : RentChunk(t, c)
    BY <1>3 DEF SwapChunk
  <2>. QED  BY <1>3, <2>1, RentChunkType DEF SwapChunk, Goto, PoolType, Label
<1>4. ASSUME NEW t \in Thread, Construct(t) PROVE PoolType'
  BY <1>4 DEF Construct, Goto, PoolType, Label
<1>5. ASSUME NEW t \in Thread, NEW p \in Packet, TryFree(t, p) PROVE PoolType'
  BY <1>5 DEF TryFree, Goto, PoolType, Label
<1>6. ASSUME NEW t \in Thread, NEW p \in Packet, NEW u \in Thread, Share(t, u, p) PROVE PoolType'
  BY <1>6 DEF Share, PoolType, Label
<1>7. ASSUME NEW t \in Thread, Return(t) PROVE PoolType'
  <2>1. cur[t][1] \in Chunk
    BY <1>7 DEF Return, PoolType, Packet
  <2>. QED  BY <1>7, <2>1 DEF Return, Goto, PoolType, Label
<1>8. ASSUME NEW t \in Thread, ReturnChunk(t) PROVE PoolType'
  <2>1. cur[t][1] \in Chunk
    BY <1>8 DEF ReturnChunk, PoolType, Packet
  <2>. QED  BY <1>8, <2>1 DEF ReturnChunk, Goto, PoolType, Label
<1>9. ASSUME NEW t \in Thread, CountDown(t) PROVE PoolType'
  BY <1>9 DEF CountDown, Goto, PoolType, Label
<1>10. CASE UNCHANGED vars
  BY <1>10 DEF vars, PoolType
<1>. QED  BY <1>1, <1>2, <1>3, <1>4, <1>5, <1>6, <1>7, <1>8, <1>9, <1>10 DEF Next

-----------------------------------------------------------------------------
(* The steps that rent. *)

Frees == {"return", "return_chunk", "count_down"}

\* The count of packets in use stays exact if nothing that is counted moves.
LEMMA SizeKept ==
  ASSUME UsedSizeIsExact, size' = size, refs' = refs, At(Frees)' = At(Frees)
  PROVE  UsedSizeIsExact'
  BY DEF UsedSizeIsExact, Frees

\* A packet that is counted or owned is live.
LEMMA OwnedIsLive ==
  ASSUME PoolType, NEW p, Owners(p) # {}
  PROVE  p \in Live /\ p \in Packet
  BY InLive, LivePackets DEF Owners

\* RentFirst and SwapChunk: a chunk leaves the pool for a thread-local slot.
LEMMA RentChunkStep ==
  ASSUME IInv, PoolType', NEW t \in Thread, NEW c \in pooled, RentChunk(t, c),
         pc[t] \in {"idle", "swap"}, pc[t] = "idle" => tls[t] = Null,
         Goto(t, IF pc[t] = "idle" THEN "rent" ELSE "construct"),
         refs' = refs, cur' = cur, size' = size
  PROVE  IInv'
<1> USE DEF IInv
<1>1. c \in Chunk /\ Blocks \in Nat \ {0} /\ Null \notin Chunk
  BY PoolAssumption DEF PoolType
<1>2. /\ \A u \in Thread \ {t} : pc'[u] = pc[u] /\ tls'[u] = tls[u]
      /\ tls'[t] = c /\ pc'[t] = IF pc[t] = "idle" THEN "rent" ELSE "construct"
      /\ \A d \in Chunk \ {c} : index'[d] = index[d] /\ free'[d] = free[d]
      /\ index'[c] = Blocks /\ free'[c] = Blocks /\ pooled' = pooled \ {c}
  BY <1>1 DEF RentChunk, Goto, PoolType
<1>3. \A u \in Thread : Busy(u)' <=> Busy(u)
  BY <1>2 DEF Busy
<1>4. Live' = Live
  BY <1>3, InLive
<1>5. \A p \in Live : p[1] \in Chunk \ {c}
  BY LivePackets DEF PlaceInv, Packet
<1>6. \A u \in Thread : tls[u] # c
  BY <1>1 DEF TlsInv
<1>7. \A u \in Thread : /\ pc'[u] = "return_chunk" <=> pc[u] = "return_chunk"
                        /\ pc[u] = "return_chunk" => cur[u][1] \in Chunk \ {c}
  BY <1>2 DEF ReturnInv, PoolType, Packet
<1>8. HandsInv'
  BY <1>3 DEF HandsInv
<1>9. PlaceInv'
  BY <1>2, <1>4, <1>5 DEF PlaceInv
<1>10. TlsInv'
  <2> SUFFICES ASSUME NEW u \in Thread
               PROVE  /\ tls'[u] # Null =>
                           /\ tls'[u] \notin pooled'
                           /\ \A w \in Thread : tls'[w] = tls'[u] => w = u
                           /\ pc'[u] # "swap" => index'[tls'[u]] > 0
                      /\ pc'[u] = "swap" => tls'[u] = cur'[u][1] /\ index'[tls'[u]] = 0
    BY DEF TlsInv
  <2>1. CASE u = t
    BY <1>1, <1>2, <1>6, <2>1
  <2>2. CASE u # t
    <3>1. tls'[u] = tls[u] /\ pc'[u] = pc[u] /\ tls[u] # c
      BY <1>2, <1>6, <2>2
    <3>2. pc[u] = "swap" => cur[u] \in Packet
      BY DEF PoolType
    <3>3. tls[u] # Null \/ pc[u] = "swap" => tls[u] \in Chunk \ {c}
      BY <3>1, <3>2 DEF PoolType, TlsInv, Packet
    <3>. QED  BY <1>1, <1>2, <1>6, <3>1, <3>3 DEF TlsInv
  <2>. QED  BY <2>1, <2>2
<1>11. ReturnInv'
  BY <1>2, <1>7 DEF ReturnInv
<1>12. CountInv'
  <2>1. \A d : LiveIn(d)' = LiveIn(d)
    BY <1>4 DEF LiveIn
  <2>2. Cardinality(LiveIn(c)) = 0
    <3>1. LiveIn(c) = {}
      BY <1>5 DEF LiveIn
    <3>. QED  BY <3>1, FS_EmptySet
  <2> SUFFICES ASSUME NEW d \in Chunk \ pooled'
               PROVE  /\ free'[d] = index'[d] + Cardinality(LiveIn(d))
                      /\ index'[d] = 0 \/ \E u \in Thread : tls'[u] = d
                      /\ free'[d] = 0 => \E u \in Thread : pc'[u] = "return_chunk" /\ cur'[u][1] = d
    BY <2>1 DEF CountInv
  <2>3. CASE d = c
    BY <1>1, <1>2, <2>2, <2>3
  <2>4. CASE d # c
    <3>1. d \in Chunk \ pooled /\ free'[d] = free[d] /\ index'[d] = index[d]
      BY <1>2, <2>4
    <3>2. index[d] = 0 \/ \E u \in Thread : tls'[u] = d
      <4>1. CASE tls[t] = d
        BY <1>1, <4>1 DEF TlsInv
      <4>2. CASE tls[t] # d
        BY <1>2, <3>1, <4>2 DEF CountInv
      <4>. QED  BY <4>1, <4>2
    <3>. QED  BY <1>7, <3>1, <3>2 DEF CountInv
  <2>. QED  BY <2>3, <2>4
<1>13. RefInv'
  <2> SUFFICES ASSUME NEW p \in Packet, Owners(p)' # {}
               PROVE  refCount'[p] = Cardinality(Owners(p)')
    BY DEF RefInv
  <2>1. Owners(p)' = Owners(p)
    BY DEF Owners
  <2>2. p[1] # c
    BY <1>5, <2>1, OwnedIsLive
  <2>. QED  BY <2>1, <2>2 DEF RefInv, RentChunk
<1>14. UsedSizeIsExact'
  <2>1. At(Frees)' = At(Frees)
    BY <1>2 DEF At, Frees
  <2>. QED  BY <2>1, SizeKept
<1>. QED  BY <1>8, <1>9, <1>10, <1>11, <1>12, <1>13, <1>14

\* The next block of a thread's chunk becomes live.
LEMMA RentBlockStep ==
  ASSUME IInv, PoolType', NEW t \in Thread, RentBlock(t)
  PROVE  IInv'
<1> USE DEF IInv
<1> DEFINE c == tls[t]
           b == <<c, index[c] - 1>>
<1>1. /\ c \in Chunk \ pooled /\ pc[t] \in {"idle", "rent"}
      /\ index[c] \in 1..Blocks /\ Null \notin Chunk
  BY PoolAssumption DEF RentBlock, PoolType, TlsInv
<1>2. /\ \A u \in Thread \ {t} : pc'[u] = pc[u] /\ cur'[u] = cur[u]
      /\ cur'[t] = b /\ pc'[t] = IF index[c] - 1 = 0 THEN "swap" ELSE "construct"
      /\ \A d \in Chunk \ {c} : index'[d] = index[d]
      /\ index'[c] = index[c] - 1
      /\ tls' = tls /\ pooled' = pooled /\ refs' = refs
      /\ free' = free /\ refCount' = refCount /\ size' = size
  BY <1>1 DEF RentBlock, Goto, PoolType
<1>3. b \in Packet /\ b \notin Live /\ b[1] = c /\ b[2] = index[c] - 1
  BY <1>1, PoolAssumption DEF PlaceInv, Packet
<1>4. /\ \A u \in Thread \ {t} : Busy(u)' <=> Busy(u)
      /\ Busy(t)' /\ ~Busy(t)
  BY <1>1, <1>2 DEF Busy
<1>5. Live' = Live \cup {b}
  <2> SUFFICES ASSUME NEW p PROVE p \in Live' <=> p \in Live \/ p = b
    OBVIOUS
  <2>. QED  BY <1>2, <1>4, InLive
<1>6. \A u \in Thread : Busy(u) => cur[u] # b
  BY <1>3, InLive
<1>7. \A u \in Thread : <<u, b>> \notin refs
  BY <1>3, InLive
<1>8. \A u \in Thread : /\ pc'[u] = "return_chunk" <=> pc[u] = "return_chunk"
                        /\ pc[u] = "return_chunk" => u # t /\ cur'[u] = cur[u] /\ cur[u][1] \in Chunk \ {c}
  BY <1>1, <1>2 DEF ReturnInv, PoolType, Packet
<1>9. HandsInv'
  <2> SUFFICES ASSUME NEW u \in Thread, Busy(u)'
               PROVE  /\ \A w \in Thread : Busy(w)' /\ cur'[w] = cur'[u] => w = u
                      /\ \A w \in Thread : <<w, cur'[u]>> \notin refs
    BY <1>2 DEF HandsInv
  <2>. QED  BY <1>2, <1>4, <1>6, <1>7 DEF HandsInv
<1>10. PlaceInv'
  <2> SUFFICES ASSUME NEW p \in Live' PROVE p[1] \notin pooled /\ p[2] >= index'[p[1]]
    BY <1>2 DEF PlaceInv
  <2>1. CASE p = b
    BY <1>1, <1>2, <1>3, <2>1
  <2>2. CASE p \in Live
    <3>1. p[1] \in Chunk /\ p[2] \in Int /\ p[1] \notin pooled /\ p[2] >= index[p[1]]
      BY <2>2, LivePackets, PoolAssumption DEF Packet, PlaceInv
    <3>2. index[p[1]] \in Int /\ index'[p[1]] \in Int /\ index'[p[1]] =< index[p[1]]
      BY <1>1, <1>2, <3>1 DEF PoolType
    <3>. QED  BY <3>1, <3>2
  <2>. QED  BY <1>5, <2>1, <2>2
<1>11. TlsInv'
  <2> SUFFICES ASSUME NEW u \in Thread
               PROVE  /\ tls[u] # Null =>
                           /\ tls[u] \notin pooled
                           /\ \A w \in Thread : tls[w] = tls[u] => w = u
                           /\ pc'[u] # "swap" => index'[tls[u]] > 0
                      /\ pc'[u] = "swap" => tls[u] = cur'[u][1] /\ index'[tls[u]] = 0
    BY <1>2 DEF TlsInv
  <2>1. CASE u = t
    <3>1. tls[u] \notin pooled /\ \A w \in Thread : tls[w] = tls[u] => w = u
      BY <1>1, <2>1 DEF TlsInv
    <3>. QED  BY <1>1, <1>2, <1>3, <2>1, <3>1
  <2>2. CASE u # t
    <3>1. tls[u] # Null => tls[u] \in Chunk \ {c}
      BY <1>1, <2>2 DEF TlsInv, PoolType
    <3>2. pc[u] = "swap" => tls[u] # Null
      BY <1>1 DEF TlsInv, PoolType, Packet
    <3>. QED  BY <1>2, <2>2, <3>1, <3>2 DEF TlsInv
  <2>. QED  BY <2>1, <2>2
<1>12. ReturnInv'
  BY <1>2, <1>8 DEF ReturnInv
<1>13. CountInv'
  <2> SUFFICES ASSUME NEW d \in Chunk \ pooled
               PROVE  /\ free[d] = index'[d] + Cardinality(LiveIn(d)')
                      /\ index'[d] = 0 \/ \E u \in Thread : tls[u] = d
                      /\ free[d] = 0 => \E u \in Thread : pc'[u] = "return_chunk" /\ cur'[u][1] = d
    BY <1>2 DEF CountInv
  <2>0. IsFiniteSet(LiveIn(d)) /\ Cardinality(LiveIn(d)) \in Nat
    BY Finite, FS_CardinalityType
  <2>1. CASE d = c
    <3>1. LiveIn(d)' = LiveIn(d) \cup {b} /\ b \notin LiveIn(d)
      BY <1>3, <1>5, <2>1 DEF LiveIn
    <3>2. Cardinality(LiveIn(d)') = Cardinality(LiveIn(d)) + 1
      BY <2>0, <3>1, FS_AddElement
    <3>3. free[d] = index[d] + Cardinality(LiveIn(d))
      BY <1>1, <2>1 DEF CountInv
    <3>. QED  BY <1>1, <1>2, <2>0, <2>1, <3>2, <3>3
  <2>2. CASE d # c
    <3>1. LiveIn(d)' = LiveIn(d)
      BY <1>3, <1>5, <2>2 DEF LiveIn
    <3>. QED  BY <1>2, <1>8, <2>2, <3>1 DEF CountInv
  <2>. QED  BY <2>1, <2>2
<1>14. RefInv'
  BY <1>2 DEF RefInv, Owners
<1>15. UsedSizeIsExact'
  <2>1. At(Frees)' = At(Frees)
    BY <1>1, <1>2 DEF At, Frees
  <2>. QED  BY <1>2, <2>1, SizeKept
<1>. QED  BY <1>9, <1>10, <1>11, <1>12, <1>13, <1>14, <1>15

-----------------------------------------------------------------------------
(* Steps that change neither the pool, the chunks nor what is live. *)

\* The chunks are as they were; t's registers are at most what changes.
ChunksKept(t) ==
  /\ pooled' = pooled /\ tls' = tls /\ index' = index /\ free' = free
  /\ \A u \in Thread \ {t} : pc'[u] = pc[u] /\ cur'[u] = cur[u]
  /\ pc[t] \notin {"swap", "return_chunk"} /\ pc'[t] \notin {"swap", "return_chunk"}

\* A step that touches neither chunks nor thread-local slots keeps what is said of them.
LEMMA ChunksKeptStep ==
  ASSUME IInv, PoolType', NEW t \in Thread, ChunksKept(t), Live' = Live
  PROVE  PlaceInv' /\ TlsInv' /\ ReturnInv' /\ CountInv'
<1>1. /\ \A u \in Thread : pc'[u] = "swap" <=> pc[u] = "swap"
      /\ \A u \in Thread : pc'[u] = "return_chunk" <=> pc[u] = "return_chunk"
      /\ \A u \in Thread : pc[u] \in {"swap", "return_chunk"} => cur'[u] = cur[u]
  BY DEF ChunksKept
<1>2. \A c : LiveIn(c)' = LiveIn(c)
  BY DEF LiveIn
<1>3. PlaceInv'
  BY DEF IInv, PlaceInv, ChunksKept
<1>4. TlsInv'
  BY <1>1 DEF IInv, TlsInv, ChunksKept
<1>5. ReturnInv'
  BY <1>1 DEF IInv, ReturnInv, ChunksKept
<1>6. CountInv'
  BY <1>1, <1>2 DEF IInv, CountInv, ChunksKept
<1>. QED  BY <1>3, <1>4, <1>5, <1>6

\* AddRef of a new packet: out of the thread's hands, into the references.
LEMMA ConstructStep ==
  ASSUME IInv, PoolType', NEW t \in Thread, Construct(t)
  PROVE  IInv'
<1> USE DEF IInv
<1> DEFINE b == cur[t]
<1>1. /\ pc[t] = "construct" /\ b \in Packet /\ pc'[t] = "idle"
      /\ \A u \in Thread \ {t} : pc'[u] = pc[u]
      /\ cur' = cur /\ refs' = refs \cup {<<t, b>>} /\ size' = size + 1
      /\ refCount'[b] = 1 /\ \A p \in Packet \ {b} : refCount'[p] = refCount[p]
  BY DEF Construct, Goto, PoolType
<1>2. /\ \A u \in Thread \ {t} : Busy(u)' <=> Busy(u)
      /\ Busy(t) /\ ~Busy(t)'
  BY <1>1 DEF Busy
<1>3. \A u \in Thread : <<u, b>> \notin refs
  BY <1>2 DEF HandsInv
<1>4. Live' = Live
  <2> SUFFICES ASSUME NEW p PROVE p \in Live' <=> p \in Live
    OBVIOUS
  <2>. QED  BY <1>1, <1>2, InLive
<1>5. HandsInv'
  <2> SUFFICES ASSUME NEW u \in Thread, Busy(u)'
               PROVE  /\ \A w \in Thread : Busy(w)' /\ cur[w] = cur[u] => w = u
                      /\ \A w \in Thread : <<w, cur[u]>> \notin refs'
    BY <1>1 DEF HandsInv
  <2>1. u # t /\ Busy(u) /\ cur[u] # b
    BY <1>2 DEF HandsInv
  <2>. QED  BY <1>1, <1>2, <2>1 DEF HandsInv
<1>6. PlaceInv' /\ TlsInv' /\ ReturnInv' /\ CountInv'
  BY <1>1, <1>4, ChunksKeptStep DEF ChunksKept, Construct
<1>7. RefInv'
  <2> SUFFICES ASSUME NEW p \in Packet, Owners(p)' # {}
               PROVE  refCount'[p] = Cardinality(Owners(p)')
    BY DEF RefInv
  <2>1. CASE p = b
    <3>1. Owners(p)' = {t}
      BY <1>1, <1>3, <2>1 DEF Owners
    <3>. QED  BY <1>1, <2>1, <3>1, FS_Singleton
  <2>2. CASE p # b
    <3>1. Owners(p)' = Owners(p)
      BY <1>1, <2>2 DEF Owners
    <3>. QED  BY <1>1, <2>2, <3>1 DEF RefInv
  <2>. QED  BY <2>1, <2>2
<1>8. UsedSizeIsExact'
  <2>1. At(Frees)' = At(Frees)
    BY <1>1 DEF At, Frees
  <2>2. Held' = Held \cup {b} /\ b \notin Held
    <3>1. b \notin Held
      BY <1>3, InHeld
    <3>2. ASSUME NEW p PROVE p \in Held' <=> p \in Held \/ p = b
      BY <1>1, InHeld
    <3>. QED  BY <3>1, <3>2
  <2>3. Cardinality(Held') = Cardinality(Held) + 1
    BY <2>2, Finite, FS_AddElement
  <2>4. Cardinality(Held) \in Nat /\ Cardinality(At(Frees)) \in Nat
    BY Finite, FS_CardinalityType
  <2>. QED  BY <1>1, <2>1, <2>3, <2>4 DEF UsedSizeIsExact, Held, Frees
<1>. QED  BY <1>5, <1>6, <1>7, <1>8

\* AddRef of a packet that is in use.
LEMMA ShareStep ==
  ASSUME IInv, PoolType', NEW t \in Thread, NEW u \in Thread, NEW p \in Packet, Share(t, u, p)
  PROVE  IInv'
<1> USE DEF IInv
<1>1. /\ pc[t] = "idle" /\ <<t, p>> \in refs /\ <<u, p>> \notin refs
      /\ pc' = pc /\ cur' = cur /\ size' = size /\ refs' = refs \cup {<<u, p>>}
      /\ refCount'[p] = refCount[p] + 1
      /\ \A q \in Packet \ {p} : refCount'[q] = refCount[q]
  BY DEF Share, PoolType
<1>2. \A w \in Thread : Busy(w)' <=> Busy(w)
  BY <1>1 DEF Busy
<1>3. Live' = Live
  <2> SUFFICES ASSUME NEW q PROVE q \in Live' <=> q \in Live
    OBVIOUS
  <2>. QED  BY <1>1, <1>2, InLive
<1>4. HandsInv'
  <2> SUFFICES ASSUME NEW w \in Thread, Busy(w)
               PROVE  /\ \A x \in Thread : Busy(x) /\ cur[x] = cur[w] => x = w
                      /\ \A x \in Thread : <<x, cur[w]>> \notin refs'
    BY <1>1, <1>2 DEF HandsInv
  <2>1. cur[w] # p
    BY <1>1 DEF HandsInv
  <2>. QED  BY <1>1, <2>1 DEF HandsInv
<1>5. PlaceInv' /\ TlsInv' /\ ReturnInv' /\ CountInv'
  BY <1>1, <1>3, ChunksKeptStep DEF ChunksKept, Share
<1>6. RefInv'
  <2> SUFFICES ASSUME NEW q \in Packet, Owners(q)' # {}
               PROVE  refCount'[q] = Cardinality(Owners(q)')
    BY DEF RefInv
  <2>1. CASE q = p
    <3>1. Owners(p)' = Owners(p) \cup {u} /\ u \notin Owners(p) /\ Owners(p) # {}
      BY <1>1 DEF Owners
    <3>2. Cardinality(Owners(p)') = Cardinality(Owners(p)) + 1
      BY <3>1, Finite, FS_AddElement
    <3>. QED  BY <1>1, <2>1, <3>1, <3>2 DEF RefInv
  <2>2. CASE q # p
    <3>1. Owners(q)' = Owners(q)
      BY <1>1, <2>2 DEF Owners
    <3>. QED  BY <1>1, <2>2, <3>1 DEF RefInv
  <2>. QED  BY <2>1, <2>2
<1>7. UsedSizeIsExact'
  <2>1. At(Frees)' = At(Frees)
    BY <1>1 DEF At
  <2>2. Held' = Held
    <3>1. ASSUME NEW q PROVE q \in Held' <=> q \in Held
      BY <1>1, InHeld
    <3>. QED  BY <3>1
  <2>. QED  BY <1>1, <2>1, <2>2 DEF UsedSizeIsExact, Held, Frees
<1>. QED  BY <1>4, <1>5, <1>6, <1>7

\* SubRef: the last reference puts the packet into the thread's hands.
LEMMA TryFreeStep ==
  ASSUME IInv, PoolType', NEW t \in Thread, NEW p \in Packet, TryFree(t, p)
  PROVE  IInv'
<1> USE DEF IInv
<1>1. /\ pc[t] = "idle" /\ <<t, p>> \in refs
      /\ \A u \in Thread \ {t} : pc'[u] = pc[u] /\ cur'[u] = cur[u]
      /\ cur'[t] = p /\ pc'[t] = IF refCount[p] - 1 = 0 THEN "return" ELSE "idle"
      /\ size' = size /\ refs' = refs \ {<<t, p>>}
      /\ refCount'[p] = refCount[p] - 1
      /\ \A q \in Packet \ {p} : refCount'[q] = refCount[q]
  BY DEF TryFree, Goto, PoolType
<1>2. /\ \A u \in Thread \ {t} : Busy(u)' <=> Busy(u)
      /\ ~Busy(t) /\ (Busy(t)' <=> refCount[p] - 1 = 0)
  BY <1>1 DEF Busy
<1>3. /\ Owners(p)' = Owners(p) \ {t} /\ t \in Owners(p)
      /\ \A q : q # p => Owners(q)' = Owners(q)
  BY <1>1 DEF Owners
<1>4. /\ refCount[p] = Cardinality(Owners(p)) /\ refCount[p] \in Nat
      /\ Cardinality(Owners(p)') = refCount[p] - 1
  <2>1. refCount[p] = Cardinality(Owners(p)) /\ Cardinality(Owners(p)) \in Nat
    BY <1>3, Finite, FS_CardinalityType DEF RefInv
  <2>. QED  BY <1>3, <2>1, Finite, FS_RemoveElement
<1>5. refCount[p] - 1 = 0 <=> \A u \in Thread : <<u, p>> \notin refs'
  <2>1. refCount[p] - 1 = 0 <=> Owners(p)' = {}
    BY <1>4, Finite, FS_EmptySet
  <2>. QED  BY <2>1 DEF Owners
<1>6. \A u \in Thread : Busy(u) => cur[u] # p
  BY <1>1 DEF HandsInv
<1>7. Live' = Live
  <2> SUFFICES ASSUME NEW q PROVE q \in Live' <=> q \in Live
    OBVIOUS
  <2>1. CASE q = p
    <3>1. p \in Live
      BY <1>1, InLive
    <3>2. p \in Live'
      BY <1>1, <1>2, <1>5, InLive
    <3>. QED  BY <2>1, <3>1, <3>2
  <2>2. CASE q # p
    <3>1. \A u \in Thread : Busy(u)' /\ cur'[u] = q <=> Busy(u) /\ cur[u] = q
      BY <1>1, <1>2, <2>2
    <3>2. \A u \in Thread : <<u, q>> \in refs' <=> <<u, q>> \in refs
      BY <1>1, <2>2
    <3>. QED  BY <3>1, <3>2, InLive
  <2>. QED  BY <2>1, <2>2
<1>8. HandsInv'
  <2> SUFFICES ASSUME NEW u \in Thread, Busy(u)'
               PROVE  /\ \A w \in Thread : Busy(w)' /\ cur'[w] = cur'[u] => w = u
                      /\ \A w \in Thread : <<w, cur'[u]>> \notin refs'
    BY DEF HandsInv
  <2>1. CASE u = t
    BY <1>1, <1>2, <1>5, <1>6, <2>1
  <2>2. CASE u # t
    <3>1. Busy(u) /\ cur'[u] = cur[u] /\ cur[u] # p
      BY <1>1, <1>2, <1>6, <2>2
    <3>. QED  BY <1>1, <1>2, <3>1 DEF HandsInv
  <2>. QED  BY <2>1, <2>2
<1>9. PlaceInv' /\ TlsInv' /\ ReturnInv' /\ CountInv'
  BY <1>1, <1>7, ChunksKeptStep DEF ChunksKept, TryFree
<1>10. RefInv'
  <2> SUFFICES ASSUME NEW q \in Packet, Owners(q)' # {}
               PROVE  refCount'[q] = Cardinality(Owners(q)')
    BY DEF RefInv
  <2>. QED  BY <1>1, <1>3, <1>4 DEF RefInv
<1>11. UsedSizeIsExact'
  <2>1. Cardinality(Held) \in Nat /\ Cardinality(At(Frees)) \in Nat
    BY Finite, FS_CardinalityType
  <2>2. \A q : q # p => (q \in Held' <=> q \in Held)
    BY <1>1, InHeld
  <2>3. p \in Held
    BY <1>1, InHeld
  <2>4. CASE refCount[p] - 1 = 0
    <3>1. Held' = Held \ {p}
      BY <1>5, <2>2, <2>4, InHeld
    <3>2. Cardinality(Held') = Cardinality(Held) - 1
      BY <2>3, <3>1, Finite, FS_RemoveElement
    <3>3. At(Frees)' = At(Frees) \cup {t} /\ t \notin At(Frees)
      BY <1>1, <2>4 DEF At, Frees
    <3>4. Cardinality(At(Frees)') = Cardinality(At(Frees)) + 1
      BY <3>3, Finite, FS_AddElement
    <3>. QED  BY <1>1, <2>1, <3>2, <3>4 DEF UsedSizeIsExact, Held, Frees
  <2>5. CASE refCount[p] - 1 # 0
    <3>1. Held' = Held
      BY <1>5, <2>2, <2>3, <2>5, InHeld
    <3>2. At(Frees)' = At(Frees)
      BY <1>1, <2>5 DEF At, Frees
    <3>. QED  BY <1>1, <3>1, <3>2 DEF UsedSizeIsExact, Held, Frees
  <2>. QED  BY <2>4, <2>5
<1>. QED  BY <1>8, <1>9, <1>10, <1>11

-----------------------------------------------------------------------------
(* The steps that give back. *)

\* A returner's chunk has neither live packets nor a renter.
LEMMA ReturnedIsEmpty ==
  ASSUME IInv, NEW t \in Thread, pc[t] = "return_chunk"
  PROVE  /\ cur[t][1] \in Chunk \ pooled
         /\ LiveIn(cur[t][1]) = {} /\ \A u \in Thread : tls[u] # cur[t][1]
<1> DEFINE c == cur[t][1]
<1>1. c \in Chunk \ pooled /\ index[c] = 0 /\ free[c] = 0
  BY DEF IInv, PoolType, ReturnInv, Packet
<1>2. Cardinality(LiveIn(c)) \in Nat
  BY Finite, FS_CardinalityType DEF IInv
<1>3. Cardinality(LiveIn(c)) = 0
  BY <1>1, <1>2 DEF IInv, CountInv
<1>4. LiveIn(c) = {}
  BY <1>3, Finite, FS_EmptySet DEF IInv
<1>5. ASSUME NEW u \in Thread, tls[u] = c PROVE FALSE
  <2>1. pc[u] = "swap" /\ c # Null
    BY <1>1, <1>5, PoolAssumption DEF IInv, TlsInv
  <2>2. cur[u] \in Live /\ cur[u][1] = c
    BY <1>5, <2>1, InLive DEF IInv, TlsInv, Busy
  <2>. QED  BY <1>4, <2>2 DEF LiveIn
<1>. QED  BY <1>1, <1>4, <1>5

\* A block goes back to its chunk; the last one makes its thread the returner.
LEMMA ReturnStep ==
  ASSUME IInv, PoolType', NEW t \in Thread, Return(t)
  PROVE  IInv'
<1> USE DEF IInv
<1> DEFINE b == cur[t]
           c == b[1]
<1>1. /\ pc[t] = "return" /\ b \in Packet /\ c \in Chunk /\ cur' = cur
      /\ \A u \in Thread \ {t} : pc'[u] = pc[u]
      /\ pc'[t] = IF free[c] - 1 = 0 THEN "return_chunk" ELSE "count_down"
      /\ free'[c] = free[c] - 1 /\ \A d \in Chunk \ {c} : free'[d] = free[d]
      /\ pooled' = pooled /\ tls' = tls /\ index' = index /\ refs' = refs
      /\ refCount' = refCount /\ size' = size
  BY DEF Return, Goto, PoolType, Packet
<1>2. /\ \A u \in Thread \ {t} : Busy(u)' <=> Busy(u)
      /\ Busy(t) /\ ~Busy(t)'
  BY <1>1 DEF Busy
<1>3. Live' = Live \ {b} /\ b \in Live
  <2>1. b \in Live
    BY <1>2, InLive
  <2>2. ASSUME NEW p PROVE p \in Live' <=> p \in Live /\ p # b
    <3>1. CASE p = b
      <4>1. \A u \in Thread : ~(Busy(u)' /\ cur[u] = b) /\ <<u, b>> \notin refs
        BY <1>2 DEF HandsInv
      <4>. QED  BY <1>1, <3>1, <4>1, InLive
    <3>2. CASE p # b
      <4>1. \A u \in Thread : Busy(u)' /\ cur[u] = p <=> Busy(u) /\ cur[u] = p
        BY <1>2, <3>2
      <4>. QED  BY <1>1, <3>2, <4>1, InLive
    <3>. QED  BY <3>1, <3>2
  <2>. QED  BY <2>1, <2>2
<1>4. /\ c \notin pooled /\ b \in LiveIn(c) /\ LiveIn(c)' = LiveIn(c) \ {b}
      /\ \A d : d # c => LiveIn(d)' = LiveIn(d)
  BY <1>1, <1>3 DEF PlaceInv, LiveIn
<1>5. /\ Cardinality(LiveIn(c)') \in Nat
      /\ Cardinality(LiveIn(c)) = Cardinality(LiveIn(c)') + 1
  <2>1. Cardinality(LiveIn(c)) \in Nat /\ IsFiniteSet(LiveIn(c))
    BY Finite, FS_CardinalityType
  <2>2. Cardinality(LiveIn(c)') \in Nat
    BY Finite, FS_CardinalityType
  <2>3. Cardinality(LiveIn(c) \ {b}) = Cardinality(LiveIn(c)) - 1
    BY <1>4, <2>1, FS_RemoveElement
  <2>. QED  BY <1>4, <2>1, <2>2, <2>3
<1>6. index[c] \in Nat /\ free'[c] = index[c] + Cardinality(LiveIn(c)') /\ free'[c] \in Nat
  <2>1. free[c] = index[c] + Cardinality(LiveIn(c)) /\ index[c] \in Nat
    BY <1>1, <1>4, PoolAssumption DEF CountInv, PoolType
  <2>. QED  BY <1>1, <1>5, <2>1
<1>7. \A u \in Thread : pc[u] = "return_chunk" => cur[u][1] \in Chunk \ {c}
  <2> SUFFICES ASSUME NEW u \in Thread, pc[u] = "return_chunk" PROVE cur[u][1] \in Chunk \ {c}
    OBVIOUS
  <2>. QED  BY <1>4, ReturnedIsEmpty
<1>8. HandsInv'
  BY <1>1, <1>2 DEF HandsInv
<1>9. PlaceInv'
  BY <1>1, <1>3 DEF PlaceInv
<1>10. TlsInv'
  <2>1. \A u \in Thread : pc'[u] = "swap" <=> pc[u] = "swap"
    BY <1>1
  <2>. QED  BY <1>1, <2>1 DEF TlsInv
<1>11. ReturnInv'
  <2> SUFFICES ASSUME NEW u \in Thread, pc'[u] = "return_chunk"
               PROVE  /\ cur[u][1] \notin pooled /\ index[cur[u][1]] = 0 /\ free'[cur[u][1]] = 0
                      /\ \A w \in Thread : pc'[w] = "return_chunk" /\ cur[w][1] = cur[u][1] => w = u
    BY <1>1 DEF ReturnInv
  <2>1. CASE u = t
    <3>1. free'[c] = 0 /\ index[c] = 0
      BY <1>1, <1>5, <1>6, <2>1
    <3>. QED  BY <1>1, <1>4, <1>7, <2>1, <3>1
  <2>2. CASE u # t
    <3>1. pc[u] = "return_chunk" /\ cur[u][1] \in Chunk \ {c}
      BY <1>1, <1>7, <2>2
    <3>. QED  BY <1>1, <3>1 DEF ReturnInv
  <2>. QED  BY <2>1, <2>2
<1>12. CountInv'
  <2> SUFFICES ASSUME NEW d \in Chunk \ pooled
               PROVE  /\ free'[d] = index[d] + Cardinality(LiveIn(d)')
                      /\ index[d] = 0 \/ \E u \in Thread : tls[u] = d
                      /\ free'[d] = 0 => \E u \in Thread : pc'[u] = "return_chunk" /\ cur[u][1] = d
    BY <1>1 DEF CountInv
  <2>1. index[d] = 0 \/ \E u \in Thread : tls[u] = d
    BY DEF CountInv
  <2>2. CASE d = c
    BY <1>1, <1>6, <2>1, <2>2
  <2>3. CASE d # c
    <3>1. free'[d] = free[d] /\ LiveIn(d)' = LiveIn(d)
      BY <1>1, <1>4, <2>3
    <3>2. free[d] = 0 => \E u \in Thread : pc'[u] = "return_chunk" /\ cur[u][1] = d
      BY <1>1 DEF CountInv
    <3>. QED  BY <2>1, <3>1, <3>2 DEF CountInv
  <2>. QED  BY <2>2, <2>3
<1>13. RefInv'
  BY <1>1 DEF RefInv, Owners
<1>14. UsedSizeIsExact'
  <2>1. At(Frees)' = At(Frees)
    BY <1>1 DEF At, Frees
  <2>. QED  BY <1>1, <2>1, SizeKept
<1>. QED  BY <1>8, <1>9, <1>10, <1>11, <1>12, <1>13, <1>14

\* The chunk goes back to the pool.
LEMMA ReturnChunkStep ==
  ASSUME IInv, PoolType', NEW t \in Thread, ReturnChunk(t)
  PROVE  IInv'
<1> USE DEF IInv
<1> DEFINE c == cur[t][1]
<1>1. /\ pc[t] = "return_chunk" /\ pc'[t] = "count_down"
      /\ \A u \in Thread \ {t} : pc'[u] = pc[u]
      /\ pooled' = pooled \cup {c} /\ cur' = cur /\ tls' = tls /\ index' = index
      /\ free' = free /\ refs' = refs /\ refCount' = refCount /\ size' = size
  BY DEF ReturnChunk, Goto, PoolType
<1>2. /\ c \in Chunk \ pooled /\ LiveIn(c) = {}
      /\ \A u \in Thread : tls[u] # c
  BY <1>1, ReturnedIsEmpty
<1>3. \A u \in Thread : Busy(u)' <=> Busy(u)
  BY <1>1 DEF Busy
<1>4. Live' = Live
  BY <1>1, <1>3, InLive
<1>5. HandsInv'
  BY <1>1, <1>3 DEF HandsInv
<1>6. PlaceInv'
  BY <1>1, <1>2, <1>4 DEF PlaceInv, LiveIn
<1>7. TlsInv'
  <2>1. \A u \in Thread : pc'[u] = "swap" <=> pc[u] = "swap"
    BY <1>1
  <2>. QED  BY <1>1, <1>2, <2>1 DEF TlsInv
<1>8. ReturnInv'
  <2>1. \A u \in Thread : pc'[u] = "return_chunk" => u # t /\ pc[u] = "return_chunk" /\ cur[u][1] # c
    BY <1>1 DEF ReturnInv
  <2>. QED  BY <1>1, <2>1 DEF ReturnInv
<1>9. CountInv'
  <2>1. \A d : LiveIn(d)' = LiveIn(d)
    BY <1>4 DEF LiveIn
  <2> SUFFICES ASSUME NEW d \in Chunk \ pooled, d # c
               PROVE  /\ free[d] = index[d] + Cardinality(LiveIn(d))
                      /\ index[d] = 0 \/ \E u \in Thread : tls[u] = d
                      /\ free[d] = 0 => \E u \in Thread : pc'[u] = "return_chunk" /\ cur[u][1] = d
    BY <1>1, <2>1 DEF CountInv
  <2>. QED  BY <1>1 DEF CountInv
<1>10. RefInv'
  BY <1>1 DEF RefInv, Owners
<1>11. UsedSizeIsExact'
  <2>1. At(Frees)' = At(Frees)
    BY <1>1 DEF At, Frees
  <2>. QED  BY <1>1, <2>1, SizeKept
<1>. QED  BY <1>5, <1>6, <1>7, <1>8, <1>9, <1>10, <1>11

\* The monitor's count follows.
LEMMA CountDownStep ==
  ASSUME IInv, PoolType', NEW t \in Thread, CountDown(t)
  PROVE  IInv'
<1> USE DEF IInv
<1>1. /\ pc[t] = "count_down" /\ pc'[t] = "idle"
      /\ \A u \in Thread \ {t} : pc'[u] = pc[u]
      /\ cur' = cur /\ refs' = refs /\ refCount' = refCount /\ size' = size - 1
  BY DEF CountDown, Goto, PoolType
<1>2. \A u \in Thread : Busy(u)' <=> Busy(u)
  BY <1>1 DEF Busy
<1>3. Live' = Live
  BY <1>1, <1>2, InLive
<1>4. HandsInv'
  BY <1>1, <1>2 DEF HandsInv
<1>5. PlaceInv' /\ TlsInv' /\ ReturnInv' /\ CountInv'
  BY <1>1, <1>3, ChunksKeptStep DEF ChunksKept, CountDown
<1>6. RefInv'
  BY <1>1 DEF RefInv, Owners
<1>7. UsedSizeIsExact'
  <2>1. At(Frees)' = At(Frees) \ {t} /\ t \in At(Frees)
    BY <1>1 DEF At, Frees
  <2>2. Cardinality(At(Frees)') = Cardinality(At(Frees)) - 1
    BY <2>1, Finite, FS_RemoveElement
  <2>3. Cardinality(Held) \in Nat /\ Cardinality(At(Frees)) \in Nat
    BY Finite, FS_CardinalityType
  <2>. QED  BY <1>1, <2>2, <2>3 DEF UsedSizeIsExact, Held, Frees
<1>. QED  BY <1>4, <1>5, <1>6, <1>7

-----------------------------------------------------------------------------
(* The invariant and the theorems. *)

\* The invariant holds in the beginning, ...
LEMMA InitIInv == Init => IInv
<1> SUFFICES ASSUME Init PROVE IInv
  OBVIOUS
<1>1. PoolType
  BY InitType
<1>2. Live = {} /\ Held = {} /\ At(Frees) = {}
  BY DEF Init, Live, Held, At, Frees
<1>3. CountInv /\ PlaceInv /\ TlsInv
  BY <1>2 DEF Init, CountInv, PlaceInv, TlsInv
<1>4. HandsInv /\ ReturnInv /\ RefInv
  BY DEF Init, HandsInv, Busy, ReturnInv, RefInv, Owners
<1>5. UsedSizeIsExact
  BY <1>2, FS_EmptySet DEF Init, UsedSizeIsExact, Held, Frees
<1>. QED  BY <1>1, <1>3, <1>4, <1>5 DEF IInv

\* ... every step keeps it, one lemma per operation, ...
LEMMA NextIInv == IInv /\ [Next]_vars => IInv'
<1> SUFFICES ASSUME IInv, [Next]_vars PROVE IInv'
  OBVIOUS
<1>0. PoolType'
  BY TypeStep DEF IInv
<1>1. ASSUME NEW t \in Thread, RentFirst(t) PROVE IInv'
  <2>1. PICK c \in pooled : RentChunk(t, c)
    BY <1>1 DEF RentFirst
  <2>. QED  BY <1>0, <1>1, <2>1, RentChunkStep DEF RentFirst
<1>2. ASSUME NEW t \in Thread, RentBlock(t) PROVE IInv'
  BY <1>0, <1>2, RentBlockStep
<1>3. ASSUME NEW t \in Thread, SwapChunk(t) PROVE IInv'
  <2>1. PICK c \in pooled : RentChunk(t, c)
    BY <1>3 DEF SwapChunk
  <2>. QED  BY <1>0, <1>3, <2>1, RentChunkStep DEF SwapChunk
<1>4. ASSUME NEW t \in Thread, Construct(t) PROVE IInv'
  BY <1>0, <1>4, ConstructStep
<1>5. ASSUME NEW t \in Thread, NEW p \in Packet, TryFree(t, p) PROVE IInv'
  BY <1>0, <1>5, TryFreeStep
<1>6. ASSUME NEW t \in Thread, NEW p \in Packet, NEW u \in Thread, Share(t, u, p) PROVE IInv'
  BY <1>0, <1>6, ShareStep
<1>7. ASSUME NEW t \in Thread, Return(t) PROVE IInv'
  BY <1>0, <1>7, ReturnStep
<1>8. ASSUME NEW t \in Thread, ReturnChunk(t) PROVE IInv'
  BY <1>0, <1>8, ReturnChunkStep
<1>9. ASSUME NEW t \in Thread, CountDown(t) PROVE IInv'
  BY <1>0, <1>9, CountDownStep
<1>10. CASE UNCHANGED vars
  <2> USE <1>10 DEF vars
  <2>1. Live' = Live /\ \A c : LiveIn(c)' = LiveIn(c)
    BY DEF Live, LiveIn, At
  <2>2. HandsInv' /\ PlaceInv' /\ TlsInv'
    BY <2>1 DEF IInv, HandsInv, PlaceInv, TlsInv, Busy
  <2>3. ReturnInv' /\ CountInv' /\ RefInv'
    BY <2>1 DEF IInv, ReturnInv, CountInv, RefInv, Owners
  <2>4. UsedSizeIsExact'
    BY SizeKept DEF IInv, At
  <2>. QED  BY <1>0, <2>2, <2>3, <2>4 DEF IInv
<1>. QED  BY <1>1, <1>2, <1>3, <1>4, <1>5, <1>6, <1>7, <1>8, <1>9, <1>10 DEF Next

\* ... and so it always holds.
LEMMA AlwaysIInv == Spec => []IInv
  BY InitIInv, NextIInv, PTL DEF Spec

\* For any number of threads, chunks and blocks: a packet's count is the
\* number of its references, nobody constructs or returns a packet in use, and
\* mTLSAllocatedSize counts the packets in use and those on their way back.
THEOREM PacketsAlwaysHaveTheirOwners == Spec => []PacketHasItsOwners
<1>1. IInv => PacketHasItsOwners
  <2> SUFFICES ASSUME IInv PROVE RefCountIsExact
    BY DEF IInv, PacketHasItsOwners
  <2> SUFFICES ASSUME NEW r \in refs
               PROVE  LET p == r[2] IN
                      /\ refCount[p] = Cardinality({t \in Thread : <<t, p>> \in refs})
                      /\ p[1] \notin pooled /\ p[2] >= index[p[1]]
                      /\ \A t \in At({"swap", "construct", "return"}) : cur[t] # p
    BY DEF RefCountIsExact
  <2>1. r[1] \in Thread /\ r[2] \in Packet /\ <<r[1], r[2]>> \in refs
    BY DEF IInv, PoolType
  <2>2. Owners(r[2]) # {} /\ r[2] \in Live
    BY <2>1, InLive DEF Owners, IInv
  <2>3. refCount[r[2]] = Cardinality(Owners(r[2]))
    BY <2>1, <2>2 DEF IInv, RefInv
  <2>4. r[2][1] \notin pooled /\ r[2][2] >= index[r[2][1]]
    BY <2>2 DEF IInv, PlaceInv
  <2>5. \A t \in At({"swap", "construct", "return"}) : cur[t] # r[2]
    BY <2>1 DEF IInv, HandsInv, Busy, At
  <2>. QED  BY <2>3, <2>4, <2>5 DEF Owners
<1>. QED  BY <1>1, AlwaysIInv, PTL

\* For any number of threads, chunks and blocks: a chunk is in the pool, in one
\* thread-local slot, kept by its live packets, or about to be returned by
\* exactly one thread; none is returned early or twice, and none is lost.
THEOREM ChunksAreAlwaysInOnePlace == Spec => []ChunkIsInOnePlace
<1>1. IInv => ChunkIsInOnePlace
  <2> SUFFICES ASSUME IInv, NEW c \in Chunk
               PROVE
    LET renters == {t \in Thread : tls[t] = c}
        returners == {t \in At({"return_chunk"}) : cur[t][1] = c}
        live == {p \in Live : p[1] = c}
    IN  /\ \A t, u \in renters : t = u
        /\ \A t, u \in returners : t = u
        /\ c \in pooled => renters = {} /\ returners = {} /\ live = {}
        /\ returners # {} => live = {} /\ renters = {} /\ index[c] = 0
        /\ c \notin pooled =>
             /\ free[c] = index[c] + Cardinality(live)
             /\ index[c] = 0 \/ renters # {}
             /\ live # {} \/ renters # {} \/ returners # {}
    BY DEF ChunkIsInOnePlace
  <2> DEFINE renters == {t \in Thread : tls[t] = c}
             returners == {t \in At({"return_chunk"}) : cur[t][1] = c}
             live == {p \in Live : p[1] = c}
  <2>0. c # Null /\ live = LiveIn(c)
    BY PoolAssumption DEF LiveIn
  <2>1. \A t, u \in renters : t = u
    BY <2>0 DEF IInv, TlsInv
  <2>2. \A t, u \in returners : t = u
    BY DEF IInv, ReturnInv, At
  <2>3. c \in pooled => renters = {} /\ returners = {} /\ live = {}
    BY <2>0 DEF IInv, TlsInv, ReturnInv, PlaceInv, At
  <2>4. returners # {} => live = {} /\ renters = {} /\ index[c] = 0
    BY <2>0, ReturnedIsEmpty DEF IInv, ReturnInv, At
  <2>5. ASSUME c \notin pooled
        PROVE  /\ free[c] = index[c] + Cardinality(live)
               /\ index[c] = 0 \/ renters # {}
               /\ live # {} \/ renters # {} \/ returners # {}
    <3>1. /\ free[c] = index[c] + Cardinality(live)
          /\ index[c] = 0 \/ renters # {}
      BY <2>0, <2>5 DEF IInv, CountInv
    <3>2. free[c] = 0 => returners # {}
      BY <2>5 DEF IInv, CountInv, At
    <3>3. live = {} => Cardinality(live) = 0
      BY FS_EmptySet
    <3>. QED  BY <3>1, <3>2, <3>3
  <2>. QED  BY <2>1, <2>2, <2>3, <2>4, <2>5
<1>. QED  BY <1>1, AlwaysIInv, PTL
===============================================================================
