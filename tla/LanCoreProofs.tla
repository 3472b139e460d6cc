---------------------------- MODULE LanCoreProofs ----------------------------
(***************************************************************************)
(* LanCore's reference count, slots, sending flag and callbacks, for any   *)
(* number of sessions, IO threads, clients and calls.                      *)
(*                                                                         *)
(* Init resets the count of a slot, and the count of a live session may be *)
(* zero, so no single number says that a slot is free of threads.  The     *)
(* invariant is about who is in a slot: a thread that works in a slot and  *)
(* holds no reference to it is alone there, and the kernel has no          *)
(* operation on it.  The definitions take the registers, the fields of a   *)
(* session and its OVERLAPPEDs as arguments.                               *)
(***************************************************************************)
EXTENDS LanCore, FiniteSetTheorems, SequenceTheorems, TLAPS

-----------------------------------------------------------------------------
(* Types and call stacks. *)

\* The call stacks: no call; a call of the thread's loop; SendPost or RecvPost
\* called for a completion; a call of OnReceived; SendPost called by it.
NoCall == <<>>
OfLoop == <<"idle">>
OfCompletion == <<"dec", "idle">>
OfReceived == <<"received", "idle">>
OfSendPacket == <<"dec", "received", "idle">>
Stack == {NoCall, OfLoop, OfCompletion, OfReceived, OfSendPacket}

PoolLabel == {"pop_failed", "aborted", "index_zero"}
AcceptLabel == {"idle", "init", "open", "count_up", "associate", "on_connected"} \cup PoolLabel
SendLabel == {"flag", "flag_inc", "flag_dec", "dequeue", "send_inc", "send_wsa", "threw"}
RemoveLabel == {"dec", "release_id", "release_cas"}
GoneLabel == {"release", "push", "refused", "count_down", "on_disconnected"}
Label ==
  AcceptLabel \cup SendLabel \cup RemoveLabel \cup GoneLabel
  \cup {"finish", "received", "cancel", "recv_inc", "recv_wsa", "acquire", "enqueue"}

Register == [pc : Label, ret : Stack, cur : Slot, id : Nat]
Session == [id : Nat, released : BOOLEAN, ioCount : Int, closed : BOOLEAN,
            queue : Seq(Nat), sending : Seq(Nat), isSending : Int]
Kernel == [op : [Op -> {"idle", "pending", "ok", "zero", "fail"}], peer : BOOLEAN]

TypeInv ==
  /\ unused \in SUBSET Slot /\ uidAcc \in Nat
  /\ session \in [Slot -> Session]
  /\ kernel \in [Slot -> Kernel]
  /\ thread \in [Thread -> Register]

\* Where a thread may be with which call stack.  A session is only released by
\* a thread whose loop called TryRemoveSession: OnReceived and the completions
\* hold a reference.
ControlOK(t, r) ==
  \/ t = Acceptor /\ r.ret = NoCall /\ r.pc \in AcceptLabel
  \/ /\ t = Acceptor /\ r.ret = OfLoop
     /\ r.pc \in {"recv_inc", "recv_wsa"} \cup RemoveLabel \cup GoneLabel
  \/ t # Acceptor /\ r.ret = NoCall /\ r.pc = "idle"
  \/ /\ t # Acceptor /\ r.ret = OfLoop
     /\ r.pc \in {"finish", "received", "cancel"} \cup RemoveLabel \cup GoneLabel
  \/ /\ t # Acceptor /\ r.ret = OfCompletion
     /\ r.pc \in {"recv_inc", "recv_wsa"} \cup SendLabel \cup RemoveLabel
  \/ t # Acceptor /\ r.ret = OfReceived /\ r.pc \in {"acquire", "enqueue"} \cup RemoveLabel
  \/ t # Acceptor /\ r.ret = OfSendPacket /\ r.pc \in SendLabel \cup RemoveLabel

ControlInv == \A t \in Thread : ControlOK(t, thread[t])

-----------------------------------------------------------------------------
(* Who is in a slot. *)

\* The references a thread with registers r holds: Own, read off the stack.
HoldLabel == {"finish", "received", "cancel", "enqueue", "dec", "recv_wsa", "send_wsa"}
Refs(r) ==
  (IF r.ret \in {OfCompletion, OfReceived} THEN 1 ELSE IF r.ret = OfSendPacket THEN 2 ELSE 0)
  + (IF r.pc \in HoldLabel THEN 1 ELSE 0)

\* A thread at work in slot s; one that only has its callback to make is not,
\* nor is the accept thread while it finds the pool empty.
AwayLabel == {"idle", "count_down", "on_disconnected"} \cup PoolLabel
In(r, s) == r.cur = s /\ r.pc \notin AwayLabel

\* Labels of a thread that has a slot between two sessions.
BetweenLabel == {"init", "open", "release", "push", "refused"}

\* Slot s, with the fields se and the OVERLAPPEDs op; free: the pool.
SlotOK(s, th, se, op, free) ==
  /\ \A t, u \in Thread : In(th[t], s) /\ In(th[u], s) /\ Refs(th[t]) = 0 => t = u
  /\ \A t \in Thread : In(th[t], s) /\ Refs(th[t]) = 0 => \A o \in Op : op[o] = "idle"
  /\ se.released => /\ \A o \in Op : op[o] = "idle"
                    /\ \A t \in Thread : In(th[t], s) => th[t].pc \in BetweenLabel
                    /\ s \in free \/ \E t \in Thread : In(th[t], s)
  /\ \A t \in Thread : In(th[t], s) /\ th[t].pc \in BetweenLabel => se.released /\ s \notin free
  /\ s \in free => se.released /\ \A t \in Thread : ~In(th[t], s)
  /\ s \in free \/ (\E t \in Thread : In(th[t], s) /\ th[t].pc \in {"init", "open", "push"})
       => se.closed /\ se.queue = <<>> /\ se.sending = <<>>

SlotInv == \A s \in Slot : SlotOK(s, thread, session[s], kernel[s].op, unused)

\* The thread that is to post the next receive: it handles the last one, or
\* is about to post.
Receiving(r, s) ==
  r.cur = s /\ (r.pc \in {"received", "recv_inc", "recv_wsa"} \/ r.ret \in {OfReceived, OfSendPacket})

\* There is one such thread, and then no receive is pending.
ReceiveOK(s, th, op) ==
  \A t \in Thread : Receiving(th[t], s) =>
    op["recv"] = "idle" /\ \A u \in Thread : Receiving(th[u], s) => t = u

ReceiveInv == \A s \in Slot : ReceiveOK(s, thread, kernel[s].op)

\* The threads that have the sending flag, and those that have added to it.
Sending(r, s) == r.cur = s /\ r.pc \in {"dequeue", "send_inc", "send_wsa", "finish"}
Flagged(s, th) == {t \in Thread : Sending(th[t], s) \/ (th[t].cur = s /\ th[t].pc = "flag_dec")}

\* IsSending is at least the number of threads that will take one from it, and
\* one for a send that is pending; it is more when a send has failed.
SendOK(s, th, se, op) ==
  /\ \A t \in Thread : Sending(th[t], s) =>
       op["send"] = "idle" /\ \A u \in Thread : Sending(th[u], s) => t = u
  /\ ~se.released =>
       se.isSending >= Cardinality(Flagged(s, th)) + (IF op["send"] = "idle" THEN 0 ELSE 1)

SendInv == \A s \in Slot : SendOK(s, thread, session[s], kernel[s].op)

\* CountIsExact, over the stacks.
Weight(s, th) == [t \in Thread |-> IF th[t].cur = s THEN Refs(th[t]) ELSE 0]
Held(w) == {e \in Thread \X (1..4) : e[2] <= w[e[1]]}
Busy(op) == {o \in Op : op[o] # "idle"}
CountOK(s, th, se, op) ==
  ~se.released => se.ioCount = Cardinality(Busy(op)) + Cardinality(Held(Weight(s, th)))

CountInv == \A s \in Slot : CountOK(s, thread, session[s], kernel[s].op)

LanInv == TypeInv /\ ControlInv /\ SlotInv /\ ReceiveInv /\ SendInv /\ CountInv

-----------------------------------------------------------------------------
(* Facts about stacks and cardinalities. *)

\* The five stacks differ.
LEMMA StacksDiffer ==
  /\ NoCall # OfLoop /\ NoCall # OfCompletion /\ NoCall # OfReceived /\ NoCall # OfSendPacket
  /\ OfLoop # OfCompletion /\ OfLoop # OfReceived /\ OfLoop # OfSendPacket
  /\ OfCompletion # OfReceived /\ OfCompletion # OfSendPacket /\ OfReceived # OfSendPacket
  BY DEF NoCall, OfLoop, OfCompletion, OfReceived, OfSendPacket

\* A label in front of a stack.
LEMMA LabelBefore ==
  ASSUME NEW S, NEW x \in S, NEW st \in Seq(S), NEW r \in Seq(S),
         Len(r) = Len(st) + 1, r[1] = x, \A i \in 1..Len(st) : r[i + 1] = st[i]
  PROVE  <<x>> \o st = r
<1>0. <<x>> \in Seq(S)
  OBVIOUS
<1>1. PICK o \in Seq(S) : o = <<x>>
  BY <1>0, Zenon
<1>2. Len(o) = 1 /\ o[1] = x
  BY <1>1
<1>3. PICK c \in Seq(S) : c = o \o st
  BY ConcatProperties
<1>4. /\ Len(c) = Len(o) + Len(st)
      /\ \A i \in 1..Len(o) + Len(st) : c[i] = IF i <= Len(o) THEN o[i] ELSE st[i - Len(o)]
  BY <1>3, ConcatProperties, Zenon
<1>5. ASSUME NEW i \in 1..Len(c) PROVE c[i] = r[i]
  <2>1. CASE i = 1
    BY <1>2, <1>4, <2>1
  <2>2. CASE i # 1
    <3>1. i - 1 \in 1..Len(st) /\ (i - 1) + 1 = i
      BY <1>2, <1>4, <2>2
    <3>2. c[i] = st[i - 1]
      BY <1>2, <1>4, <2>2
    <3>. QED  BY <3>1, <3>2
  <2>. QED  BY <2>1, <2>2
<1>6. c = r
  BY <1>2, <1>4, <1>5, SeqEqual
<1>. QED  BY <1>1, <1>3, <1>6

\* What a call makes of a stack.
LEMMA StackPush ==
  /\ <<"idle">> \o NoCall = OfLoop
  /\ <<"dec">> \o OfLoop = OfCompletion
  /\ <<"received">> \o OfLoop = OfReceived
  /\ <<"dec">> \o OfReceived = OfSendPacket
<1>0. PICK S : S = {"idle", "dec", "received"}
  OBVIOUS
<1>1. <<"idle">> \o NoCall = OfLoop
  BY DEF NoCall, OfLoop
<1>2. /\ OfLoop \in Seq(S) /\ Len(OfLoop) = 1 /\ OfLoop[1] = "idle"
      /\ OfCompletion \in Seq(S) /\ Len(OfCompletion) = 2
      /\ OfCompletion[1] = "dec" /\ OfCompletion[2] = "idle"
      /\ OfReceived \in Seq(S) /\ Len(OfReceived) = 2
      /\ OfReceived[1] = "received" /\ OfReceived[2] = "idle"
  BY <1>0 DEF OfLoop, OfCompletion, OfReceived
<1>3. /\ OfSendPacket \in Seq(S) /\ Len(OfSendPacket) = 3
      /\ OfSendPacket[1] = "dec" /\ OfSendPacket[2] = "received" /\ OfSendPacket[3] = "idle"
  BY <1>0 DEF OfSendPacket
<1>. "dec" \in S /\ "received" \in S
  BY <1>0
<1>4. <<"dec">> \o OfLoop = OfCompletion
  <2>1. Len(OfCompletion) = Len(OfLoop) + 1 /\ \A i \in 1..Len(OfLoop) : OfCompletion[i + 1] = OfLoop[i]
    BY <1>2
  <2>. QED  BY <1>2, <2>1, LabelBefore, Zenon
<1>5. <<"received">> \o OfLoop = OfReceived
  <2>1. Len(OfReceived) = Len(OfLoop) + 1 /\ \A i \in 1..Len(OfLoop) : OfReceived[i + 1] = OfLoop[i]
    BY <1>2
  <2>. QED  BY <1>2, <2>1, LabelBefore, Zenon
<1>6. <<"dec">> \o OfReceived = OfSendPacket
  <2>1. Len(OfSendPacket) = Len(OfReceived) + 1 /\ \A i \in 1..Len(OfReceived) : OfSendPacket[i + 1] = OfReceived[i]
    BY <1>2, <1>3
  <2>. QED  BY <1>2, <1>3, <2>1, LabelBefore, Zenon
<1>. QED  BY <1>1, <1>4, <1>5, <1>6

\* What a return makes of it.
LEMMA StackPop ==
  /\ Head(OfLoop) = "idle" /\ Tail(OfLoop) = NoCall
  /\ Head(OfCompletion) = "dec" /\ Tail(OfCompletion) = OfLoop
  /\ Head(OfReceived) = "received" /\ Tail(OfReceived) = OfLoop
  /\ Head(OfSendPacket) = "dec" /\ Tail(OfSendPacket) = OfReceived
  BY DEF NoCall, OfLoop, OfCompletion, OfReceived, OfSendPacket

\* The labels of a stack that stand for a reference.
LEMMA StackRefs ==
  ASSUME NEW st \in Stack
  PROVE  Cardinality({i \in DOMAIN st : st[i] \in {"dec", "received"}}) =
           IF st \in {OfCompletion, OfReceived} THEN 1 ELSE IF st = OfSendPacket THEN 2 ELSE 0
<1>. DEFINE S == {i \in DOMAIN st : st[i] \in {"dec", "received"}}
<1>1. Cardinality({}) = 0 /\ Cardinality({1}) = 1
  BY FS_EmptySet, FS_Singleton
<1>2. Cardinality({1, 2}) = 2
  <2>1. IsFiniteSet({1})
    BY FS_Singleton
  <2>2. 2 \notin {1} /\ {1, 2} = {1} \cup {2}
    OBVIOUS
  <2>. QED  BY <1>1, <2>1, <2>2, FS_AddElement
<1>3. st \in {NoCall, OfLoop} => S = {}
  BY DEF NoCall, OfLoop
<1>4. st = OfCompletion => S = {1}
  BY DEF OfCompletion
<1>5. st = OfReceived => S = {1}
  BY DEF OfReceived
<1>6. st = OfSendPacket => S = {1, 2}
  <2>1. ASSUME st = OfSendPacket PROVE DOMAIN st = 1..3 /\ st[1] = "dec" /\ st[2] = "received" /\ st[3] = "idle"
    BY <2>1 DEF OfSendPacket
  <2>2. 1..3 = {1, 2, 3}
    OBVIOUS
  <2>. QED  BY <2>1, <2>2
<1>. HIDE DEF S
<1>7. Cardinality(S) = IF st \in {OfCompletion, OfReceived} THEN 1 ELSE IF st = OfSendPacket THEN 2 ELSE 0
  BY <1>1, <1>2, <1>3, <1>4, <1>5, <1>6, StacksDiffer DEF Stack
<1>. QED  BY <1>7 DEF S

\* So Own is Refs.
LEMMA OwnIsRefs == TypeInv => \A t \in Thread : Own(t) = Refs(thread[t])
<1> SUFFICES ASSUME TypeInv, NEW t \in Thread PROVE Own(t) = Refs(thread[t])
  OBVIOUS
<1>1. thread[t].ret \in Stack
  BY DEF TypeInv, Register
<1>2. PICK st \in Stack : st = thread[t].ret
  BY <1>1
<1>3. Cardinality({i \in DOMAIN st : st[i] \in {"dec", "received"}}) =
        IF st \in {OfCompletion, OfReceived} THEN 1 ELSE IF st = OfSendPacket THEN 2 ELSE 0
  BY StackRefs
<1>. QED  BY <1>2, <1>3 DEF Own, Refs, HoldLabel

\* A thread holds at most three references.
LEMMA RefsType == \A r \in Register : Refs(r) \in 0..3
  BY DEF Refs

\* So does it for one slot.
LEMMA WeightType ==
  ASSUME NEW s, NEW th \in [Thread -> Register] PROVE Weight(s, th) \in [Thread -> 0..3]
<1>1. ASSUME NEW t \in Thread PROVE (IF th[t].cur = s THEN Refs(th[t]) ELSE 0) \in 0..3
  <2>1. Refs(th[t]) \in 0..3
    BY RefsType
  <2>. QED  BY <2>1
<1>. QED  BY <1>1 DEF Weight

\* There are finitely many threads.
LEMMA ThreadsFinite == IsFiniteSet(Thread)
  BY LanAssumption, FS_Singleton, FS_Union DEF Thread

\* Held is finite.
LEMMA HeldFinite == ASSUME NEW w PROVE IsFiniteSet(Held(w))
<1>1. IsFiniteSet(1..4)
  <2>1. \A a, b \in Int : IsFiniteSet(a..b)
    BY FS_Interval
  <2>2. PICK a \in Int, b \in Int : a = 1 /\ b = 4
    OBVIOUS
  <2>3. IsFiniteSet(a..b)
    BY <2>1
  <2>. QED  BY <2>2, <2>3
<1>2. IsFiniteSet(Thread \X (1..4))
  BY <1>1, ThreadsFinite, FS_Product
<1>. QED  BY <1>2, FS_Subset DEF Held

\* One more reference of thread t.
LEMMA HeldMore ==
  ASSUME NEW w \in [Thread -> 0..3], NEW v \in [Thread -> 0..3], NEW t \in Thread,
         v[t] = w[t] + 1, \A u \in Thread \ {t} : v[u] = w[u]
  PROVE  Cardinality(Held(v)) = Cardinality(Held(w)) + 1
<1>1. v[t] \in 1..4 /\ w[t] \in 0..3
  OBVIOUS
<1>2. PICK x : x = <<t, v[t]>>
  OBVIOUS
<1>3. x \in Held(v) /\ x \notin Held(w)
  BY <1>1, <1>2 DEF Held
<1>4. ASSUME NEW e \in Thread \X (1..4), e # x
      PROVE  e[2] <= v[e[1]] <=> e[2] <= w[e[1]]
  <2>1. e[1] \in Thread /\ e[2] \in 1..4 /\ e = <<e[1], e[2]>>
    OBVIOUS
  <2>2. CASE e[1] = t
    BY <1>1, <1>2, <1>4, <2>1, <2>2
  <2>3. CASE e[1] # t
    BY <2>1, <2>3
  <2>. QED  BY <2>2, <2>3
<1>5. Held(v) = Held(w) \cup {x}
  BY <1>3, <1>4 DEF Held
<1>. QED  BY <1>3, <1>5, HeldFinite, FS_AddElement

\* The references after a step of thread t that changes its number by d.
LEMMA HeldMove ==
  ASSUME NEW w \in [Thread -> 0..3], NEW v \in [Thread -> 0..3], NEW t \in Thread,
         NEW d \in {-1, 0, 1}, v[t] = w[t] + d, \A u \in Thread \ {t} : v[u] = w[u]
  PROVE  Cardinality(Held(v)) = Cardinality(Held(w)) + d
<1>0. Cardinality(Held(v)) \in Nat /\ Cardinality(Held(w)) \in Nat
  BY HeldFinite, FS_CardinalityType
<1>1. CASE d = 1
  BY <1>1, HeldMore
<1>2. CASE d = 0
  <2>1. v = w
    BY <1>2
  <2>. QED  BY <1>0, <1>2, <2>1
<1>3. CASE d = -1
  <2>1. w[t] = v[t] + 1
    BY <1>3
  <2>2. Cardinality(Held(w)) = Cardinality(Held(v)) + 1
    BY <2>1, HeldMore
  <2>. QED  BY <1>0, <1>3, <2>2
<1>. QED  BY <1>1, <1>2, <1>3

-----------------------------------------------------------------------------
(* What one thread's step does to a slot.  th and g are the registers before *)
(* and after a step of thread t, se and ne the fields of the session, op and *)
(* no its OVERLAPPEDs.                                                       *)

\* A thread that holds references works in its slot, or leaves it.
LEMMA SlotBusy ==
  ASSUME NEW s, NEW th, NEW g, NEW se, NEW ne, NEW op, NEW no, NEW free, NEW t \in Thread,
         \A u \in Thread \ {t} : g[u] = th[u],
         SlotOK(s, th, se, op, free), ne.released = se.released,
         In(th[t], s), Refs(th[t]) # 0, th[t].pc \notin BetweenLabel,
         In(g[t], s) => Refs(g[t]) # 0 /\ g[t].pc \notin BetweenLabel
  PROVE  SlotOK(s, g, ne, no, free)
<1>1. ~se.released /\ s \notin free
  BY DEF SlotOK
<1>2. \A u \in Thread : In(g[u], s) => Refs(g[u]) # 0 /\ g[u].pc \notin BetweenLabel
  <2> SUFFICES ASSUME NEW u \in Thread, In(g[u], s)
               PROVE  Refs(g[u]) # 0 /\ g[u].pc \notin BetweenLabel
    OBVIOUS
  <2>1. CASE u = t
    BY <2>1
  <2>2. CASE u # t
    BY <1>1, <2>2 DEF SlotOK
  <2>. QED  BY <2>1, <2>2
<1>. QED  BY <1>1, <1>2 DEF SlotOK, BetweenLabel

\* A thread that holds none, and is alone, goes on in its slot.
LEMMA SlotAlone ==
  ASSUME NEW s, NEW th, NEW g, NEW se, NEW ne, NEW op, NEW free, NEW t \in Thread,
         \A u \in Thread \ {t} : g[u] = th[u],
         SlotOK(s, th, se, op, free), ne.released = se.released,
         In(th[t], s), Refs(th[t]) = 0, th[t].pc \notin BetweenLabel,
         In(g[t], s), g[t].pc \notin BetweenLabel
  PROVE  SlotOK(s, g, ne, op, free)
<1>1. ~se.released /\ s \notin free /\ \A o \in Op : op[o] = "idle"
  BY DEF SlotOK
<1>2. \A u \in Thread : In(g[u], s) => u = t
  BY DEF SlotOK
<1>. QED  BY <1>1, <1>2 DEF SlotOK, BetweenLabel

\* A thread does not touch slot s: it was and is elsewhere, or has no more
\* than its callback to make.
Outside(r, s) ==
  r.cur = s => r.pc \in AwayLabel /\ r.ret \in {NoCall, OfLoop}

\* Then the slot stays as it is.
LEMMA SlotOutside ==
  ASSUME NEW s, NEW th, NEW g, NEW se, NEW op, NEW free, NEW nf, NEW t \in Thread,
         \A u \in Thread \ {t} : g[u] = th[u], Outside(th[t], s), Outside(g[t], s),
         s \in nf <=> s \in free
  PROVE  SlotOK(s, th, se, op, free) => SlotOK(s, g, se, op, nf)
<1>1. \A u \in Thread : In(g[u], s) <=> In(th[u], s)
  BY DEF In, Outside, AwayLabel, PoolLabel
<1>2. \A u \in Thread : In(g[u], s) => g[u] = th[u]
  BY DEF In, Outside, AwayLabel, PoolLabel
<1>. QED  BY <1>1, <1>2 DEF SlotOK

\* A step that makes no second receiver, and posts no receive beside one.
LEMMA ReceiveMove ==
  ASSUME NEW s, NEW th, NEW g, NEW op, NEW no, NEW t \in Thread,
         \A u \in Thread \ {t} : g[u] = th[u],
         ReceiveOK(s, th, op),
         Receiving(g[t], s) =>
           \/ Receiving(th[t], s)
           \/ op["recv"] # "idle"
           \/ \A u \in Thread : ~Receiving(th[u], s),
         \/ no["recv"] = "idle"
         \/ op["recv"] # "idle" /\ ~Receiving(g[t], s)
         \/ Receiving(th[t], s) /\ ~Receiving(g[t], s)
  PROVE  ReceiveOK(s, g, no)
<1>1. \A u \in Thread : Receiving(g[u], s) => u = t \/ Receiving(th[u], s)
  OBVIOUS
<1>. QED  BY <1>1 DEF ReceiveOK

Flag(r, s) == Sending(r, s) \/ (r.cur = s /\ r.pc = "flag_dec")
Bit(b) == IF b THEN 1 ELSE 0

\* The flag is taken from the kernel, or given to it, or stays; IsSending goes
\* along with the number of threads that have added to it.
LEMMA SendMove ==
  ASSUME NEW s, NEW th, NEW g, NEW se, NEW ne, NEW op, NEW no, NEW t \in Thread,
         \A u \in Thread \ {t} : g[u] = th[u],
         SendOK(s, th, se, op), ~ne.released => ~se.released,
         se.isSending \in Int, ne.isSending \in Int,
         Sending(g[t], s) =>
           \/ Sending(th[t], s)
           \/ op["send"] # "idle"
           \/ \A u \in Thread : ~Sending(th[u], s),
         \/ no["send"] = "idle"
         \/ op["send"] # "idle" /\ ~Sending(g[t], s)
         \/ Sending(th[t], s) /\ ~Sending(g[t], s),
         ~ne.released =>
           ne.isSending - se.isSending >=
             Bit(Flag(g[t], s)) + Bit(no["send"] # "idle")
             - Bit(Flag(th[t], s)) - Bit(op["send"] # "idle")
  PROVE  SendOK(s, g, ne, no)
<1>1. \A u \in Thread : Sending(g[u], s) => u = t \/ Sending(th[u], s)
  OBVIOUS
<1>2. \A u \in Thread : Sending(g[u], s) =>
         no["send"] = "idle" /\ \A v \in Thread : Sending(g[v], s) => u = v
  BY <1>1 DEF SendOK
<1>. DEFINE F == Flagged(s, th)
            G == Flagged(s, g)
<1>3. IsFiniteSet(F) /\ IsFiniteSet(G)
  BY ThreadsFinite, FS_Subset DEF Flagged
<1>4. /\ \A u \in Thread : u \in F <=> Flag(th[u], s)
      /\ \A u \in Thread : u \in G <=> Flag(g[u], s)
      /\ F \subseteq Thread /\ G \subseteq Thread
  BY DEF Flagged, Flag
<1>. HIDE DEF F, G
<1>5. Cardinality(F) \in Nat /\ Cardinality(G) \in Nat
  BY <1>3, FS_CardinalityType
<1>6. Cardinality(G) = Cardinality(F) + Bit(Flag(g[t], s)) - Bit(Flag(th[t], s))
  <2>1. CASE t \in F /\ t \in G
    <3>1. G = F
      BY <1>4, <2>1
    <3>. QED  BY <1>4, <1>5, <2>1, <3>1 DEF Bit
  <2>2. CASE t \notin F /\ t \notin G
    <3>1. G = F
      BY <1>4, <2>2
    <3>. QED  BY <1>4, <1>5, <2>2, <3>1 DEF Bit
  <2>3. CASE t \in F /\ t \notin G
    <3>1. G = F \ {t}
      BY <1>4, <2>3
    <3>2. Cardinality(G) = Cardinality(F) - 1
      BY <1>3, <2>3, <3>1, FS_RemoveElement
    <3>. QED  BY <1>4, <1>5, <2>3, <3>2 DEF Bit
  <2>4. CASE t \notin F /\ t \in G
    <3>1. G = F \cup {t}
      BY <1>4, <2>4
    <3>2. Cardinality(G) = Cardinality(F) + 1
      BY <1>3, <2>4, <3>1, FS_AddElement
    <3>. QED  BY <1>4, <1>5, <2>4, <3>2 DEF Bit
  <2>. QED  BY <2>1, <2>2, <2>3, <2>4
<1>7. ~se.released => se.isSending >= Cardinality(F) + Bit(op["send"] # "idle")
  BY DEF SendOK, F, Bit
<1>8. ~ne.released => ne.isSending >= Cardinality(G) + Bit(no["send"] # "idle")
  <2>1. Bit(Flag(g[t], s)) \in Int /\ Bit(no["send"] # "idle") \in Int
    BY DEF Bit
  <2>2. Bit(Flag(th[t], s)) \in Int /\ Bit(op["send"] # "idle") \in Int
    BY DEF Bit
  <2>. QED  BY <1>5, <1>6, <1>7, <2>1, <2>2
<1>. QED  BY <1>2, <1>8 DEF SendOK, G, Bit

\* The operations of a session are a finite set.
LEMMA BusyFinite == ASSUME NEW op PROVE IsFiniteSet(Busy(op)) /\ Cardinality(Busy(op)) \in Nat
<1>1. IsFiniteSet({"recv"}) /\ IsFiniteSet({"send"})
  BY FS_Singleton
<1>2. Op = {"recv"} \cup {"send"}
  BY DEF Op
<1>3. IsFiniteSet(Op)
  BY <1>1, <1>2, FS_Union
<1>. QED  BY <1>3, FS_Subset, FS_CardinalityType DEF Busy

\* An operation is posted.
LEMMA BusyMore ==
  ASSUME NEW op, NEW no, NEW o \in Op, op[o] = "idle", no[o] # "idle",
         \A x \in Op \ {o} : no[x] = op[x]
  PROVE  Cardinality(Busy(no)) = Cardinality(Busy(op)) + 1
<1>1. o \notin Busy(op) /\ Busy(no) = Busy(op) \cup {o}
  BY DEF Busy
<1>. QED  BY <1>1, BusyFinite, FS_AddElement

\* The count after a step of thread t that changes its references by d and the
\* number of operations by c.
LEMMA CountMove ==
  ASSUME NEW s, NEW th \in [Thread -> Register], NEW g \in [Thread -> Register],
         NEW se, NEW ne, NEW op, NEW no, NEW t \in Thread,
         \A u \in Thread \ {t} : g[u] = th[u],
         NEW d \in {-1, 0, 1}, NEW c \in {-1, 0, 1},
         Weight(s, g)[t] = Weight(s, th)[t] + d,
         Cardinality(Busy(no)) = Cardinality(Busy(op)) + c,
         CountOK(s, th, se, op), ~ne.released => ~se.released,
         se.ioCount \in Int, ~ne.released => ne.ioCount = se.ioCount + (c + d)
  PROVE  CountOK(s, g, ne, no)
<1>1. PICK w \in [Thread -> 0..3] : w = Weight(s, th)
  BY WeightType
<1>2. PICK v \in [Thread -> 0..3] : v = Weight(s, g)
  BY WeightType
<1>3. \A u \in Thread \ {t} : v[u] = w[u]
  BY <1>1, <1>2 DEF Weight
<1>4. Cardinality(Held(v)) = Cardinality(Held(w)) + d
  BY <1>1, <1>2, <1>3, HeldMove
<1>5. Cardinality(Held(v)) \in Nat /\ Cardinality(Held(w)) \in Nat
  BY HeldFinite, FS_CardinalityType
<1>6. Cardinality(Busy(no)) \in Nat /\ Cardinality(Busy(op)) \in Nat
  BY BusyFinite
<1>. QED  BY <1>1, <1>2, <1>4, <1>5, <1>6 DEF CountOK

-----------------------------------------------------------------------------
(* Steps of a thread, by kind. *)

\* All that is said of one slot.
AllOK(s, th, se, op, free) ==
  /\ SlotOK(s, th, se, op, free) /\ ReceiveOK(s, th, op)
  /\ SendOK(s, th, se, op) /\ CountOK(s, th, se, op)

\* The weight of a thread that is outside of s is zero.
LEMMA OutsideWeight ==
  ASSUME NEW s, NEW r \in Register, Outside(r, s)
  PROVE  /\ (IF r.cur = s THEN Refs(r) ELSE 0) = 0
         /\ ~Receiving(r, s) /\ ~Sending(r, s) /\ ~Flag(r, s)
<1>1. CASE r.cur = s
  <2>1. r.pc \in AwayLabel /\ r.ret \in {NoCall, OfLoop}
    BY <1>1 DEF Outside, AwayLabel, PoolLabel
  <2>2. Refs(r) = 0
    BY <2>1, StacksDiffer DEF Refs, HoldLabel, AwayLabel, PoolLabel
  <2>. QED  BY <1>1, <2>1, <2>2, StacksDiffer DEF Receiving, Sending, Flag, AwayLabel, PoolLabel
<1>2. CASE r.cur # s
  BY <1>2 DEF Receiving, Sending, Flag
<1>. QED  BY <1>1, <1>2

\* A slot that the thread stays out of.
LEMMA Elsewhere ==
  ASSUME NEW s, NEW th \in [Thread -> Register], NEW g \in [Thread -> Register],
         NEW se \in Session, NEW op, NEW free, NEW nf, s \in nf <=> s \in free, NEW t \in Thread,
         \A u \in Thread \ {t} : g[u] = th[u], Outside(th[t], s), Outside(g[t], s),
         AllOK(s, th, se, op, free)
  PROVE  AllOK(s, g, se, op, nf)
<1>1. SlotOK(s, g, se, op, nf)
  BY SlotOutside DEF AllOK
<1>2. /\ ~Receiving(g[t], s) /\ ~Sending(g[t], s) /\ ~Flag(g[t], s)
      /\ ~Receiving(th[t], s) /\ ~Sending(th[t], s) /\ ~Flag(th[t], s)
      /\ Weight(s, g)[t] = 0 /\ Weight(s, th)[t] = 0
  BY OutsideWeight DEF Weight
<1>3. ReceiveOK(s, g, op)
  <2>1. ReceiveOK(s, th, op)
    BY DEF AllOK
  <2>. QED  BY <1>2, <2>1 DEF ReceiveOK
<1>4. SendOK(s, g, se, op)
  <2>1. SendOK(s, th, se, op)
    BY DEF AllOK
  <2>2. Flagged(s, g) = Flagged(s, th)
    BY <1>2 DEF Flagged, Flag
  <2>. QED  BY <1>2, <2>1, <2>2 DEF SendOK
<1>5. CountOK(s, g, se, op)
  <2>1. CountOK(s, th, se, op)
    BY DEF AllOK
  <2>2. Weight(s, g) = Weight(s, th)
    BY <1>2 DEF Weight
  <2>. QED  BY <2>1, <2>2 DEF CountOK
<1>. QED  BY <1>1, <1>3, <1>4, <1>5 DEF AllOK

\* A thread that holds references goes on: they change by d, as IOCount does;
\* no operation starts or ends.
LEMMA Work ==
  ASSUME NEW s \in Slot, NEW th \in [Thread -> Register], NEW r \in Register,
         NEW g \in [Thread -> Register], NEW t \in Thread,
         g[t] = r, \A u \in Thread \ {t} : g[u] = th[u],
         NEW se \in Session, NEW ne \in Session, NEW op, NEW no, NEW free,
         AllOK(s, th, se, op, free), \A o \in Op : no[o] = "idle" <=> op[o] = "idle",
         th[t].cur = s, r.cur = s, ne.released = se.released,
         In(th[t], s), Refs(th[t]) # 0, th[t].pc \notin BetweenLabel,
         In(r, s) => Refs(r) # 0 /\ r.pc \notin BetweenLabel,
         NEW d \in {-1, 0, 1}, Refs(r) = Refs(th[t]) + d, ne.ioCount = se.ioCount + d,
         Receiving(r, s) => Receiving(th[t], s),
         Sending(r, s) => \/ Sending(th[t], s)
                          \/ op["send"] = "idle" /\ \A u \in Thread : ~Sending(th[u], s),
         ne.isSending - se.isSending >= Bit(Flag(r, s)) - Bit(Flag(th[t], s))
  PROVE  AllOK(s, g, ne, no, free)
<1>1. g \in [Thread -> Register] /\ g[t] = r /\ \A u \in Thread \ {t} : g[u] = th[u]
  OBVIOUS
<1>2. SlotOK(s, g, ne, no, free)
  <2>1. SlotOK(s, th, se, op, free)
    BY DEF AllOK
  <2>2. In(g[t], s) => Refs(g[t]) # 0 /\ g[t].pc \notin BetweenLabel
    BY <1>1
  <2>. HIDE DEF BetweenLabel
  <2>. QED  BY <1>1, <2>1, <2>2, SlotBusy
<1>3. ReceiveOK(s, g, no)
  <2>1. ReceiveOK(s, th, op) /\ "recv" \in Op
    BY DEF AllOK, Op
  <2>2. \A u \in Thread : Receiving(g[u], s) => Receiving(th[u], s)
    BY <1>1
  <2>. QED  BY <2>1, <2>2 DEF ReceiveOK
<1>4. SendOK(s, g, ne, no)
  <2>1. SendOK(s, th, se, op) /\ "send" \in Op
    BY DEF AllOK, Op
  <2>2. (no["send"] # "idle") = (op["send"] # "idle")
    BY <2>1
  <2>3. se.isSending \in Int /\ ne.isSending \in Int
    BY DEF Session
  <2>4. \A b : Bit(b) \in Int
    BY DEF Bit
  <2>5. ne.isSending - se.isSending >=
             Bit(Flag(g[t], s)) + Bit(no["send"] # "idle")
             - Bit(Flag(th[t], s)) - Bit(op["send"] # "idle")
    BY <1>1, <2>2, <2>3, <2>4
  <2>6. no["send"] # "idle" =>
          op["send"] # "idle" /\ ~Sending(g[t], s)
    <3>1. ASSUME no["send"] # "idle", Sending(r, s) PROVE FALSE
      BY <2>1, <2>2, <3>1 DEF SendOK, Sending
    <3>. QED  BY <1>1, <2>1, <3>1
  <2>. QED  BY <1>1, <2>1, <2>3, <2>5, <2>6, SendMove
<1>5. CountOK(s, g, ne, no)
  <2>1. Busy(no) = Busy(op)
    BY DEF Busy
  <2>2. Weight(s, g)[t] = Weight(s, th)[t] + d
    BY <1>1 DEF Weight
  <2>3. Cardinality(Busy(op)) \in Nat
    BY BusyFinite
  <2>4. PICK c \in {-1, 0, 1} : c = 0
    OBVIOUS
  <2>5. Cardinality(Busy(no)) = Cardinality(Busy(op)) + c
    BY <2>1, <2>3, <2>4
  <2>6. se.ioCount \in Int /\ ne.ioCount = se.ioCount + (c + d)
    BY <2>4 DEF Session
  <2>7. CountOK(s, th, se, op)
    BY DEF AllOK
  <2>8. ~ne.released => ~se.released
    OBVIOUS
  <2>. QED  BY <1>1, <2>2, <2>5, <2>6, <2>7, <2>8, CountMove
<1>. QED  BY <1>2, <1>3, <1>4, <1>5 DEF AllOK

\* A step of thread t in slot c: c is all that has to be looked at.
LEMMA LocalStep ==
  ASSUME LanInv, NEW t \in Thread, NEW c \in Slot,
         thread' \in [Thread -> Register], \A u \in Thread \ {t} : thread'[u] = thread[u],
         thread'[t].cur = c, thread[t].cur = c \/ Outside(thread[t], thread[t].cur),
         session' \in [Slot -> Session], kernel' \in [Slot -> Kernel],
         unused' \in SUBSET Slot, uidAcc' \in Nat,
         \A s \in Slot \ {c} : /\ session'[s] = session[s] /\ kernel'[s].op = kernel[s].op
                               /\ s \in unused' <=> s \in unused,
         ControlOK(t, thread'[t]),
         AllOK(c, thread', session'[c], kernel'[c].op, unused')
  PROVE  LanInv'
<1>1. PICK g \in [Thread -> Register] : g = thread'
  OBVIOUS
<1>2. /\ TypeInv /\ ControlInv /\ thread \in [Thread -> Register] /\ session \in [Slot -> Session]
      /\ \A s \in Slot : AllOK(s, thread, session[s], kernel[s].op, unused)
  BY DEF LanInv, TypeInv, SlotInv, ReceiveInv, SendInv, CountInv, AllOK
<1>3. TypeInv' /\ ControlInv'
  BY <1>2 DEF TypeInv, ControlInv
<1>4. ASSUME NEW s \in Slot PROVE AllOK(s, g, session'[s], kernel'[s].op, unused')
  <2>1. CASE s = c
    BY <1>1, <2>1
  <2>2. CASE s # c
    <3>1. Outside(thread[t], s) /\ Outside(g[t], s) /\ \A u \in Thread \ {t} : g[u] = thread[u]
      BY <1>1, <2>2 DEF Outside, AwayLabel, PoolLabel
    <3>2. /\ session'[s] = session[s] /\ kernel'[s].op = kernel[s].op
          /\ s \in unused' <=> s \in unused
      BY <2>2
    <3>3. AllOK(s, thread, session[s], kernel[s].op, unused) /\ session[s] \in Session
      BY <1>2
    <3>4. AllOK(s, g, session[s], kernel[s].op, unused')
      BY <1>1, <1>2, <3>1, <3>2, <3>3, Elsewhere
    <3>. QED  BY <3>2, <3>4
  <2>. QED  BY <2>1, <2>2
<1>5. SlotInv' /\ ReceiveInv' /\ SendInv' /\ CountInv'
  BY <1>1, <1>4 DEF SlotInv, ReceiveInv, SendInv, CountInv, AllOK
<1>. QED  BY <1>3, <1>5 DEF LanInv

\* A thread that holds no reference, and is alone, goes on: it may take one.
LEMMA Stay ==
  ASSUME NEW s \in Slot, NEW th \in [Thread -> Register], NEW r \in Register,
         NEW g \in [Thread -> Register], NEW t \in Thread,
         g[t] = r, \A u \in Thread \ {t} : g[u] = th[u] /\ ControlOK(u, th[u]),
         NEW se \in Session, NEW ne \in Session, NEW op, NEW free,
         AllOK(s, th, se, op, free),
         th[t].cur = s, r.cur = s, ne.released = se.released, ne.isSending = se.isSending,
         In(th[t], s), Refs(th[t]) = 0, th[t].pc \notin BetweenLabel,
         In(r, s), r.pc \notin BetweenLabel, ~Flag(r, s), ~Flag(th[t], s),
         NEW d \in {0, 1}, Refs(r) = d, ne.ioCount = se.ioCount + d
  PROVE  AllOK(s, g, ne, op, free)
<1>1. SlotOK(s, th, se, op, free)
  BY DEF AllOK
<1>2. SlotOK(s, g, ne, op, free)
  BY <1>1, SlotAlone
<1>3. \A u \in Thread \ {t} : ~In(th[u], s)
  BY <1>1 DEF SlotOK
<1>4. op["recv"] = "idle" /\ op["send"] = "idle"
  BY <1>1 DEF SlotOK, Op
<1>5. ASSUME NEW u \in Thread \ {t} PROVE ~Receiving(g[u], s) /\ ~Sending(g[u], s)
  <2>1. ControlOK(u, th[u]) /\ ~In(th[u], s) /\ g[u] = th[u]
    BY <1>3
  <2>. QED  BY <2>1, StacksDiffer DEF ControlOK, In, Receiving, Sending, AcceptLabel, SendLabel,
                                     RemoveLabel, GoneLabel, PoolLabel, AwayLabel
<1>6. ReceiveOK(s, g, op)
  BY <1>4, <1>5 DEF ReceiveOK
<1>7. SendOK(s, g, ne, op)
  <2>1. SendOK(s, th, se, op)
    BY DEF AllOK
  <2>2. Flagged(s, g) = Flagged(s, th)
    BY DEF Flagged, Flag
  <2>. QED  BY <1>4, <1>5, <2>1, <2>2 DEF SendOK
<1>8. CountOK(s, g, ne, op)
  <2>1. CountOK(s, th, se, op)
    BY DEF AllOK
  <2>2. Weight(s, g)[t] = Weight(s, th)[t] + d
    BY DEF Weight
  <2>3. Cardinality(Busy(op)) \in Nat
    BY BusyFinite
  <2>4. PICK c \in {-1, 0, 1} : c = 0
    OBVIOUS
  <2>5. Cardinality(Busy(op)) = Cardinality(Busy(op)) + c
    BY <2>3, <2>4
  <2>6. se.ioCount \in Int /\ ne.ioCount = se.ioCount + (c + d) /\ d \in {-1, 0, 1}
    BY <2>4 DEF Session
  <2>7. ~ne.released => ~se.released
    OBVIOUS
  <2>. QED  BY <2>1, <2>2, <2>5, <2>6, <2>7, CountMove
<1>. QED  BY <1>2, <1>6, <1>7, <1>8 DEF AllOK

\* Thread t gets the registers r.
Becomes(t, r) ==
  /\ thread' \in [Thread -> Register] /\ thread'[t] = r
  /\ \A u \in Thread \ {t} : thread'[u] = thread[u]

\* The fields and OVERLAPPEDs of slot c become ne and no; the others stay.
Writes(c, ne, no) ==
  /\ session' \in [Slot -> Session] /\ kernel' \in [Slot -> Kernel]
  /\ session'[c] = ne /\ kernel'[c].op = no
  /\ \A s \in Slot \ {c} : session'[s] = session[s] /\ kernel'[s].op = kernel[s].op
  /\ unused' = unused /\ uidAcc' = uidAcc

\* A step of a thread that holds references, in its slot.
LEMMA WorkStep ==
  ASSUME LanInv, NEW t \in Thread, NEW c \in Slot, thread[t].cur = c,
         NEW r \in Register, Becomes(t, r), r.cur = c, ControlOK(t, r),
         NEW ne \in Session, NEW no, Writes(c, ne, no),
         \A o \in Op : no[o] = "idle" <=> kernel[c].op[o] = "idle",
         ne.released = session[c].released,
         In(thread[t], c), Refs(thread[t]) # 0, thread[t].pc \notin BetweenLabel,
         In(r, c) => Refs(r) # 0 /\ r.pc \notin BetweenLabel,
         NEW d \in {-1, 0, 1}, Refs(r) = Refs(thread[t]) + d, ne.ioCount = session[c].ioCount + d,
         Receiving(r, c) => Receiving(thread[t], c),
         Sending(r, c) =>
           \/ Sending(thread[t], c)
           \/ kernel[c].op["send"] = "idle" /\ \A u \in Thread : ~Sending(thread[u], c),
         ne.isSending - session[c].isSending >= Bit(Flag(r, c)) - Bit(Flag(thread[t], c))
  PROVE  LanInv'
<1>1. /\ thread \in [Thread -> Register] /\ session \in [Slot -> Session]
      /\ unused \in SUBSET Slot /\ uidAcc \in Nat
  BY DEF LanInv, TypeInv
<1>2. PICK th \in [Thread -> Register], se \in Session, op \in {kernel[c].op} :
        th = thread /\ se = session[c] /\ op = kernel[c].op
  BY <1>1
<1>3. AllOK(c, th, se, op, unused)
  BY <1>2 DEF LanInv, SlotInv, ReceiveInv, SendInv, CountInv, AllOK
<1>4. PICK g \in [Thread -> Register] : g = thread'
  BY DEF Becomes
<1>5. g[t] = r /\ \A u \in Thread \ {t} : g[u] = th[u]
  BY <1>2, <1>4 DEF Becomes
<1>6. AllOK(c, g, ne, no, unused)
  <2>1. /\ \A o \in Op : no[o] = "idle" <=> op[o] = "idle"
        /\ th[t].cur = c /\ ne.released = se.released
    BY <1>2
  <2>2. /\ In(th[t], c) /\ Refs(th[t]) # 0 /\ th[t].pc \notin BetweenLabel
        /\ Refs(r) = Refs(th[t]) + d /\ ne.ioCount = se.ioCount + d
        /\ Receiving(r, c) => Receiving(th[t], c)
    BY <1>2
  <2>3. /\ Sending(r, c) => \/ Sending(th[t], c)
                            \/ op["send"] = "idle" /\ \A u \in Thread : ~Sending(th[u], c)
        /\ ne.isSending - se.isSending >= Bit(Flag(r, c)) - Bit(Flag(th[t], c))
    BY <1>2
  <2>. QED  BY <1>3, <1>5, <2>1, <2>2, <2>3, Work
<1>7. AllOK(c, thread', session'[c], kernel'[c].op, unused')
  BY <1>4, <1>6 DEF Writes
<1>. QED  BY <1>1, <1>7, LocalStep DEF Becomes, Writes

\* What is known of the thread that takes a step, and of its slot.
LEMMA Setting ==
  ASSUME LanInv, NEW t \in Thread
  PROVE  /\ TypeInv /\ ControlOK(t, thread[t])
         /\ thread \in [Thread -> Register] /\ thread[t] \in Register /\ thread[t].cur \in Slot
         /\ thread[t].ret \in Stack
         /\ session \in [Slot -> Session] /\ session[thread[t].cur] \in Session
         /\ kernel \in [Slot -> Kernel] /\ kernel[thread[t].cur] \in Kernel
  BY DEF LanInv, TypeInv, ControlInv, Register

\* Only the registers change.
LEMMA QuietStep ==
  ASSUME LanInv, NEW t \in Thread, NEW r \in Register, Becomes(t, r),
         r.cur = thread[t].cur, ControlOK(t, r),
         UNCHANGED <<session, kernel, unused, uidAcc>>,
         In(thread[t], thread[t].cur), Refs(thread[t]) # 0, thread[t].pc \notin BetweenLabel,
         In(r, r.cur) => r.pc \notin BetweenLabel,
         Refs(r) = Refs(thread[t]),
         Receiving(r, r.cur) => Receiving(thread[t], r.cur),
         Sending(r, r.cur) => Sending(thread[t], r.cur),
         Flag(r, r.cur) => Flag(thread[t], r.cur)
  PROVE  LanInv'
<1>1. /\ thread[t].cur \in Slot /\ session \in [Slot -> Session] /\ kernel \in [Slot -> Kernel]
      /\ thread[t] \in Register
  BY Setting
<1>2. PICK c \in Slot : c = thread[t].cur
  BY <1>1
<1>3a. PICK ne \in Session : ne = session[c]
  BY <1>1, <1>2
<1>3. PICK no : ne = session[c] /\ no = kernel[c].op
  BY <1>3a
<1>4. Writes(c, ne, no)
  BY <1>1, <1>3 DEF Writes
<1>5. PICK d \in {-1, 0, 1} : d = 0
  OBVIOUS
<1>6. Refs(r) = Refs(thread[t]) + d /\ ne.ioCount = session[c].ioCount + d
  <2>1. Refs(r) \in 0..3 /\ ne.ioCount \in Int
    BY RefsType DEF Session
  <2>. QED  BY <1>3, <1>5, <2>1
<1>7. ne.isSending - session[c].isSending >= Bit(Flag(r, c)) - Bit(Flag(thread[t], c))
  <2>1. ne.isSending \in Int
    BY DEF Session
  <2>2. Flag(r, c) => Flag(thread[t], c)
    BY <1>2
  <2>. QED  BY <1>3, <2>1, <2>2 DEF Bit
<1>8. \A o \in Op : no[o] = "idle" <=> kernel[c].op[o] = "idle"
  BY <1>3
<1>9. /\ thread[t].cur = c /\ r.cur = c /\ ne.released = session[c].released
      /\ In(thread[t], c)
      /\ In(r, c) => Refs(r) # 0 /\ r.pc \notin BetweenLabel
      /\ Receiving(r, c) => Receiving(thread[t], c)
      /\ Sending(r, c) => Sending(thread[t], c)
  BY <1>2, <1>3
<1>. QED  BY <1>4, <1>6, <1>7, <1>8, <1>9, WorkStep

-----------------------------------------------------------------------------
(* Goto, Call and Return. *)

\* Goto changes the label.
LEMMA GotoIs ==
  ASSUME LanInv, NEW t \in Thread, NEW l \in Label, Goto(t, l)
  PROVE  \E r \in Register : /\ Becomes(t, r) /\ r.pc = l
                             /\ r.ret = thread[t].ret /\ r.cur = thread[t].cur
<1>1. thread \in [Thread -> Register] /\ thread[t] \in Register
  BY Setting
<1>2. PICK r : r = [thread[t] EXCEPT !.pc = l]
  OBVIOUS
<1>3. r \in Register /\ r.pc = l /\ r.ret = thread[t].ret /\ r.cur = thread[t].cur
  BY <1>1, <1>2 DEF Register
<1>4. Becomes(t, r)
  BY <1>1, <1>2, <1>3 DEF Becomes, Goto
<1>. QED  BY <1>3, <1>4

\* Call changes it and pushes the label to return to.
LEMMA CallIs ==
  ASSUME LanInv, NEW t \in Thread, NEW l \in Label, NEW x, NEW st, Call(t, l, x),
         \/ x = "idle" /\ thread[t].ret = NoCall /\ st = OfLoop
         \/ x = "dec" /\ thread[t].ret = OfLoop /\ st = OfCompletion
         \/ x = "received" /\ thread[t].ret = OfLoop /\ st = OfReceived
         \/ x = "dec" /\ thread[t].ret = OfReceived /\ st = OfSendPacket
  PROVE  \E r \in Register : /\ Becomes(t, r) /\ r.pc = l
                             /\ r.ret = st /\ r.cur = thread[t].cur
<1>1. thread \in [Thread -> Register] /\ thread[t] \in Register
  BY Setting
<1>2. st \in Stack
  BY DEF Stack
<1>3. st = <<x>> \o thread[t].ret
  BY StackPush, Zenon
<1>4. PICK r : r = [thread[t] EXCEPT !.pc = l, !.ret = st]
  OBVIOUS
<1>5. r \in Register /\ r.pc = l /\ r.ret = st /\ r.cur = thread[t].cur
  BY <1>1, <1>2, <1>4 DEF Register
<1>6. thread' = [thread EXCEPT ![t].pc = l, ![t].ret = st]
  BY <1>1, <1>3 DEF Call
<1>7. Becomes(t, r)
  BY <1>1, <1>4, <1>5, <1>6 DEF Becomes
<1>. QED  BY <1>5, <1>7

\* Return takes the top of the stack: out of SendPost, RecvPost or
\* TryRemoveSession to the caller.
LEMMA ReturnIs ==
  ASSUME LanInv, NEW t \in Thread, Return(t), thread[t].ret # NoCall
  PROVE  \E r \in Register :
           /\ Becomes(t, r) /\ r.cur = thread[t].cur
           /\ thread[t].ret = OfLoop => r.pc = "idle" /\ r.ret = NoCall
           /\ thread[t].ret = OfCompletion => r.pc = "dec" /\ r.ret = OfLoop
           /\ thread[t].ret = OfReceived => r.pc = "received" /\ r.ret = OfLoop
           /\ thread[t].ret = OfSendPacket => r.pc = "dec" /\ r.ret = OfReceived
<1>1. thread \in [Thread -> Register] /\ thread[t] \in Register /\ thread[t].ret \in Stack
  BY Setting
<1>2. PICK l, st : l = Head(thread[t].ret) /\ st = Tail(thread[t].ret)
  OBVIOUS
<1>3. /\ thread[t].ret = OfLoop => l = "idle" /\ st = NoCall
      /\ thread[t].ret = OfCompletion => l = "dec" /\ st = OfLoop
      /\ thread[t].ret = OfReceived => l = "received" /\ st = OfLoop
      /\ thread[t].ret = OfSendPacket => l = "dec" /\ st = OfReceived
  BY <1>2, StackPop
<1>4. l \in Label /\ st \in Stack
  <2>1. thread[t].ret \in {OfLoop, OfCompletion, OfReceived, OfSendPacket}
    BY <1>1 DEF Stack
  <2>2. l \in {"idle", "dec", "received"}
    BY <1>3, <2>1
  <2>3. st \in {NoCall, OfLoop, OfReceived}
    BY <1>3, <2>1
  <2>4. st \in Stack
    BY <2>3 DEF Stack
  <2>5. l \in Label
    BY <2>2 DEF Label, AcceptLabel, RemoveLabel, PoolLabel
  <2>. QED  BY <2>4, <2>5
<1>5. PICK r : r = [thread[t] EXCEPT !.pc = l, !.ret = st]
  OBVIOUS
<1>6. r \in Register /\ r.pc = l /\ r.ret = st /\ r.cur = thread[t].cur
  BY <1>1, <1>4, <1>5 DEF Register
<1>7. thread' = [thread EXCEPT ![t].pc = l, ![t].ret = st]
  BY <1>1, <1>2 DEF Return
<1>8. Becomes(t, r)
  BY <1>1, <1>5, <1>6, <1>7 DEF Becomes
<1>. QED  BY <1>3, <1>6, <1>8

-----------------------------------------------------------------------------
(* The steps of a thread that holds references. *)

\* ReadySending reads the flag.
LEMMA ReadFlagStep == ASSUME LanInv, NEW t \in Thread, ReadFlag(t) PROVE LanInv'
<1>1. ControlOK(t, thread[t]) /\ thread[t].pc = "flag"
  BY Setting DEF ReadFlag, At
<1>2. /\ t # Acceptor /\ thread[t].ret \in {OfCompletion, OfSendPacket}
      /\ UNCHANGED <<session, kernel, unused, uidAcc>>
  BY <1>1
     DEF ControlOK, AcceptLabel, SendLabel, RemoveLabel, GoneLabel, ReadFlag, managerVars, PoolLabel
<1>3. \E r \in Register :
        /\ Becomes(t, r) /\ r.cur = thread[t].cur
        /\ \/ r.pc = "flag_inc" /\ r.ret = thread[t].ret
           \/ thread[t].ret = OfCompletion /\ r.pc = "dec" /\ r.ret = OfLoop
           \/ thread[t].ret = OfSendPacket /\ r.pc = "dec" /\ r.ret = OfReceived
  <2>1. CASE Return(t)
    BY <1>2, <2>1, ReturnIs, StacksDiffer
  <2>2. CASE Goto(t, "flag_inc")
    <3>1. "flag_inc" \in Label
      BY DEF Label, SendLabel
    <3>. QED  BY <2>2, <3>1, GotoIs
  <2>. QED  BY <2>1, <2>2 DEF ReadFlag
<1>4. PICK r \in Register :
        /\ Becomes(t, r) /\ r.cur = thread[t].cur
        /\ \/ r.pc = "flag_inc" /\ r.ret = thread[t].ret
           \/ thread[t].ret = OfCompletion /\ r.pc = "dec" /\ r.ret = OfLoop
           \/ thread[t].ret = OfSendPacket /\ r.pc = "dec" /\ r.ret = OfReceived
  BY <1>3
<1>5. ControlOK(t, r)
  BY <1>2, <1>4 DEF ControlOK, SendLabel, RemoveLabel
<1>6. Refs(r) = Refs(thread[t]) /\ Refs(thread[t]) # 0
  BY <1>1, <1>2, <1>4, StacksDiffer DEF Refs, HoldLabel
<1>7. /\ In(thread[t], thread[t].cur) /\ thread[t].pc \notin BetweenLabel
      /\ r.pc \notin BetweenLabel /\ ~Sending(r, r.cur) /\ ~Flag(r, r.cur)
      /\ Receiving(r, r.cur) => Receiving(thread[t], r.cur)
  BY <1>1, <1>2, <1>4, StacksDiffer
     DEF In, BetweenLabel, Sending, Flag, Receiving, AwayLabel, PoolLabel
<1>. QED  BY <1>2, <1>4, <1>5, <1>6, <1>7, QuietStep

\* OnReceived is over, or the packet is bad; SendPacket and Disconnect begin.
LEMMA ReceivedStep ==
  ASSUME LanInv, NEW t \in Thread,
         NetworkRecvCompleted(t) \/ SendPacketFind(t) \/ Disconnect(t)
  PROVE  LanInv'
<1>1. /\ ControlOK(t, thread[t]) /\ thread[t].pc = "received"
      /\ thread \in [Thread -> Register] /\ thread[t] \in Register
      /\ session[thread[t].cur] \in Session
  BY Setting DEF NetworkRecvCompleted, SendPacketFind, Disconnect, At
<1>2. /\ t # Acceptor /\ thread[t].ret = OfLoop
      /\ UNCHANGED <<session, kernel, unused, uidAcc>>
  BY <1>1 DEF ControlOK, AcceptLabel, SendLabel, RemoveLabel, GoneLabel, NetworkRecvCompleted,
              SendPacketFind, Disconnect, managerVars, PoolLabel
<1>3. OfCompletion = <<"dec">> \o thread[t].ret /\ OfReceived = <<"received">> \o thread[t].ret
  BY <1>2, StackPush
<1>4. /\ {"recv_inc", "cancel", "acquire", "release_id"} \subseteq Label
      /\ OfCompletion \in Stack /\ OfReceived \in Stack
  BY DEF Label, RemoveLabel, Stack
<1>5. \E r \in Register :
        /\ Becomes(t, r) /\ r.cur = thread[t].cur
        /\ \/ r.pc = "recv_inc" /\ r.ret = OfCompletion
           \/ r.pc = "cancel" /\ r.ret = OfLoop
           \/ r.pc \in {"acquire", "release_id"} /\ r.ret = OfReceived
  <2>1. CASE Call(t, "recv_inc", "dec")
    BY <1>2, <1>4, <2>1, CallIs
  <2>2. CASE Goto(t, "cancel")
    BY <1>2, <1>4, <2>2, GotoIs
  <2>3. CASE Disconnect(t)
    <3>1. Call(t, "release_id", "received")
      BY <2>3 DEF Disconnect
    <3>. QED  BY <1>2, <1>4, <3>1, CallIs
  <2>4. CASE SendPacketFind(t)
    <3>1. PICK st \in Stack, i \in Nat : st = OfReceived /\ i = session[thread[t].cur].id
      BY <1>1, <1>4 DEF Session
    <3>2. PICK r : r = [thread[t] EXCEPT !.pc = "acquire", !.id = i, !.ret = st]
      OBVIOUS
    <3>3. r \in Register /\ r.pc = "acquire" /\ r.ret = st /\ r.cur = thread[t].cur
      BY <1>1, <1>4, <3>1, <3>2 DEF Register
    <3>4. thread' = [thread EXCEPT ![t].pc = "acquire", ![t].id = i, ![t].ret = st]
      BY <1>1, <1>3, <2>4, <3>1 DEF SendPacketFind, cur
    <3>5. Becomes(t, r)
      BY <1>1, <3>2, <3>3, <3>4 DEF Becomes
    <3>. QED  BY <3>1, <3>3, <3>5
  <2>. QED  BY <2>1, <2>2, <2>3, <2>4 DEF NetworkRecvCompleted
<1>6. PICK r \in Register :
        /\ Becomes(t, r) /\ r.cur = thread[t].cur
        /\ \/ r.pc = "recv_inc" /\ r.ret = OfCompletion
           \/ r.pc = "cancel" /\ r.ret = OfLoop
           \/ r.pc \in {"acquire", "release_id"} /\ r.ret = OfReceived
  BY <1>5
<1>7. ControlOK(t, r)
  BY <1>2, <1>6 DEF ControlOK, SendLabel, RemoveLabel
<1>8. Refs(r) = Refs(thread[t]) /\ Refs(thread[t]) # 0
  BY <1>1, <1>2, <1>6, StacksDiffer DEF Refs, HoldLabel
<1>9. /\ In(thread[t], thread[t].cur) /\ thread[t].pc \notin BetweenLabel
      /\ r.pc \notin BetweenLabel /\ ~Sending(r, r.cur) /\ ~Flag(r, r.cur)
      /\ Receiving(thread[t], r.cur)
  BY <1>1, <1>2, <1>6, StacksDiffer
     DEF In, BetweenLabel, Sending, Flag, Receiving, AwayLabel, PoolLabel
<1>. QED  BY <1>2, <1>6, <1>7, <1>8, <1>9, QuietStep

\* The count of slot c changes by d, and no other field.
LEMMA CountIs ==
  ASSUME LanInv, NEW c \in Slot, NEW d \in {-1, 1}, Count(c, d), UNCHANGED <<kernel, unused, uidAcc>>
  PROVE  \E ne \in Session :
           /\ Writes(c, ne, kernel[c].op) /\ ne.ioCount = session[c].ioCount + d
           /\ ne.released = session[c].released /\ ne.isSending = session[c].isSending
<1>1. session \in [Slot -> Session] /\ kernel \in [Slot -> Kernel] /\ session[c] \in Session
  BY DEF LanInv, TypeInv
<1>2. session[c].ioCount + d \in Int
  BY <1>1 DEF Session
<1>3. PICK ne : ne = [session[c] EXCEPT !.ioCount = @ + d]
  OBVIOUS
<1>4. /\ ne \in Session /\ ne.ioCount = session[c].ioCount + d
      /\ ne.released = session[c].released /\ ne.isSending = session[c].isSending
  BY <1>1, <1>2, <1>3 DEF Session
<1>5. Writes(c, ne, kernel[c].op)
  BY <1>1, <1>3, <1>4 DEF Writes, Count
<1>. QED  BY <1>4, <1>5

\* RecvPost, SendPost and SendPacket take a reference.
LEMMA TakeStep ==
  ASSUME LanInv, NEW t \in Thread,
         (RecvPostIncrement(t) /\ t # Acceptor) \/ SendPostIncrement(t) \/ SendPacketAcquire(t)
  PROVE  LanInv'
<1>1. /\ ControlOK(t, thread[t]) /\ thread[t].pc \in {"recv_inc", "send_inc", "acquire"}
      /\ thread[t].cur \in Slot /\ thread[t].ret \in Stack
  BY Setting DEF RecvPostIncrement, SendPostIncrement, SendPacketAcquire, At
<1>2. /\ t # Acceptor /\ UNCHANGED <<kernel, unused, uidAcc>>
      /\ thread[t].pc = "recv_inc" => thread[t].ret = OfCompletion
      /\ thread[t].pc = "send_inc" => thread[t].ret \in {OfCompletion, OfSendPacket}
      /\ thread[t].pc = "acquire" => thread[t].ret = OfReceived
  BY <1>1 DEF ControlOK, AcceptLabel, SendLabel, RemoveLabel, GoneLabel, managerVars,
              RecvPostIncrement, SendPostIncrement, SendPacketAcquire, At, PoolLabel
<1>3. PICK c \in Slot : c = thread[t].cur
  BY <1>1
<1>4. PICK d \in {-1, 1} : d = 1
  OBVIOUS
<1>5. Count(c, d)
  BY <1>3, <1>4 DEF RecvPostIncrement, SendPostIncrement, SendPacketAcquire, cur
<1>6. PICK ne \in Session :
           /\ Writes(c, ne, kernel[c].op) /\ ne.ioCount = session[c].ioCount + d
           /\ ne.released = session[c].released /\ ne.isSending = session[c].isSending
  BY <1>2, <1>5, CountIs
<1>7. PICK l \in Label :
        /\ Goto(t, l)
        /\ \/ thread[t].pc = "recv_inc" /\ l = "recv_wsa"
           \/ thread[t].pc = "send_inc" /\ l = "send_wsa"
           \/ thread[t].pc = "acquire" /\ l \in {"dec", "enqueue"}
  <2>1. {"recv_wsa", "send_wsa", "dec", "enqueue"} \subseteq Label
    BY DEF Label, SendLabel, RemoveLabel
  <2>. QED  BY <2>1 DEF RecvPostIncrement, SendPostIncrement, SendPacketAcquire, At
<1>8. PICK r \in Register : /\ Becomes(t, r) /\ r.pc = l
                            /\ r.ret = thread[t].ret /\ r.cur = thread[t].cur
  BY <1>7, GotoIs
<1>9. ControlOK(t, r)
  BY <1>2, <1>7, <1>8 DEF ControlOK, SendLabel, RemoveLabel
<1>10. Refs(r) = Refs(thread[t]) + d /\ Refs(thread[t]) # 0 /\ Refs(r) # 0
  BY <1>1, <1>2, <1>4, <1>7, <1>8, StacksDiffer DEF Refs, HoldLabel
<1>11. /\ In(thread[t], c) /\ thread[t].pc \notin BetweenLabel /\ r.pc \notin BetweenLabel
       /\ Receiving(r, c) => Receiving(thread[t], c)
       /\ Sending(r, c) => Sending(thread[t], c)
       /\ Flag(r, c) => Flag(thread[t], c)
  BY <1>2, <1>3, <1>7, <1>8, StacksDiffer
     DEF In, BetweenLabel, Sending, Flag, Receiving, AwayLabel, PoolLabel
<1>12. ne.isSending - session[c].isSending >= Bit(Flag(r, c)) - Bit(Flag(thread[t], c))
  <2>1. ne.isSending \in Int
    BY DEF Session
  <2>. QED  BY <1>6, <1>11, <2>1 DEF Bit
<1>13. d \in {-1, 0, 1} /\ thread[t].cur = c /\ r.cur = c
  BY <1>3, <1>8
<1>. QED  BY <1>6, <1>8, <1>9, <1>10, <1>11, <1>12, <1>13, WorkStep

\* At zero nobody has the flag and no send is pending.
LEMMA FlagFree ==
  ASSUME LanInv, NEW c \in Slot, ~session[c].released, session[c].isSending = 0
  PROVE  kernel[c].op["send"] = "idle" /\ \A u \in Thread : ~Sending(thread[u], c)
<1>1. SendOK(c, thread, session[c], kernel[c].op)
  BY DEF LanInv, SendInv
<1>. DEFINE F == Flagged(c, thread)
<1>2. IsFiniteSet(F)
  BY ThreadsFinite, FS_Subset DEF Flagged
<1>3. Cardinality(F) \in Nat
  BY <1>2, FS_CardinalityType
<1>4. 0 >= Cardinality(F) + (IF kernel[c].op["send"] = "idle" THEN 0 ELSE 1)
  BY <1>1 DEF SendOK
<1>5. Cardinality(F) = 0 /\ kernel[c].op["send"] = "idle"
  <2>. HIDE DEF F
  <2>. QED  BY <1>3, <1>4
<1>6. F = {}
  BY <1>2, <1>5, FS_EmptySet
<1>. QED  BY <1>5, <1>6 DEF Flagged

\* SendPost adds one to the flag.
LEMMA TakeFlagStep == ASSUME LanInv, NEW t \in Thread, TakeFlag(t) PROVE LanInv'
<1>1. /\ ControlOK(t, thread[t]) /\ thread[t].pc = "flag_inc"
      /\ thread[t].cur \in Slot /\ thread[t].ret \in Stack
      /\ session \in [Slot -> Session] /\ kernel \in [Slot -> Kernel]
  BY Setting DEF TakeFlag, At
<1>2. /\ t # Acceptor /\ UNCHANGED <<kernel, unused, uidAcc>>
      /\ thread[t].ret \in {OfCompletion, OfSendPacket}
  BY <1>1
     DEF ControlOK, AcceptLabel, SendLabel, RemoveLabel, GoneLabel, managerVars, TakeFlag, PoolLabel
<1>3. PICK c \in Slot : c = thread[t].cur
  BY <1>1
<1>4. session[c] \in Session /\ session[c].isSending \in Int /\ session[c].isSending + 1 \in Int
  BY <1>1 DEF Session
<1>5. PICK ne : ne = [session[c] EXCEPT !.isSending = @ + 1]
  OBVIOUS
<1>6. /\ ne \in Session /\ ne.ioCount = session[c].ioCount
      /\ ne.released = session[c].released /\ ne.isSending = session[c].isSending + 1
  BY <1>4, <1>5 DEF Session
<1>7. Writes(c, ne, kernel[c].op)
  BY <1>1, <1>2, <1>3, <1>5, <1>6 DEF Writes, TakeFlag, cur
<1>8. PICK l \in Label : /\ Goto(t, l) /\ l \in {"flag_dec", "dequeue"}
                         /\ l = "dequeue" => session[c].isSending + 1 = 1
  <2>1. {"flag_dec", "dequeue"} \subseteq Label
    BY DEF Label, SendLabel
  <2>. QED  BY <1>3, <2>1 DEF TakeFlag, cur
<1>9. PICK r \in Register : /\ Becomes(t, r) /\ r.pc = l
                            /\ r.ret = thread[t].ret /\ r.cur = thread[t].cur
  BY <1>8, GotoIs
<1>10. ControlOK(t, r)
  BY <1>2, <1>8, <1>9 DEF ControlOK, SendLabel
<1>11. Refs(r) = Refs(thread[t]) /\ Refs(thread[t]) # 0 /\ Refs(thread[t]) \in 0..3
  BY <1>1, <1>2, <1>8, <1>9, StacksDiffer DEF Refs, HoldLabel
<1>12. /\ In(thread[t], c) /\ thread[t].pc \notin BetweenLabel /\ r.pc \notin BetweenLabel
       /\ Receiving(r, c) => Receiving(thread[t], c)
       /\ Flag(r, c) /\ ~Flag(thread[t], c)
       /\ Sending(r, c) => l = "dequeue"
  BY <1>1, <1>3, <1>8, <1>9 DEF In, BetweenLabel, Sending, Flag, Receiving, AwayLabel, PoolLabel
<1>13. ne.isSending - session[c].isSending >= Bit(Flag(r, c)) - Bit(Flag(thread[t], c))
  BY <1>4, <1>6, <1>12 DEF Bit
<1>14. ~session[c].released
  BY <1>12 DEF LanInv, SlotInv, SlotOK
<1>15. Sending(r, c) => kernel[c].op["send"] = "idle" /\ \A u \in Thread : ~Sending(thread[u], c)
  <2>1. ASSUME l = "dequeue" PROVE session[c].isSending = 0
    BY <1>4, <1>8, <2>1
  <2>. QED  BY <1>12, <1>14, <2>1, FlagFree
<1>16. PICK d \in {-1, 0, 1} : d = 0
  OBVIOUS
<1>17. Refs(r) = Refs(thread[t]) + d /\ ne.ioCount = session[c].ioCount + d
  BY <1>4, <1>6, <1>11, <1>16 DEF Session
<1>18. thread[t].cur = c /\ r.cur = c /\ Refs(r) # 0
  BY <1>3, <1>9, <1>11
<1>19. /\ Refs(thread[t]) # 0 /\ In(thread[t], c) /\ thread[t].pc \notin BetweenLabel
       /\ In(r, c) => Refs(r) # 0 /\ r.pc \notin BetweenLabel
       /\ ne.released = session[c].released
       /\ Receiving(r, c) => Receiving(thread[t], c)
  BY <1>6, <1>11, <1>12, <1>18
<1>. QED  BY <1>6, <1>7, <1>9, <1>10, <1>13, <1>15, <1>17, <1>18, <1>19, WorkStep

\* SendPost gives the flag back and fails, or the completion of a send does.
LEMMA GiveFlagStep ==
  ASSUME LanInv, NEW t \in Thread, GiveFlagBack(t) \/ NetworkSendCompleted(t)
  PROVE  LanInv'
<1>1. /\ ControlOK(t, thread[t]) /\ thread[t].pc \in {"flag_dec", "finish"}
      /\ thread[t].cur \in Slot /\ thread[t].ret \in Stack
      /\ session \in [Slot -> Session] /\ kernel \in [Slot -> Kernel]
  BY Setting DEF GiveFlagBack, NetworkSendCompleted, At
<1>2. /\ t # Acceptor /\ UNCHANGED <<kernel, unused, uidAcc>>
      /\ thread[t].pc = "flag_dec" => thread[t].ret \in {OfCompletion, OfSendPacket}
      /\ thread[t].pc = "finish" => thread[t].ret = OfLoop
  BY <1>1 DEF ControlOK, AcceptLabel, SendLabel, RemoveLabel, GoneLabel, managerVars,
              GiveFlagBack, NetworkSendCompleted, PoolLabel
<1>3. PICK c \in Slot : c = thread[t].cur
  BY <1>1
<1>4. session[c] \in Session /\ session[c].isSending \in Int /\ session[c].isSending - 1 \in Int
  BY <1>1 DEF Session
<1>5. PICK ne \in Session :
        /\ Writes(c, ne, kernel[c].op) /\ ne.ioCount = session[c].ioCount
        /\ ne.released = session[c].released /\ ne.isSending = session[c].isSending - 1
  <2>1. CASE GiveFlagBack(t)
    <3>1. PICK ne : ne = [session[c] EXCEPT !.isSending = @ - 1]
      OBVIOUS
    <3>2. /\ ne \in Session /\ ne.ioCount = session[c].ioCount
          /\ ne.released = session[c].released /\ ne.isSending = session[c].isSending - 1
      BY <1>4, <3>1 DEF Session
    <3>3. Writes(c, ne, kernel[c].op)
      BY <1>1, <1>2, <1>3, <2>1, <3>1, <3>2 DEF Writes, GiveFlagBack, cur
    <3>. QED  BY <3>2, <3>3
  <2>2. CASE NetworkSendCompleted(t)
    <3>0. <<>> \in Seq(Nat)
      OBVIOUS
    <3>1. PICK ne : ne = [session[c] EXCEPT !.sending = <<>>, !.isSending = @ - 1]
      OBVIOUS
    <3>2. /\ ne \in Session /\ ne.ioCount = session[c].ioCount
          /\ ne.released = session[c].released /\ ne.isSending = session[c].isSending - 1
      BY <1>4, <3>0, <3>1 DEF Session
    <3>3. Writes(c, ne, kernel[c].op)
      BY <1>1, <1>2, <1>3, <2>2, <3>1, <3>2 DEF Writes, NetworkSendCompleted, cur
    <3>. QED  BY <3>2, <3>3
  <2>. QED  BY <2>1, <2>2
<1>6. PICK r \in Register :
        /\ Becomes(t, r) /\ r.cur = thread[t].cur
        /\ \/ thread[t].ret = OfCompletion /\ r.pc = "dec" /\ r.ret = OfLoop
           \/ thread[t].ret = OfSendPacket /\ r.pc = "dec" /\ r.ret = OfReceived
           \/ thread[t].pc = "finish" /\ r.pc = "flag" /\ r.ret = OfCompletion
  <2>1. CASE GiveFlagBack(t)
    <3>1. Return(t) /\ thread[t].ret \in {OfCompletion, OfSendPacket}
      BY <1>2, <2>1 DEF GiveFlagBack, At
    <3>. QED  BY <3>1, ReturnIs, StacksDiffer
  <2>2. CASE NetworkSendCompleted(t)
    <3>1. "flag" \in Label
      BY DEF Label, SendLabel
    <3>2. Call(t, "flag", "dec") /\ thread[t].ret = OfLoop /\ thread[t].pc = "finish"
      BY <1>2, <2>2 DEF NetworkSendCompleted, At
    <3>. QED  BY <3>1, <3>2, CallIs
  <2>. QED  BY <2>1, <2>2
<1>7. ControlOK(t, r)
  BY <1>2, <1>6 DEF ControlOK, SendLabel, RemoveLabel
<1>8. Refs(r) = Refs(thread[t]) /\ Refs(thread[t]) # 0 /\ Refs(thread[t]) \in 0..3
  BY <1>1, <1>2, <1>6, StacksDiffer DEF Refs, HoldLabel
<1>9. /\ In(thread[t], c) /\ thread[t].pc \notin BetweenLabel /\ r.pc \notin BetweenLabel
      /\ Receiving(r, c) => Receiving(thread[t], c)
      /\ ~Flag(r, c) /\ Flag(thread[t], c) /\ ~Sending(r, c)
  BY <1>1, <1>2, <1>3, <1>6, StacksDiffer
     DEF In, BetweenLabel, Sending, Flag, Receiving, AwayLabel, PoolLabel
<1>10. ne.isSending - session[c].isSending >= Bit(Flag(r, c)) - Bit(Flag(thread[t], c))
  BY <1>4, <1>5, <1>9 DEF Bit
<1>11. PICK d \in {-1, 0, 1} : d = 0
  OBVIOUS
<1>12. Refs(r) = Refs(thread[t]) + d /\ ne.ioCount = session[c].ioCount + d
  BY <1>4, <1>5, <1>8, <1>11 DEF Session
<1>13. thread[t].cur = c /\ r.cur = c /\ Refs(r) # 0
  BY <1>3, <1>6, <1>8
<1>14. /\ Refs(thread[t]) # 0 /\ In(thread[t], c) /\ thread[t].pc \notin BetweenLabel
       /\ In(r, c) => Refs(r) # 0 /\ r.pc \notin BetweenLabel
       /\ Receiving(r, c) => Receiving(thread[t], c)
       /\ ~Sending(r, c)
  BY <1>8, <1>9, <1>13
<1>. QED  BY <1>5, <1>6, <1>7, <1>10, <1>12, <1>13, <1>14, WorkStep

\* closesocket ends no operation: an aborted one is still to be completed.
LEMMA AbortedKeeps ==
  ASSUME NEW k \in Kernel
  PROVE  /\ Aborted(k) \in [Op -> {"idle", "pending", "ok", "zero", "fail"}]
         /\ \A o \in Op : Aborted(k)[o] = "idle" <=> k.op[o] = "idle"
  BY DEF Aborted, Kernel

\* CancelationIO after a bad packet.
LEMMA CancelStep == ASSUME LanInv, NEW t \in Thread, CancelationIO(t) PROVE LanInv'
<1>1. /\ ControlOK(t, thread[t]) /\ thread[t].pc = "cancel"
      /\ thread[t].cur \in Slot /\ thread[t].ret \in Stack
      /\ session \in [Slot -> Session] /\ kernel \in [Slot -> Kernel]
  BY Setting DEF CancelationIO, At
<1>2. t # Acceptor /\ UNCHANGED <<unused, uidAcc>> /\ thread[t].ret = OfLoop
  BY <1>1
     DEF ControlOK, AcceptLabel, SendLabel, RemoveLabel, GoneLabel, managerVars, CancelationIO, PoolLabel
<1>3. PICK c \in Slot : c = thread[t].cur
  BY <1>1
<1>4. /\ session[c] \in Session /\ session[c].isSending \in Int /\ session[c].ioCount \in Int
      /\ kernel[c] \in Kernel
  BY <1>1 DEF Session
<1>5. PICK no \in [Op -> {"idle", "pending", "ok", "zero", "fail"}] :
        no = Aborted(kernel[c]) /\ \A o \in Op : no[o] = "idle" <=> kernel[c].op[o] = "idle"
  BY <1>4, AbortedKeeps
<1>6. PICK ne : ne = [session[c] EXCEPT !.closed = TRUE]
  OBVIOUS
<1>7. /\ ne \in Session /\ ne.ioCount = session[c].ioCount
      /\ ne.released = session[c].released /\ ne.isSending = session[c].isSending
  BY <1>4, <1>6 DEF Session
<1>8. Writes(c, ne, no)
  <2>1. kernel' = [kernel EXCEPT ![c].op = no]
    BY <1>3, <1>5 DEF CancelationIO, cur
  <2>2. /\ kernel' \in [Slot -> Kernel] /\ kernel'[c].op = no
        /\ \A s \in Slot \ {c} : kernel'[s].op = kernel[s].op
    BY <1>1, <1>4, <2>1 DEF Kernel
  <2>3. /\ session' \in [Slot -> Session] /\ session'[c] = ne
        /\ \A s \in Slot \ {c} : session'[s] = session[s]
    BY <1>1, <1>3, <1>6, <1>7 DEF CancelationIO, cur
  <2>. QED  BY <1>2, <2>2, <2>3 DEF Writes
<1>9. PICK r \in Register : /\ Becomes(t, r) /\ r.pc = "dec"
                            /\ r.ret = thread[t].ret /\ r.cur = thread[t].cur
  <2>1. "dec" \in Label
    BY DEF Label, RemoveLabel
  <2>. QED  BY <2>1, GotoIs DEF CancelationIO
<1>10. ControlOK(t, r)
  BY <1>2, <1>9 DEF ControlOK, RemoveLabel
<1>11. Refs(r) = Refs(thread[t]) /\ Refs(thread[t]) # 0 /\ Refs(thread[t]) \in 0..3
  BY <1>1, <1>2, <1>9, StacksDiffer DEF Refs, HoldLabel
<1>12. /\ In(thread[t], c) /\ thread[t].pc \notin BetweenLabel /\ r.pc \notin BetweenLabel
       /\ ~Receiving(r, c) /\ ~Flag(r, c) /\ ~Flag(thread[t], c) /\ ~Sending(r, c)
  BY <1>1, <1>2, <1>3, <1>9, StacksDiffer
     DEF In, BetweenLabel, Sending, Flag, Receiving, AwayLabel, PoolLabel
<1>13. ne.isSending - session[c].isSending >= Bit(Flag(r, c)) - Bit(Flag(thread[t], c))
  BY <1>4, <1>7, <1>12 DEF Bit
<1>14. PICK d \in {-1, 0, 1} : d = 0
  OBVIOUS
<1>15. Refs(r) = Refs(thread[t]) + d /\ ne.ioCount = session[c].ioCount + d
  BY <1>4, <1>7, <1>11, <1>14
<1>16. thread[t].cur = c /\ r.cur = c /\ Refs(r) # 0
  BY <1>3, <1>9, <1>11
<1>17. /\ Refs(thread[t]) # 0 /\ In(thread[t], c) /\ thread[t].pc \notin BetweenLabel
       /\ In(r, c) => Refs(r) # 0 /\ r.pc \notin BetweenLabel
       /\ ~Receiving(r, c) /\ ~Sending(r, c)
  BY <1>11, <1>12, <1>16
<1>. QED  BY <1>5, <1>7, <1>8, <1>9, <1>10, <1>13, <1>15, <1>16, <1>17, WorkStep

\* SendPost moves the queue to PacketBuffer; SendPacket adds to it.
LEMMA QueueStep ==
  ASSUME LanInv, NEW t \in Thread, DequeueAll(t) \/ SendPacketEnqueue(t) PROVE LanInv'
<1>1. /\ ControlOK(t, thread[t]) /\ thread[t].pc \in {"dequeue", "enqueue"}
      /\ thread[t] \in Register /\ thread[t].cur \in Slot /\ thread[t].ret \in Stack
      /\ session \in [Slot -> Session] /\ kernel \in [Slot -> Kernel]
  BY Setting DEF DequeueAll, SendPacketEnqueue, At
<1>2. /\ t # Acceptor /\ UNCHANGED <<kernel, unused, uidAcc>>
      /\ thread[t].pc = "dequeue" => thread[t].ret \in {OfCompletion, OfSendPacket}
      /\ thread[t].pc = "enqueue" => thread[t].ret = OfReceived
  BY <1>1 DEF ControlOK, AcceptLabel, SendLabel, RemoveLabel, GoneLabel, managerVars,
              DequeueAll, SendPacketEnqueue, PoolLabel
<1>3. PICK c \in Slot : c = thread[t].cur
  BY <1>1
<1>4. /\ session[c] \in Session /\ session[c].isSending \in Int /\ session[c].ioCount \in Int
      /\ session[c].queue \in Seq(Nat) /\ thread[t].id \in Nat /\ <<>> \in Seq(Nat)
  BY <1>1 DEF Session, Register
<1>5. PICK ne \in Session :
        /\ Writes(c, ne, kernel[c].op) /\ ne.ioCount = session[c].ioCount
        /\ ne.released = session[c].released /\ ne.isSending = session[c].isSending
  <2>1. CASE session' = session
    <3>1. Writes(c, session[c], kernel[c].op)
      BY <1>1, <1>2, <2>1 DEF Writes
    <3>. QED  BY <1>4, <3>1
  <2>2. ASSUME NEW q \in Seq(Nat), NEW p \in Seq(Nat),
               session' = [session EXCEPT ![c].queue = q, ![c].sending = p]
        PROVE  \E ne \in Session :
                 /\ Writes(c, ne, kernel[c].op) /\ ne.ioCount = session[c].ioCount
                 /\ ne.released = session[c].released /\ ne.isSending = session[c].isSending
    <3>1. PICK ne : ne = [session[c] EXCEPT !.queue = q, !.sending = p]
      OBVIOUS
    <3>2. /\ ne \in Session /\ ne.ioCount = session[c].ioCount
          /\ ne.released = session[c].released /\ ne.isSending = session[c].isSending
      BY <1>4, <3>1 DEF Session
    <3>3. Writes(c, ne, kernel[c].op)
      BY <1>1, <1>2, <2>2, <3>1, <3>2 DEF Writes
    <3>. QED  BY <3>2, <3>3
  <2>3. CASE DequeueAll(t)
    <3>1. CASE session' # session
      <4>1. session' = [session EXCEPT ![c].sending = session[c].queue, ![c].queue = <<>>]
        BY <1>3, <2>3, <3>1 DEF DequeueAll, cur
      <4>2. session' = [session EXCEPT ![c].queue = <<>>, ![c].sending = session[c].queue]
        BY <1>1, <4>1 DEF Session
      <4>. QED  BY <1>4, <2>2, <4>2
    <3>. QED  BY <2>1, <3>1
  <2>4. CASE SendPacketEnqueue(t)
    <3>1. CASE session' # session
      <4>0. Append(session[c].queue, thread[t].id) \in Seq(Nat)
        BY <1>4, AppendProperties
      <4>1. PICK q \in Seq(Nat) : q = Append(session[c].queue, thread[t].id)
        BY <4>0, Zenon
      <4>2. session' = [session EXCEPT ![c].queue = q]
        <5>1. session' = [session EXCEPT ![c].queue = Append(@, thread[t].id)]
          BY <1>3, <2>4, <3>1, Zenon DEF SendPacketEnqueue, cur
        <5>2. session' = [session EXCEPT ![c] = [session[c] EXCEPT !.queue = q]]
          BY <1>1, <4>1, <5>1
        <5>. QED  BY <1>1, <5>2
      <4>3. session[c].sending \in Seq(Nat)
        BY <1>4 DEF Session
      <4>4. session' = [session EXCEPT ![c].queue = q, ![c].sending = session[c].sending]
        BY <1>1, <4>2 DEF Session
      <4>. QED  BY <2>2, <4>3, <4>4
    <3>. QED  BY <2>1, <3>1
  <2>. QED  BY <2>3, <2>4
<1>6. PICK r \in Register :
        /\ Becomes(t, r) /\ r.cur = thread[t].cur
        /\ \/ /\ thread[t].pc = "dequeue" /\ r.ret = thread[t].ret
              /\ r.pc \in {"threw", "flag_dec", "send_inc"}
           \/ thread[t].pc = "enqueue" /\ r.pc = "flag" /\ r.ret = OfSendPacket
           \/ thread[t].pc = "enqueue" /\ r.pc = "dec" /\ r.ret = OfReceived
  <2>0. {"threw", "flag_dec", "send_inc", "flag", "dec"} \subseteq Label
    BY DEF Label, SendLabel, RemoveLabel
  <2>1. CASE DequeueAll(t)
    <3>1. PICK l \in Label : Goto(t, l) /\ l \in {"threw", "flag_dec", "send_inc"}
      BY <2>0, <2>1 DEF DequeueAll
    <3>. QED  BY <2>1, <3>1, GotoIs DEF DequeueAll, At
  <2>2. CASE SendPacketEnqueue(t)
    <3>1. thread[t].pc = "enqueue" /\ (Call(t, "flag", "dec") \/ Goto(t, "dec"))
      BY <2>2 DEF SendPacketEnqueue, At
    <3>2. CASE Call(t, "flag", "dec")
      BY <1>2, <2>0, <3>1, <3>2, CallIs
    <3>3. CASE Goto(t, "dec")
      BY <1>2, <2>0, <3>1, <3>3, GotoIs
    <3>. QED  BY <3>1, <3>2, <3>3
  <2>. QED  BY <2>1, <2>2
<1>7. ControlOK(t, r)
  BY <1>2, <1>6 DEF ControlOK, SendLabel, RemoveLabel
<1>8. Refs(r) = Refs(thread[t]) /\ Refs(thread[t]) # 0 /\ Refs(thread[t]) \in 0..3
  BY <1>1, <1>2, <1>6, StacksDiffer DEF Refs, HoldLabel
<1>9. /\ In(thread[t], c) /\ thread[t].pc \notin BetweenLabel /\ r.pc \notin BetweenLabel
      /\ Receiving(r, c) => Receiving(thread[t], c)
      /\ Flag(r, c) => Flag(thread[t], c)
      /\ Sending(r, c) => Sending(thread[t], c)
  BY <1>1, <1>2, <1>3, <1>6, StacksDiffer
     DEF In, BetweenLabel, Sending, Flag, Receiving, AwayLabel, PoolLabel
<1>10. ne.isSending - session[c].isSending >= Bit(Flag(r, c)) - Bit(Flag(thread[t], c))
  BY <1>4, <1>5, <1>9 DEF Bit
<1>11. PICK d \in {-1, 0, 1} : d = 0
  OBVIOUS
<1>12. Refs(r) = Refs(thread[t]) + d /\ ne.ioCount = session[c].ioCount + d
  BY <1>4, <1>5, <1>8, <1>11
<1>13. thread[t].cur = c /\ r.cur = c /\ Refs(r) # 0
  BY <1>3, <1>6, <1>8
<1>14. /\ Refs(thread[t]) # 0 /\ In(thread[t], c) /\ thread[t].pc \notin BetweenLabel
       /\ In(r, c) => Refs(r) # 0 /\ r.pc \notin BetweenLabel
       /\ Receiving(r, c) => Receiving(thread[t], c)
       /\ Sending(r, c) => Sending(thread[t], c)
  BY <1>8, <1>9, <1>13
<1>. QED  BY <1>5, <1>6, <1>7, <1>10, <1>12, <1>13, <1>14, WorkStep

-----------------------------------------------------------------------------
(* The last reference. *)

\* Without references nobody has weight, and without weight there are none.
LEMMA HeldNone ==
  ASSUME NEW w \in [Thread -> 0..3]
  PROVE  Cardinality(Held(w)) = 0 <=> \A u \in Thread : w[u] = 0
<1>1. Cardinality(Held(w)) = 0 <=> Held(w) = {}
  BY HeldFinite, FS_EmptySet
<1>2. ASSUME NEW u \in Thread, w[u] # 0 PROVE Held(w) # {}
  <2>1. PICK x : x = <<u, 1>>
    OBVIOUS
  <2>2. x \in Thread \X (1..4) /\ x[1] = u /\ x[2] = 1
    BY <2>1
  <2>3. 1 <= w[u]
    BY <1>2
  <2>. QED  BY <2>2, <2>3 DEF Held
<1>3. ASSUME \A u \in Thread : w[u] = 0, NEW x \in Held(w) PROVE FALSE
  <2>1. x[1] \in Thread /\ x[2] \in 1..4 /\ x[2] <= w[x[1]]
    BY <1>3 DEF Held
  <2>. QED  BY <1>3, <2>1
<1>. QED  BY <1>1, <1>2, <1>3

\* Of one reference, thread t holds all.
LEMMA HeldOne ==
  ASSUME NEW w \in [Thread -> 0..3], NEW t \in Thread, w[t] # 0, Cardinality(Held(w)) <= 1
  PROVE  /\ w[t] = 1 /\ \A u \in Thread \ {t} : w[u] = 0
         /\ Cardinality(Held(w)) = 1
<1>1. PICK v : v = [w EXCEPT ![t] = w[t] - 1]
  OBVIOUS
<1>2. v \in [Thread -> 0..3] /\ w[t] = v[t] + 1 /\ \A u \in Thread \ {t} : w[u] = v[u]
  BY <1>1
<1>3. Cardinality(Held(w)) = Cardinality(Held(v)) + 1
  BY <1>2, HeldMore
<1>4. Cardinality(Held(v)) \in Nat
  BY HeldFinite, FS_CardinalityType
<1>5. Cardinality(Held(v)) = 0
  BY <1>3, <1>4
<1>6. \A u \in Thread : v[u] = 0
  BY <1>2, <1>5, HeldNone
<1>. QED  BY <1>2, <1>3, <1>5, <1>6

\* A thread that gives up the last reference is alone from then on.
LEMMA DropLast ==
  ASSUME NEW s \in Slot, NEW th \in [Thread -> Register], NEW r \in Register,
         NEW g \in [Thread -> Register], NEW t \in Thread,
         g[t] = r, \A u \in Thread \ {t} : g[u] = th[u] /\ ControlOK(u, th[u]),
         ControlOK(t, th[t]),
         NEW se \in Session, NEW ne \in Session, NEW op, NEW free,
         AllOK(s, th, se, op, free), th[t].cur = s, r.cur = s, th[t].pc = "dec",
         r.pc = "release_id", r.ret = th[t].ret,
         se.ioCount - 1 <= 0, ne.ioCount = se.ioCount - 1,
         ne.released = se.released, ne.isSending = se.isSending
  PROVE  AllOK(s, g, ne, op, free) /\ r.ret = OfLoop
<1>0. /\ SlotOK(s, th, se, op, free) /\ SendOK(s, th, se, op) /\ CountOK(s, th, se, op)
      /\ se.ioCount \in Int
  BY DEF AllOK, Session
<1>1. In(th[t], s) /\ th[t].pc \notin BetweenLabel /\ Refs(th[t]) # 0
  BY DEF In, BetweenLabel, Refs, HoldLabel, AwayLabel, PoolLabel
<1>2. ~se.released /\ s \notin free
  BY <1>0, <1>1 DEF SlotOK
<1>3. PICK w \in [Thread -> 0..3] : w = Weight(s, th)
  BY WeightType
<1>4. \A u \in Thread : w[u] = IF th[u].cur = s THEN Refs(th[u]) ELSE 0
  BY <1>3 DEF Weight
<1>5. /\ Cardinality(Held(w)) \in Nat /\ Cardinality(Busy(op)) \in Nat /\ IsFiniteSet(Busy(op))
      /\ se.ioCount = Cardinality(Busy(op)) + Cardinality(Held(w))
  BY <1>0, <1>2, <1>3, HeldFinite, BusyFinite, FS_CardinalityType DEF CountOK
<1>6. w[t] # 0 /\ Cardinality(Held(w)) <= 1
  BY <1>0, <1>1, <1>4, <1>5
<1>7. w[t] = 1 /\ Cardinality(Held(w)) = 1 /\ \A u \in Thread \ {t} : w[u] = 0
  BY <1>6, HeldOne
<1>8. Cardinality(Busy(op)) = 0
  BY <1>0, <1>5, <1>7
<1>9. \A o \in Op : op[o] = "idle"
  <2>1. Busy(op) = {}
    BY <1>5, <1>8, FS_EmptySet
  <2>. QED  BY <2>1 DEF Busy
<1>10. Refs(th[t]) = 1 /\ th[t].ret = OfLoop
  <2>1. Refs(th[t]) = 1
    BY <1>4, <1>7
  <2>2. th[t].ret \notin {OfCompletion, OfReceived, OfSendPacket}
    BY <2>1, StacksDiffer DEF Refs, HoldLabel
  <2>. QED  BY <2>1, <2>2 DEF ControlOK, AcceptLabel, PoolLabel
<1>11. Refs(r) = 0 /\ In(r, s) /\ r.pc \notin BetweenLabel
  BY <1>10, StacksDiffer DEF Refs, HoldLabel, In, BetweenLabel, AwayLabel, PoolLabel
<1>12. ASSUME NEW u \in Thread \ {t} PROVE ~In(th[u], s)
  <2>1. th[u].cur = s => Refs(th[u]) = 0
    BY <1>4, <1>7
  <2>. QED  BY <1>0, <1>1, <2>1 DEF SlotOK, In, AwayLabel, PoolLabel
<1>13. SlotOK(s, g, ne, op, free)
  BY <1>2, <1>9, <1>11, <1>12 DEF SlotOK, BetweenLabel
<1>14. ASSUME NEW u \in Thread PROVE ~Receiving(g[u], s) /\ ~Sending(g[u], s)
  <2>1. CASE u = t
    BY <1>10, <2>1, StacksDiffer DEF Receiving, Sending
  <2>2. CASE u # t
    <3>1. ControlOK(u, th[u]) /\ ~In(th[u], s) /\ g[u] = th[u]
      BY <1>12, <2>2
    <3>. QED  BY <3>1, StacksDiffer DEF ControlOK, In, Receiving, Sending, AcceptLabel, SendLabel,
                                       RemoveLabel, GoneLabel, PoolLabel, AwayLabel
  <2>. QED  BY <2>1, <2>2
<1>15. ReceiveOK(s, g, op)
  BY <1>14 DEF ReceiveOK
<1>16. SendOK(s, g, ne, op)
  <2>1. Flagged(s, g) = Flagged(s, th)
    BY DEF Flagged, Sending
  <2>. QED  BY <1>0, <1>14, <2>1 DEF SendOK
<1>17. CountOK(s, g, ne, op)
  <2>1. PICK d \in {-1, 0, 1}, c \in {-1, 0, 1} : d = -1 /\ c = 0
    OBVIOUS
  <2>2. Weight(s, g)[t] = Weight(s, th)[t] + d
    BY <1>10, <1>11, <2>1 DEF Weight
  <2>3. Cardinality(Busy(op)) = Cardinality(Busy(op)) + c
    BY <1>5, <2>1
  <2>4. ne.ioCount = se.ioCount + (c + d)
    BY <1>0, <2>1
  <2>5. ~ne.released => ~se.released
    OBVIOUS
  <2>. QED  BY <1>0, <2>2, <2>3, <2>4, <2>5, CountMove
<1>. QED  BY <1>10, <1>13, <1>15, <1>16, <1>17 DEF AllOK

\* DecrementIO.
LEMMA DecrementStep == ASSUME LanInv, NEW t \in Thread, Decrement(t) PROVE LanInv'
<1>1. /\ ControlOK(t, thread[t]) /\ thread[t].pc = "dec"
      /\ thread \in [Thread -> Register] /\ thread[t].cur \in Slot /\ thread[t].ret \in Stack
      /\ session \in [Slot -> Session] /\ kernel \in [Slot -> Kernel]
  BY Setting DEF Decrement, At
<1>2. UNCHANGED <<kernel, unused, uidAcc>> /\ thread[t].ret # NoCall
  BY <1>1, StacksDiffer DEF ControlOK, AcceptLabel, Decrement, managerVars, PoolLabel
<1>3. PICK c \in Slot, d \in {-1, 1} : c = thread[t].cur /\ d = -1
  BY <1>1
<1>4. Count(c, d)
  BY <1>3 DEF Decrement, cur
<1>5. PICK ne \in Session :
           /\ Writes(c, ne, kernel[c].op) /\ ne.ioCount = session[c].ioCount + d
           /\ ne.released = session[c].released /\ ne.isSending = session[c].isSending
  BY <1>2, <1>4, CountIs
<1>6. session[c] \in Session /\ session[c].isSending \in Int /\ session[c].ioCount \in Int
  BY <1>1 DEF Session
<1>7. CASE session[c].ioCount - 1 <= 0
  <2>1. PICK r \in Register : /\ Becomes(t, r) /\ r.pc = "release_id"
                              /\ r.ret = thread[t].ret /\ r.cur = thread[t].cur
    <3>1. "release_id" \in Label /\ Goto(t, "release_id")
      BY <1>3, <1>7 DEF Label, RemoveLabel, Decrement, cur
    <3>. QED  BY <3>1, GotoIs
  <2>2. PICK g \in [Thread -> Register], th \in [Thread -> Register], se \in Session,
             op \in {kernel[c].op} :
          g = thread' /\ th = thread /\ se = session[c] /\ op = kernel[c].op
    BY <1>1, <1>6, <2>1 DEF Becomes
  <2>3. g[t] = r /\ \A u \in Thread \ {t} : g[u] = th[u] /\ ControlOK(u, th[u])
    BY <2>1, <2>2 DEF Becomes, LanInv, ControlInv
  <2>4. AllOK(c, th, se, op, unused)
    BY <2>2 DEF LanInv, SlotInv, ReceiveInv, SendInv, CountInv, AllOK
  <2>5. /\ ControlOK(t, th[t]) /\ th[t].cur = c /\ r.cur = c /\ th[t].pc = "dec" /\ r.ret = th[t].ret
        /\ se.ioCount - 1 <= 0 /\ ne.ioCount = se.ioCount - 1
        /\ ne.released = se.released /\ ne.isSending = se.isSending
    BY <1>1, <1>3, <1>5, <1>6, <1>7, <2>1, <2>2
  <2>6. AllOK(c, g, ne, op, unused) /\ r.ret = OfLoop
    BY <2>1, <2>3, <2>4, <2>5, DropLast
  <2>7. AllOK(c, thread', session'[c], kernel'[c].op, unused')
    BY <1>5, <2>2, <2>6 DEF Writes
  <2>8. ControlOK(t, r)
    BY <2>1, <2>6 DEF ControlOK, RemoveLabel
  <2>9. unused \in SUBSET Slot /\ uidAcc \in Nat
    BY DEF LanInv, TypeInv
  <2>. QED  BY <1>3, <1>5, <2>1, <2>7, <2>8, <2>9, LocalStep DEF Becomes, Writes
<1>8. CASE ~(session[c].ioCount - 1 <= 0)
  <2>1. Return(t)
    BY <1>3, <1>8 DEF Decrement, cur
  <2>2. PICK r \in Register :
           /\ Becomes(t, r) /\ r.cur = thread[t].cur
           /\ thread[t].ret = OfLoop => r.pc = "idle" /\ r.ret = NoCall
           /\ thread[t].ret = OfCompletion => r.pc = "dec" /\ r.ret = OfLoop
           /\ thread[t].ret = OfReceived => r.pc = "received" /\ r.ret = OfLoop
           /\ thread[t].ret = OfSendPacket => r.pc = "dec" /\ r.ret = OfReceived
    BY <1>2, <2>1, ReturnIs
  <2>3. thread[t].ret \in {OfLoop, OfCompletion, OfReceived, OfSendPacket}
    BY <1>1, <1>2 DEF Stack
  <2>4. ControlOK(t, r)
    BY <1>1, <2>2, <2>3, StacksDiffer DEF ControlOK, AcceptLabel, RemoveLabel, PoolLabel
  <2>5. Refs(r) = Refs(thread[t]) + d /\ Refs(thread[t]) # 0
    BY <1>1, <1>3, <2>2, <2>3, StacksDiffer DEF Refs, HoldLabel
  <2>6. /\ In(thread[t], c) /\ thread[t].pc \notin BetweenLabel
        /\ In(r, c) => Refs(r) # 0 /\ r.pc \notin BetweenLabel
        /\ Receiving(r, c) => Receiving(thread[t], c)
        /\ ~Sending(r, c) /\ ~Flag(r, c) /\ ~Flag(thread[t], c)
    BY <1>1, <1>3, <2>2, <2>3, StacksDiffer
       DEF In, BetweenLabel, Sending, Flag, Receiving, Refs, HoldLabel, AwayLabel, PoolLabel
  <2>7. ne.isSending - session[c].isSending >= Bit(Flag(r, c)) - Bit(Flag(thread[t], c))
    BY <1>5, <1>6, <2>6 DEF Bit
  <2>8. d \in {-1, 0, 1} /\ thread[t].cur = c /\ r.cur = c
    BY <1>3, <2>2
  <2>. QED  BY <1>5, <2>2, <2>4, <2>5, <2>6, <2>7, <2>8, WorkStep
<1>. QED  BY <1>7, <1>8

-----------------------------------------------------------------------------
(* A thread that is alone in its slot. *)

\* A thread that is not in slot s is outside of it.
LEMMA NotIn ==
  ASSUME NEW s, NEW u, NEW r \in Register, ControlOK(u, r), ~In(r, s)
  PROVE  Outside(r, s)
  BY
     DEF ControlOK, In, Outside, AcceptLabel, SendLabel, RemoveLabel, GoneLabel, PoolLabel, AwayLabel

\* The references to a slot that only thread t is in.
LEMMA HeldAlone ==
  ASSUME NEW w \in [Thread -> 0..3], NEW t \in Thread, w[t] \in {0, 1},
         \A u \in Thread \ {t} : w[u] = 0
  PROVE  Cardinality(Held(w)) = w[t]
<1>1. PICK z : z = [u \in Thread |-> 0]
  OBVIOUS
<1>2. z \in [Thread -> 0..3] /\ \A u \in Thread : z[u] = 0
  BY <1>1
<1>3. Cardinality(Held(z)) = 0
  BY <1>2, HeldNone
<1>4. PICK d \in {-1, 0, 1} : d = w[t]
  OBVIOUS
<1>5. w[t] = z[t] + d /\ \A u \in Thread \ {t} : w[u] = z[u]
  BY <1>2, <1>4
<1>6. Cardinality(Held(w)) = Cardinality(Held(z)) + d
  BY <1>2, <1>5, HeldMove
<1>. QED  BY <1>3, <1>4, <1>6

\* What a thread t that holds no reference finds in its slot.
AloneIn(s, t, th, se, op, free) ==
  /\ \A u \in Thread \ {t} : ~In(th[u], s)
  /\ \A o \in Op : op[o] = "idle"
  /\ se.released <=> th[t].pc \in BetweenLabel
  /\ s \notin free
  /\ ~se.released => se.ioCount = 0 /\ se.isSending >= 0
  /\ th[t].pc \in {"init", "open", "push"} =>
       se.closed /\ se.queue = <<>> /\ se.sending = <<>>

Controlled(th) == \A u \in Thread : ControlOK(u, th[u])

\* It is alone, the kernel has no operation, and the count is 0.
LEMMA Alone ==
  ASSUME NEW s, NEW th \in [Thread -> Register], NEW t \in Thread, Controlled(th),
         NEW se \in Session, NEW op, NEW free, AllOK(s, th, se, op, free),
         In(th[t], s), Refs(th[t]) = 0
  PROVE  AloneIn(s, t, th, se, op, free)
<1>1. SlotOK(s, th, se, op, free) /\ CountOK(s, th, se, op) /\ SendOK(s, th, se, op)
  BY DEF AllOK
<1>2. \A u \in Thread \ {t} : ~In(th[u], s)
  BY <1>1 DEF SlotOK
<1>3. \A o \in Op : op[o] = "idle"
  BY <1>1 DEF SlotOK
<1>4. (se.released <=> th[t].pc \in BetweenLabel) /\ s \notin free
  BY <1>1 DEF SlotOK
<1>5. PICK w \in [Thread -> 0..3] : w = Weight(s, th)
  BY WeightType
<1>6. ASSUME NEW u \in Thread PROVE w[u] = 0
  <2>1. CASE u = t
    BY <1>5, <2>1 DEF Weight, In, AwayLabel, PoolLabel
  <2>2. CASE u # t
    <3>1. Outside(th[u], s)
      BY <1>2, <2>2, NotIn DEF Controlled
    <3>. QED  BY <1>5, <3>1, OutsideWeight DEF Weight
  <2>. QED  BY <2>1, <2>2
<1>7. Cardinality(Held(w)) = 0
  BY <1>6, HeldNone
<1>8. Cardinality(Busy(op)) = 0
  <2>1. Busy(op) = {}
    BY <1>3 DEF Busy
  <2>. QED  BY <2>1, FS_EmptySet
<1>9. ~se.released => se.ioCount = 0
  BY <1>1, <1>5, <1>7, <1>8 DEF CountOK
<1>10. ~se.released => se.isSending >= 0
  <2>1. IsFiniteSet(Flagged(s, th))
    BY ThreadsFinite, FS_Subset DEF Flagged
  <2>2. PICK n \in Nat : n = Cardinality(Flagged(s, th))
    BY <2>1, FS_CardinalityType
  <2>3. se.isSending \in Int
    BY DEF Session
  <2>. QED  BY <1>1, <2>2, <2>3 DEF SendOK
<1>11. th[t].pc \in {"init", "open", "push"} => se.closed /\ se.queue = <<>> /\ se.sending = <<>>
  BY <1>1 DEF SlotOK
<1>. QED  BY <1>2, <1>3, <1>4, <1>9, <1>10, <1>11 DEF AloneIn

\* What such a thread, now with the registers r, has to leave behind: the
\* fields ne and the pool nf.
Settled(s, r, ne, nf) ==
  /\ ~Flag(r, s) /\ Refs(r) \in {0, 1}
  /\ ne.released <=> (s \in nf \/ r.pc \in BetweenLabel)
  /\ s \in nf => ~In(r, s)
  /\ ~ne.released => ne.ioCount = Refs(r) /\ ne.isSending >= 0
  /\ s \in nf \/ r.pc \in {"init", "open", "push"} =>
       ne.closed /\ ne.queue = <<>> /\ ne.sending = <<>>

\* Then all is well with the slot.
LEMMA AloneOK ==
  ASSUME NEW s, NEW g \in [Thread -> Register], NEW t \in Thread, NEW r \in Register,
         g[t] = r, r.cur = s,
         \A u \in Thread \ {t} : ~In(g[u], s) /\ ControlOK(u, g[u]),
         NEW ne \in Session, NEW op, \A o \in Op : op[o] = "idle", NEW nf,
         Settled(s, r, ne, nf)
  PROVE  AllOK(s, g, ne, op, nf)
<1>1. ASSUME NEW u \in Thread \ {t}
      PROVE  /\ ~In(g[u], s) /\ ~Receiving(g[u], s) /\ ~Sending(g[u], s) /\ ~Flag(g[u], s)
             /\ (IF g[u].cur = s THEN Refs(g[u]) ELSE 0) = 0
  <2>1. Outside(g[u], s)
    BY NotIn
  <2>. QED  BY <2>1, OutsideWeight
<1>2. SlotOK(s, g, ne, op, nf)
  <2>1. r.pc \in BetweenLabel => In(r, s)
    BY DEF In, BetweenLabel, AwayLabel, PoolLabel
  <2>2. \A u \in Thread : In(g[u], s) => u = t
    BY <1>1
  <2>3. ne.released => s \in nf \/ \E u \in Thread : In(g[u], s)
    BY <2>1 DEF Settled
  <2>4. s \in nf \/ (\E u \in Thread : In(g[u], s) /\ g[u].pc \in {"init", "open", "push"})
          => ne.closed /\ ne.queue = <<>> /\ ne.sending = <<>>
    BY <2>2 DEF Settled
  <2>5. \A u \in Thread : In(g[u], s) => (g[u].pc \in BetweenLabel <=> ne.released) /\ s \notin nf
    BY <2>2 DEF Settled
  <2>6. s \in nf => ne.released /\ \A u \in Thread : ~In(g[u], s)
    BY <2>2 DEF Settled
  <2>. QED  BY <2>2, <2>3, <2>4, <2>5, <2>6 DEF SlotOK
<1>3. ReceiveOK(s, g, op)
  BY <1>1 DEF ReceiveOK, Op
<1>4. SendOK(s, g, ne, op)
  <2>1. Flagged(s, g) = {}
    BY <1>1 DEF Flagged, Flag, Settled
  <2>2. Cardinality(Flagged(s, g)) = 0 /\ ne.isSending \in Int
    BY <2>1, FS_EmptySet DEF Session
  <2>3. op["send"] = "idle"
    BY DEF Op
  <2>4. \A u \in Thread : ~Sending(g[u], s)
    BY <2>1 DEF Flagged
  <2>5. ~ne.released => ne.isSending >= 0
    BY DEF Settled
  <2>. QED  BY <2>2, <2>3, <2>4, <2>5 DEF SendOK
<1>5. CountOK(s, g, ne, op)
  <2>1. PICK w \in [Thread -> 0..3] : w = Weight(s, g)
    BY WeightType
  <2>2. w[t] = Refs(r) /\ \A u \in Thread \ {t} : w[u] = 0
    BY <1>1, <2>1 DEF Weight
  <2>3. Cardinality(Held(w)) = Refs(r)
    BY <2>2, HeldAlone DEF Settled
  <2>4. Busy(op) = {}
    BY DEF Busy
  <2>5. Cardinality(Busy(op)) = 0
    BY <2>4, FS_EmptySet
  <2>6. ~ne.released => ne.ioCount = Refs(r) /\ Refs(r) \in {0, 1}
    BY DEF Settled
  <2>. QED  BY <2>1, <2>3, <2>5, <2>6 DEF CountOK
<1>. QED  BY <1>2, <1>3, <1>4, <1>5 DEF AllOK

\* The OVERLAPPEDs and the pool stay as they are, but for slot c.
Others(c) ==
  \A s \in Slot \ {c} : /\ session'[s] = session[s] /\ kernel'[s].op = kernel[s].op
                        /\ s \in unused' <=> s \in unused

\* A step in a slot that no other thread is in.
LEMMA AloneStep ==
  ASSUME LanInv, NEW t \in Thread, NEW c \in Slot, NEW r \in Register, Becomes(t, r), r.cur = c,
         thread[t].cur = c \/ Outside(thread[t], thread[t].cur), ControlOK(t, r),
         \A u \in Thread \ {t} : ~In(thread[u], c),
         session' \in [Slot -> Session], kernel' \in [Slot -> Kernel],
         unused' \in SUBSET Slot, uidAcc' \in Nat, Others(c),
         \A o \in Op : kernel'[c].op[o] = "idle",
         Settled(c, r, session'[c], unused')
  PROVE  LanInv'
<1>1. PICK g \in [Thread -> Register], ne \in Session,
           op \in {kernel'[c].op}, nf \in {unused'} :
        g = thread' /\ ne = session'[c] /\ op = kernel'[c].op /\ nf = unused'
  BY DEF Becomes
<1>2. g[t] = r /\ \A u \in Thread \ {t} : g[u] = thread[u]
  BY <1>1 DEF Becomes
<1>3. \A u \in Thread \ {t} : ~In(g[u], c) /\ ControlOK(u, g[u])
  BY <1>2 DEF LanInv, ControlInv
<1>4. (\A o \in Op : op[o] = "idle") /\ Settled(c, r, ne, nf)
  BY <1>1
<1>5. AllOK(c, g, ne, op, nf)
  BY <1>2, <1>3, <1>4, AloneOK
<1>6. AllOK(c, thread', session'[c], kernel'[c].op, unused')
  BY <1>1, <1>5
<1>. QED  BY <1>6, LocalStep DEF Becomes, Others

\* The same, of the current state.
LEMMA AloneHere ==
  ASSUME LanInv, NEW t \in Thread, NEW c \in Slot, In(thread[t], c), Refs(thread[t]) = 0
  PROVE  AloneIn(c, t, thread, session[c], kernel[c].op, unused)
<1>1. thread \in [Thread -> Register] /\ session[c] \in Session /\ Controlled(thread)
  BY DEF LanInv, TypeInv, ControlInv, Controlled
<1>2. AllOK(c, thread, session[c], kernel[c].op, unused)
  BY DEF LanInv, SlotInv, ReceiveInv, SendInv, CountInv, AllOK
<1>3. PICK th \in [Thread -> Register], se \in Session,
           op \in {kernel[c].op}, free \in {unused} :
        th = thread /\ se = session[c] /\ op = kernel[c].op /\ free = unused
  BY <1>1
<1>4. AllOK(c, th, se, op, free) /\ In(th[t], c) /\ Refs(th[t]) = 0 /\ Controlled(th)
  BY <1>1, <1>2, <1>3
<1>5. AloneIn(c, t, th, se, op, free)
  BY <1>4, Alone
<1>. QED  BY <1>3, <1>5

\* Only the registers of such a thread change.
LEMMA AloneQuiet ==
  ASSUME LanInv, NEW t \in Thread, NEW r \in Register, Becomes(t, r),
         r.cur = thread[t].cur, ControlOK(t, r),
         UNCHANGED <<session, kernel, unused, uidAcc>>,
         In(thread[t], thread[t].cur), Refs(thread[t]) = 0, thread[t].pc \notin BetweenLabel,
         r.pc \notin BetweenLabel, Refs(r) = 0, ~Flag(r, r.cur)
  PROVE  LanInv'
<1>1. /\ TypeInv /\ thread[t].cur \in Slot
      /\ session \in [Slot -> Session] /\ kernel \in [Slot -> Kernel]
  BY Setting
<1>2. PICK c \in Slot : c = thread[t].cur
  BY <1>1
<1>3. /\ \A u \in Thread \ {t} : ~In(thread[u], c)
      /\ \A o \in Op : kernel[c].op[o] = "idle"
      /\ session[c].released <=> thread[t].pc \in BetweenLabel
      /\ c \notin unused
      /\ ~session[c].released => session[c].ioCount = 0 /\ session[c].isSending >= 0
  BY <1>2, AloneHere DEF AloneIn
<1>4. Settled(c, r, session'[c], unused')
  BY <1>2, <1>3 DEF Settled, BetweenLabel
<1>5. unused' \in SUBSET Slot /\ uidAcc' \in Nat /\ Others(c)
  BY <1>1 DEF TypeInv, Others
<1>6. \A o \in Op : kernel'[c].op[o] = "idle"
  BY <1>3
<1>. QED  BY <1>1, <1>2, <1>3, <1>4, <1>5, <1>6, AloneStep

\* TryRemoveSession reads the id.
LEMMA ReadIdStep == ASSUME LanInv, NEW t \in Thread, ReadId(t) PROVE LanInv'
<1>1. /\ ControlOK(t, thread[t]) /\ thread[t].pc = "release_id"
      /\ thread \in [Thread -> Register] /\ thread[t] \in Register
      /\ session[thread[t].cur] \in Session
  BY Setting DEF ReadId, At
<1>2. UNCHANGED <<session, kernel, unused, uidAcc>>
  BY DEF ReadId, managerVars
<1>3. PICK i \in Nat : i = session[thread[t].cur].id
  BY <1>1 DEF Session
<1>4. PICK r : r = [thread[t] EXCEPT !.pc = "release_cas", !.id = i]
  OBVIOUS
<1>5. "release_cas" \in Label
  BY DEF Label, RemoveLabel
<1>6. /\ r \in Register /\ r.pc = "release_cas" /\ r.ret = thread[t].ret /\ r.cur = thread[t].cur
  BY <1>1, <1>4, <1>5 DEF Register
<1>7. Becomes(t, r)
  BY <1>1, <1>3, <1>4, <1>6 DEF Becomes, ReadId, cur
<1>8. ControlOK(t, r)
  BY <1>1, <1>6 DEF ControlOK, AcceptLabel, SendLabel, RemoveLabel, GoneLabel, PoolLabel
<1>9. Refs(r) = Refs(thread[t])
  BY <1>1, <1>6 DEF Refs, HoldLabel
<1>10. /\ In(thread[t], thread[t].cur) /\ thread[t].pc \notin BetweenLabel
       /\ r.pc \notin BetweenLabel /\ ~Sending(r, r.cur) /\ ~Flag(r, r.cur)
       /\ Receiving(r, r.cur) => Receiving(thread[t], r.cur)
  BY <1>1, <1>6 DEF In, BetweenLabel, Sending, Flag, Receiving, AwayLabel, PoolLabel
<1>11. CASE Refs(thread[t]) = 0
  BY <1>2, <1>6, <1>7, <1>8, <1>9, <1>10, <1>11, AloneQuiet
<1>12. CASE Refs(thread[t]) # 0
  BY <1>2, <1>6, <1>7, <1>8, <1>9, <1>10, <1>12, QuietStep
<1>. QED  BY <1>11, <1>12

\* LanSession::TryRelease: it fails exactly for a caller that holds a
\* reference, and succeeds exactly for one that is alone.
LEMMA ReleaseCasStep == ASSUME LanInv, NEW t \in Thread, ReleaseCas(t) PROVE LanInv'
<1>1. /\ TypeInv /\ ControlOK(t, thread[t]) /\ thread[t].pc = "release_cas"
      /\ thread \in [Thread -> Register] /\ thread[t] \in Register
      /\ thread[t].cur \in Slot /\ thread[t].ret \in Stack
      /\ session \in [Slot -> Session] /\ kernel \in [Slot -> Kernel]
  BY Setting DEF ReleaseCas, At
<1>2. UNCHANGED <<kernel, unused, uidAcc>>
  BY DEF ReleaseCas, managerVars
<1>3. PICK c \in Slot : c = thread[t].cur
  BY <1>1
<1>4. /\ In(thread[t], c) /\ thread[t].pc \notin BetweenLabel /\ session[c] \in Session
      /\ thread[t].ret \in {OfLoop, OfCompletion, OfReceived, OfSendPacket}
  BY <1>1, <1>3 DEF In, BetweenLabel, ControlOK, AcceptLabel, PoolLabel, AwayLabel
<1>5. ~session[c].released
  BY <1>4 DEF LanInv, SlotInv, SlotOK
<1>6. CASE session[c].ioCount # 0
  <2>1. Return(t) /\ session' = session
    BY <1>3, <1>6 DEF ReleaseCas, cur
  <2>2. Refs(thread[t]) # 0
    BY <1>4, <1>5, <1>6, AloneHere DEF AloneIn
  <2>3. thread[t].ret \in {OfCompletion, OfReceived, OfSendPacket}
    BY <1>1, <1>4, <2>2, StacksDiffer DEF Refs, HoldLabel
  <2>4. PICK r \in Register :
           /\ Becomes(t, r) /\ r.cur = thread[t].cur
           /\ thread[t].ret = OfLoop => r.pc = "idle" /\ r.ret = NoCall
           /\ thread[t].ret = OfCompletion => r.pc = "dec" /\ r.ret = OfLoop
           /\ thread[t].ret = OfReceived => r.pc = "received" /\ r.ret = OfLoop
           /\ thread[t].ret = OfSendPacket => r.pc = "dec" /\ r.ret = OfReceived
    <3>1. thread[t].ret # NoCall
      BY <2>3, StacksDiffer
    <3>. QED  BY <2>1, <3>1, ReturnIs
  <2>5. t # Acceptor
    BY <1>1, <2>3, StacksDiffer DEF ControlOK
  <2>6. ControlOK(t, r)
    BY <2>3, <2>4, <2>5 DEF ControlOK, RemoveLabel
  <2>7. Refs(r) = Refs(thread[t])
    BY <1>1, <2>3, <2>4, StacksDiffer DEF Refs, HoldLabel
  <2>8. /\ r.pc \notin BetweenLabel /\ ~Sending(r, r.cur) /\ ~Flag(r, r.cur)
        /\ Receiving(r, r.cur) => Receiving(thread[t], r.cur)
    BY <2>3, <2>4, StacksDiffer DEF BetweenLabel, Sending, Flag, Receiving
  <2>. QED  BY <1>2, <1>3, <1>4, <2>1, <2>2, <2>4, <2>6, <2>7, <2>8, QuietStep
<1>7. CASE session[c].ioCount = 0
  <2>1. session' = [session EXCEPT ![c].released = TRUE] /\ Goto(t, "release")
    BY <1>3, <1>5, <1>7 DEF ReleaseCas, cur
  <2>2. Refs(thread[t]) = 0
    <3>1. PICK w \in [Thread -> 0..3] : w = Weight(c, thread)
      BY <1>1, WeightType
    <3>2. Cardinality(Busy(kernel[c].op)) \in Nat /\ Cardinality(Held(w)) \in Nat
      BY BusyFinite, HeldFinite, FS_CardinalityType
    <3>3. 0 = Cardinality(Busy(kernel[c].op)) + Cardinality(Held(w))
      BY <1>5, <1>7, <3>1 DEF LanInv, CountInv, CountOK
    <3>4. Cardinality(Held(w)) = 0
      BY <3>2, <3>3
    <3>5. w[t] = 0
      BY <3>4, HeldNone
    <3>. QED  BY <1>3, <3>1, <3>5 DEF Weight
  <2>3. thread[t].ret = OfLoop
    BY <1>1, <1>4, <2>2, StacksDiffer DEF Refs, HoldLabel
  <2>4. PICK r \in Register : /\ Becomes(t, r) /\ r.pc = "release"
                              /\ r.ret = thread[t].ret /\ r.cur = thread[t].cur
    <3>1. "release" \in Label
      BY DEF Label, GoneLabel
    <3>. QED  BY <2>1, <3>1, GotoIs
  <2>5. ControlOK(t, r)
    BY <2>3, <2>4 DEF ControlOK, GoneLabel
  <2>6. /\ \A u \in Thread \ {t} : ~In(thread[u], c)
        /\ \A o \in Op : kernel[c].op[o] = "idle"
        /\ c \notin unused
    BY <1>4, <2>2, AloneHere DEF AloneIn
  <2>7. session' \in [Slot -> Session] /\ session'[c].released
    BY <1>1, <1>4, <2>1 DEF Session
  <2>8. Settled(c, r, session'[c], unused')
    BY <1>2, <2>3, <2>4, <2>6, <2>7, StacksDiffer
       DEF Settled, Flag, Sending, Refs, HoldLabel, BetweenLabel
  <2>9. kernel' \in [Slot -> Kernel] /\ unused' \in SUBSET Slot /\ uidAcc' \in Nat /\ Others(c)
    BY <1>1, <1>2, <2>1 DEF TypeInv, Others
  <2>10. \A o \in Op : kernel'[c].op[o] = "idle"
    BY <1>2, <2>6
  <2>. QED  BY <1>3, <2>4, <2>5, <2>6, <2>7, <2>8, <2>9, <2>10, AloneStep
<1>. QED  BY <1>6, <1>7

\* LanSession::Release.
LEMMA ReleaseStep == ASSUME LanInv, NEW t \in Thread, Release(t) PROVE LanInv'
<1>1. /\ TypeInv /\ ControlOK(t, thread[t]) /\ thread[t].pc = "release"
      /\ thread[t].cur \in Slot
      /\ session \in [Slot -> Session] /\ kernel \in [Slot -> Kernel]
  BY Setting DEF Release, At
<1>2. UNCHANGED <<unused, uidAcc>>
  BY DEF Release, managerVars
<1>3. PICK c \in Slot : c = thread[t].cur
  BY <1>1
<1>4. thread[t].ret = OfLoop
  BY <1>1 DEF ControlOK, AcceptLabel, SendLabel, RemoveLabel, GoneLabel, PoolLabel
<1>5. /\ In(thread[t], c) /\ Refs(thread[t]) = 0 /\ thread[t].pc \in BetweenLabel
      /\ session[c] \in Session /\ kernel[c] \in Kernel
  BY <1>1, <1>3, <1>4, StacksDiffer DEF In, Refs, HoldLabel, BetweenLabel, AwayLabel, PoolLabel
<1>6. /\ \A u \in Thread \ {t} : ~In(thread[u], c)
      /\ \A o \in Op : kernel[c].op[o] = "idle"
      /\ session[c].released /\ c \notin unused
  BY <1>5, AloneHere DEF AloneIn
<1>7. PICK r \in Register : /\ Becomes(t, r) /\ r.pc = "push"
                            /\ r.ret = thread[t].ret /\ r.cur = thread[t].cur
  <2>1. "push" \in Label /\ Goto(t, "push")
    BY DEF Label, GoneLabel, Release
  <2>. QED  BY <2>1, GotoIs
<1>8. ControlOK(t, r)
  BY <1>1, <1>4, <1>7 DEF ControlOK, GoneLabel
<1>9. PICK ne : ne = [session[c] EXCEPT !.id = 0, !.closed = TRUE, !.queue = <<>>,
                                        !.sending = <<>>, !.isSending = @ - 1]
  OBVIOUS
<1>10. /\ ne \in Session /\ ne.released /\ ne.closed /\ ne.queue = <<>> /\ ne.sending = <<>>
  <2>1. <<>> \in Seq(Nat) /\ session[c].isSending - 1 \in Int
    BY <1>5 DEF Session
  <2>. QED  BY <1>5, <1>6, <1>9, <2>1 DEF Session
<1>11. /\ session' \in [Slot -> Session] /\ session'[c] = ne
       /\ \A s \in Slot \ {c} : session'[s] = session[s]
  BY <1>1, <1>3, <1>9, <1>10 DEF Release, cur
<1>12. PICK no \in [Op -> {"idle", "pending", "ok", "zero", "fail"}] :
         no = Aborted(kernel[c]) /\ \A o \in Op : no[o] = "idle" <=> kernel[c].op[o] = "idle"
  BY <1>5, AbortedKeeps
<1>13. /\ kernel' \in [Slot -> Kernel] /\ kernel'[c].op = no
       /\ \A s \in Slot \ {c} : kernel'[s].op = kernel[s].op
  <2>1. kernel' = [kernel EXCEPT ![c].op = no]
    BY <1>3, <1>12 DEF Release, cur
  <2>. QED  BY <1>1, <1>5, <2>1 DEF Kernel
<1>14. \A o \in Op : kernel'[c].op[o] = "idle"
  BY <1>6, <1>12, <1>13
<1>15. Settled(c, r, session'[c], unused')
  BY <1>2, <1>4, <1>6, <1>7, <1>10, <1>11, StacksDiffer
     DEF Settled, Flag, Sending, Refs, HoldLabel, BetweenLabel
<1>16. unused' \in SUBSET Slot /\ uidAcc' \in Nat /\ Others(c)
  BY <1>1, <1>2, <1>11, <1>13 DEF TypeInv, Others
<1>. QED  BY <1>3, <1>6, <1>7, <1>8, <1>11, <1>13, <1>14, <1>15, <1>16, AloneStep

\* The index goes back to the pool.
LEMMA PushIndexStep == ASSUME LanInv, NEW t \in Thread, PushIndex(t) PROVE LanInv'
<1>1. /\ TypeInv /\ ControlOK(t, thread[t]) /\ thread[t].pc = "push"
      /\ thread[t].cur \in Slot
      /\ session \in [Slot -> Session] /\ kernel \in [Slot -> Kernel]
  BY Setting DEF PushIndex, At
<1>2. PICK c \in Slot : c = thread[t].cur
  BY <1>1
<1>3. /\ UNCHANGED <<session, kernel, uidAcc>>
      /\ \/ unused' = unused \cup {c} /\ Goto(t, "count_down")
         \/ unused' = unused /\ Goto(t, "refused")
  BY <1>2 DEF PushIndex, cur
<1>4. thread[t].ret = OfLoop
  BY <1>1 DEF ControlOK, AcceptLabel, SendLabel, RemoveLabel, GoneLabel, PoolLabel
<1>5. In(thread[t], c) /\ Refs(thread[t]) = 0 /\ thread[t].pc \in BetweenLabel
  BY <1>1, <1>2, <1>4, StacksDiffer DEF In, Refs, HoldLabel, BetweenLabel, AwayLabel, PoolLabel
<1>6. /\ \A u \in Thread \ {t} : ~In(thread[u], c)
      /\ \A o \in Op : kernel[c].op[o] = "idle"
      /\ session[c].released /\ c \notin unused
      /\ session[c].closed /\ session[c].queue = <<>> /\ session[c].sending = <<>>
  BY <1>1, <1>5, AloneHere DEF AloneIn
<1>7. PICK r \in Register : /\ Becomes(t, r) /\ r.ret = thread[t].ret /\ r.cur = thread[t].cur
                            /\ \/ unused' = unused \cup {c} /\ r.pc = "count_down"
                               \/ unused' = unused /\ r.pc = "refused"
  <2>1. {"count_down", "refused"} \subseteq Label
    BY DEF Label, GoneLabel
  <2>2. CASE unused' = unused \cup {c} /\ Goto(t, "count_down")
    BY <2>1, <2>2, GotoIs
  <2>3. CASE unused' = unused /\ Goto(t, "refused")
    BY <2>1, <2>3, GotoIs
  <2>. QED  BY <1>3, <2>2, <2>3
<1>8. ControlOK(t, r)
  BY <1>1, <1>4, <1>7 DEF ControlOK, GoneLabel
<1>9. Settled(c, r, session'[c], unused')
  BY <1>3, <1>4, <1>6, <1>7, StacksDiffer
     DEF Settled, Flag, Sending, In, Refs, HoldLabel, BetweenLabel, AwayLabel, PoolLabel
<1>10. unused' \in SUBSET Slot /\ uidAcc' \in Nat /\ Others(c)
  BY <1>1, <1>3 DEF TypeInv, Others
<1>11. \A o \in Op : kernel'[c].op[o] = "idle"
  BY <1>3, <1>6
<1>. QED  BY <1>1, <1>2, <1>3, <1>6, <1>7, <1>8, <1>9, <1>10, <1>11, AloneStep

\* The count of sessions goes down, OnDisconnected is called.
LEMMA LeaveStep == ASSUME LanInv, NEW t \in Thread, CountDown(t) \/ OnDisconnected(t) PROVE LanInv'
<1>1. /\ TypeInv /\ ControlOK(t, thread[t]) /\ thread[t].pc \in {"count_down", "on_disconnected"}
      /\ thread \in [Thread -> Register] /\ thread[t].cur \in Slot
      /\ session \in [Slot -> Session] /\ kernel \in [Slot -> Kernel]
  BY Setting DEF CountDown, OnDisconnected, At
<1>2. UNCHANGED <<session, kernel, unused, uidAcc>>
  BY DEF CountDown, OnDisconnected, managerVars
<1>3. thread[t].ret = OfLoop
  BY <1>1 DEF ControlOK, AcceptLabel, SendLabel, RemoveLabel, GoneLabel, PoolLabel
<1>4. PICK r \in Register :
        /\ Becomes(t, r) /\ r.cur = thread[t].cur
        /\ \/ r.pc = "on_disconnected" /\ r.ret = OfLoop
           \/ r.pc = "idle" /\ r.ret = NoCall
  <2>1. CASE CountDown(t)
    <3>1. "on_disconnected" \in Label /\ Goto(t, "on_disconnected")
      BY <2>1 DEF Label, GoneLabel, CountDown
    <3>. QED  BY <1>3, <3>1, GotoIs
  <2>2. CASE OnDisconnected(t)
    <3>1. Return(t) /\ thread[t].ret # NoCall
      BY <1>3, <2>2, StacksDiffer DEF OnDisconnected
    <3>. QED  BY <1>3, <3>1, ReturnIs
  <2>. QED  BY <2>1, <2>2
<1>5. ControlOK(t, r)
  BY <1>1, <1>4 DEF ControlOK, GoneLabel, AcceptLabel, PoolLabel
<1>6. PICK c \in Slot : c = thread[t].cur
  BY <1>1
<1>7. Outside(thread[t], c) /\ Outside(r, c)
  BY <1>1, <1>3, <1>4 DEF Outside, AwayLabel, PoolLabel
<1>8. AllOK(c, thread', session'[c], kernel'[c].op, unused')
  <2>1. PICK g \in [Thread -> Register], th \in [Thread -> Register], se \in Session :
          g = thread' /\ th = thread /\ se = session[c]
    BY <1>1, <1>4 DEF Becomes
  <2>2. g[t] = r /\ \A u \in Thread \ {t} : g[u] = th[u]
    BY <1>4, <2>1 DEF Becomes
  <2>3. AllOK(c, th, se, kernel[c].op, unused)
    BY <2>1 DEF LanInv, SlotInv, ReceiveInv, SendInv, CountInv, AllOK
  <2>4. Outside(th[t], c) /\ Outside(g[t], c)
    BY <1>7, <2>1, <2>2
  <2>5. AllOK(c, g, se, kernel[c].op, unused)
    BY <2>2, <2>3, <2>4, Elsewhere
  <2>. QED  BY <1>2, <2>1, <2>5
<1>9. thread'[t] = r /\ r.cur = c
  BY <1>4, <1>6 DEF Becomes
<1>10. unused' \in SUBSET Slot /\ uidAcc' \in Nat
  BY <1>1, <1>2 DEF TypeInv
<1>. QED  BY <1>1, <1>2, <1>4, <1>5, <1>6, <1>8, <1>9, <1>10, LocalStep DEF Becomes

-----------------------------------------------------------------------------
(* The accept thread. *)

\* GenUniqueSessionID finds the pool empty.
LEMMA PoolStep == ASSUME LanInv, PopFails \/ PopUnchecked PROVE LanInv'
<1>0. PICK t \in Thread : t = Acceptor
  BY DEF Thread
<1>1. /\ TypeInv /\ ControlOK(t, thread[t]) /\ thread[t].pc \in {"idle", "pop_failed"}
      /\ thread \in [Thread -> Register] /\ thread[t].cur \in Slot
      /\ session \in [Slot -> Session] /\ kernel \in [Slot -> Kernel]
  BY <1>0, Setting DEF PopFails, PopUnchecked, At
<1>2. UNCHANGED <<session, kernel, unused, uidAcc>>
  BY DEF PopFails, PopUnchecked, managerVars
<1>3. thread[t].ret = NoCall
  BY <1>0, <1>1 DEF ControlOK, RemoveLabel, GoneLabel
<1>4. PICK r \in Register :
        /\ Becomes(t, r) /\ r.cur = thread[t].cur /\ r.pc \in PoolLabel /\ r.ret = NoCall
  <2>1. PICK l \in PoolLabel : Goto(t, l)
    BY <1>0 DEF PopFails, PopUnchecked, PoolLabel
  <2>2. l \in Label
    BY DEF Label, AcceptLabel
  <2>. QED  BY <1>3, <2>1, <2>2, GotoIs
<1>5. ControlOK(t, r)
  BY <1>0, <1>4 DEF ControlOK, AcceptLabel
<1>6. PICK c \in Slot : c = thread[t].cur
  BY <1>1
<1>7. Outside(thread[t], c) /\ Outside(r, c)
  BY <1>1, <1>3, <1>4 DEF Outside, AwayLabel, PoolLabel
<1>8. AllOK(c, thread', session'[c], kernel'[c].op, unused')
  <2>1. PICK g \in [Thread -> Register], th \in [Thread -> Register], se \in Session :
          g = thread' /\ th = thread /\ se = session[c]
    BY <1>1, <1>4 DEF Becomes
  <2>2. g[t] = r /\ \A u \in Thread \ {t} : g[u] = th[u]
    BY <1>4, <2>1 DEF Becomes
  <2>3. AllOK(c, th, se, kernel[c].op, unused)
    BY <2>1 DEF LanInv, SlotInv, ReceiveInv, SendInv, CountInv, AllOK
  <2>4. Outside(th[t], c) /\ Outside(g[t], c)
    BY <1>7, <2>1, <2>2
  <2>5. AllOK(c, g, se, kernel[c].op, unused)
    BY <2>2, <2>3, <2>4, Elsewhere
  <2>. QED  BY <1>2, <2>1, <2>5
<1>9. thread'[t] = r /\ r.cur = c
  BY <1>4, <1>6 DEF Becomes
<1>10. unused' \in SUBSET Slot /\ uidAcc' \in Nat
  BY <1>1, <1>2 DEF TypeInv
<1>. QED  BY <1>1, <1>2, <1>4, <1>5, <1>6, <1>8, <1>9, <1>10, LocalStep DEF Becomes

\* GenUniqueSessionID takes a slot out of the pool.
LEMMA GenStep == ASSUME LanInv, NEW c \in Slot, GenUniqueSessionID(c) PROVE LanInv'
<1>0. PICK t \in Thread : t = Acceptor
  BY DEF Thread
<1>1. /\ TypeInv /\ ControlOK(t, thread[t]) /\ thread[t].pc = "idle"
      /\ thread \in [Thread -> Register] /\ thread[t] \in Register
      /\ session \in [Slot -> Session] /\ kernel \in [Slot -> Kernel]
  BY <1>0, Setting DEF GenUniqueSessionID, At
<1>2. /\ UNCHANGED <<session, kernel>> /\ c \in unused /\ unused' = unused \ {c}
      /\ uidAcc' = uidAcc + 1
  BY DEF GenUniqueSessionID
<1>3. thread[t].ret = NoCall
  BY <1>0, <1>1 DEF ControlOK, RemoveLabel, GoneLabel
<1>4. PICK r : r = [thread[t] EXCEPT !.pc = "init", !.cur = c]
  OBVIOUS
<1>5. r \in Register /\ r.pc = "init" /\ r.ret = NoCall /\ r.cur = c
  <2>1. "init" \in Label
    BY DEF Label, AcceptLabel, PoolLabel
  <2>. QED  BY <1>1, <1>3, <1>4, <2>1 DEF Register
<1>6. Becomes(t, r)
  BY <1>0, <1>1, <1>4, <1>5 DEF Becomes, GenUniqueSessionID
<1>7. ControlOK(t, r)
  BY <1>0, <1>5 DEF ControlOK, AcceptLabel, PoolLabel
<1>8. Outside(thread[t], thread[t].cur)
  BY <1>1, <1>3 DEF Outside, AwayLabel, PoolLabel
<1>9. /\ \A u \in Thread : ~In(thread[u], c)
      /\ session[c].released /\ \A o \in Op : kernel[c].op[o] = "idle"
      /\ session[c].closed /\ session[c].queue = <<>> /\ session[c].sending = <<>>
  BY <1>2 DEF LanInv, SlotInv, SlotOK
<1>10. Settled(c, r, session'[c], unused')
  BY <1>2, <1>5, <1>9, StacksDiffer
     DEF Settled, Flag, Sending, In, Refs, HoldLabel, BetweenLabel, AwayLabel, PoolLabel
<1>11. /\ unused' \in SUBSET Slot /\ uidAcc' \in Nat /\ Others(c)
       /\ session' \in [Slot -> Session] /\ kernel' \in [Slot -> Kernel]
  BY <1>1, <1>2 DEF TypeInv, Others
<1>12. /\ \A o \in Op : kernel'[c].op[o] = "idle"
       /\ \A u \in Thread \ {t} : ~In(thread[u], c)
  BY <1>2, <1>9
<1>. QED  BY <1>5, <1>6, <1>7, <1>8, <1>10, <1>11, <1>12, AloneStep

\* LanSession::Init.
LEMMA InitStep == ASSUME LanInv, InitFields \/ Open PROVE LanInv'
<1>0. PICK t \in Thread : t = Acceptor
  BY DEF Thread
<1>1. /\ TypeInv /\ ControlOK(t, thread[t]) /\ thread[t].pc \in {"init", "open"}
      /\ thread[t].cur \in Slot /\ uidAcc \in Nat
      /\ session \in [Slot -> Session] /\ kernel \in [Slot -> Kernel]
  BY <1>0, Setting DEF InitFields, Open, At, TypeInv
<1>2. UNCHANGED <<unused, uidAcc>> /\ thread[t].ret = NoCall
  BY <1>1 DEF InitFields, Open, managerVars, ControlOK, RemoveLabel, GoneLabel, SendLabel
<1>3. PICK c \in Slot : c = thread[t].cur
  BY <1>1
<1>4. /\ In(thread[t], c) /\ Refs(thread[t]) = 0 /\ thread[t].pc \in BetweenLabel
      /\ session[c] \in Session /\ kernel[c] \in Kernel
  BY <1>1, <1>2, <1>3, StacksDiffer DEF In, Refs, HoldLabel, BetweenLabel, AwayLabel, PoolLabel
<1>5. /\ \A u \in Thread \ {t} : ~In(thread[u], c)
      /\ \A o \in Op : kernel[c].op[o] = "idle"
      /\ session[c].released /\ c \notin unused
      /\ session[c].closed /\ session[c].queue = <<>> /\ session[c].sending = <<>>
  BY <1>1, <1>4, AloneHere DEF AloneIn
<1>6. CASE InitFields
  <2>1. PICK r \in Register : /\ Becomes(t, r) /\ r.pc = "open"
                              /\ r.ret = thread[t].ret /\ r.cur = thread[t].cur
    <3>1. "open" \in Label /\ Goto(t, "open")
      BY <1>0, <1>6 DEF Label, AcceptLabel, InitFields, PoolLabel
    <3>. QED  BY <3>1, GotoIs
  <2>2. PICK ne : ne = [session[c] EXCEPT !.id = uidAcc, !.queue = <<>>]
    OBVIOUS
  <2>3. ne \in Session /\ ne.released /\ ne.closed /\ ne.queue = <<>> /\ ne.sending = <<>>
    <3>1. <<>> \in Seq(Nat)
      OBVIOUS
    <3>. QED  BY <1>1, <1>4, <1>5, <2>2, <3>1 DEF Session
  <2>4. /\ session' \in [Slot -> Session] /\ session'[c] = ne
        /\ \A s \in Slot \ {c} : session'[s] = session[s]
    BY <1>0, <1>1, <1>3, <1>6, <2>2, <2>3 DEF InitFields, cur
  <2>5. /\ kernel' \in [Slot -> Kernel] /\ kernel'[c].op = kernel[c].op
        /\ \A s \in Slot \ {c} : kernel'[s].op = kernel[s].op
    <3>1. kernel' = [kernel EXCEPT ![c].peer = TRUE]
      BY <1>0, <1>3, <1>6 DEF InitFields, cur
    <3>. QED  BY <1>1, <1>4, <3>1 DEF Kernel
  <2>6. ControlOK(t, r)
    BY <1>0, <1>2, <2>1 DEF ControlOK, AcceptLabel, PoolLabel
  <2>7. Settled(c, r, session'[c], unused')
    BY <1>2, <1>5, <2>1, <2>3, <2>4, StacksDiffer
       DEF Settled, Flag, Sending, In, Refs, HoldLabel, BetweenLabel, AwayLabel, PoolLabel
  <2>8. unused' \in SUBSET Slot /\ uidAcc' \in Nat /\ Others(c)
    BY <1>1, <1>2, <2>4, <2>5 DEF TypeInv, Others
  <2>9. \A o \in Op : kernel'[c].op[o] = "idle"
    BY <1>5, <2>5
  <2>. QED  BY <1>3, <1>5, <2>1, <2>4, <2>5, <2>6, <2>7, <2>8, <2>9, AloneStep
<1>7. CASE Open
  <2>1. PICK r \in Register : /\ Becomes(t, r) /\ r.pc = "count_up"
                              /\ r.ret = thread[t].ret /\ r.cur = thread[t].cur
    <3>1. "count_up" \in Label /\ Goto(t, "count_up")
      BY <1>0, <1>7 DEF Label, AcceptLabel, Open, PoolLabel
    <3>. QED  BY <3>1, GotoIs
  <2>2. PICK ne : ne = [session[c] EXCEPT !.ioCount = 0, !.released = FALSE,
                                          !.isSending = 0, !.closed = FALSE]
    OBVIOUS
  <2>3. ne \in Session /\ ~ne.released /\ ne.ioCount = 0 /\ ne.isSending = 0
    <3>0. PICK b \in BOOLEAN : b = FALSE
      BY Zenon
    <3>1. PICK n \in Int : n = 0
      OBVIOUS
    <3>2. ne = [session[c] EXCEPT !.ioCount = n, !.released = b, !.isSending = n, !.closed = b]
      BY <2>2, <3>0, <3>1
    <3>3. ne \in Session
      BY <1>4, <3>2 DEF Session
    <3>4. ne.released = b /\ ne.ioCount = n /\ ne.isSending = n
      BY <1>4, <3>2 DEF Session
    <3>. QED  BY <3>0, <3>1, <3>3, <3>4
  <2>4. /\ session' \in [Slot -> Session] /\ session'[c] = ne
        /\ \A s \in Slot \ {c} : session'[s] = session[s]
    BY <1>0, <1>1, <1>3, <1>7, <2>2, <2>3 DEF Open, cur
  <2>5. kernel' = kernel
    BY <1>7 DEF Open
  <2>6. ControlOK(t, r)
    BY <1>0, <1>2, <2>1 DEF ControlOK, AcceptLabel, PoolLabel
  <2>7. Settled(c, r, session'[c], unused')
    BY <1>2, <1>5, <2>1, <2>3, <2>4, StacksDiffer
       DEF Settled, Flag, Sending, In, Refs, HoldLabel, BetweenLabel, AwayLabel, PoolLabel
  <2>8. unused' \in SUBSET Slot /\ uidAcc' \in Nat /\ Others(c)
    BY <1>1, <1>2, <2>4, <2>5 DEF TypeInv, Others
  <2>9. kernel' \in [Slot -> Kernel] /\ \A o \in Op : kernel'[c].op[o] = "idle"
    BY <1>1, <1>5, <2>5
  <2>. QED  BY <1>3, <1>5, <2>1, <2>4, <2>6, <2>7, <2>8, <2>9, AloneStep
<1>. QED  BY <1>6, <1>7

\* The session is counted, associated, reported.
LEMMA WelcomeStep == ASSUME LanInv, CountUp \/ Associate \/ OnConnected PROVE LanInv'
<1>0. PICK t \in Thread : t = Acceptor
  BY DEF Thread
<1>1. ControlOK(t, thread[t]) /\ thread[t].pc \in {"count_up", "associate", "on_connected"}
  BY <1>0, Setting DEF CountUp, Associate, OnConnected, At
<1>2. UNCHANGED <<session, kernel, unused, uidAcc>> /\ thread[t].ret = NoCall
  BY <1>1
     DEF CountUp, Associate, OnConnected, managerVars, ControlOK, RemoveLabel, GoneLabel, SendLabel
<1>3. PICK r \in Register :
        /\ Becomes(t, r) /\ r.cur = thread[t].cur
        /\ \/ r.pc \in {"associate", "on_connected"} /\ r.ret = NoCall
           \/ r.pc \in {"release_id", "recv_inc"} /\ r.ret = OfLoop
  <2>1. {"associate", "on_connected", "release_id", "recv_inc"} \subseteq Label
    BY DEF Label, AcceptLabel, RemoveLabel, PoolLabel
  <2>2. PICK l \in {"associate", "on_connected", "release_id", "recv_inc"} :
          \/ Goto(t, l) /\ l \in {"associate", "on_connected"}
          \/ Call(t, l, "idle") /\ l \in {"release_id", "recv_inc"}
    BY <1>0 DEF CountUp, Associate, OnConnected
  <2>3. CASE Goto(t, l) /\ l \in {"associate", "on_connected"}
    BY <1>2, <2>1, <2>3, GotoIs
  <2>4. CASE Call(t, l, "idle") /\ l \in {"release_id", "recv_inc"}
    BY <1>2, <2>1, <2>4, CallIs
  <2>. QED  BY <2>2, <2>3, <2>4
<1>4. ControlOK(t, r)
  BY <1>0, <1>3 DEF ControlOK, AcceptLabel, RemoveLabel, PoolLabel
<1>5. Refs(r) = 0 /\ Refs(thread[t]) = 0
  BY <1>1, <1>2, <1>3, StacksDiffer DEF Refs, HoldLabel
<1>6. /\ In(thread[t], thread[t].cur) /\ thread[t].pc \notin BetweenLabel
      /\ r.pc \notin BetweenLabel /\ ~Flag(r, r.cur)
  BY <1>1, <1>3 DEF In, BetweenLabel, Flag, Sending, AwayLabel, PoolLabel
<1>. QED  BY <1>2, <1>3, <1>4, <1>5, <1>6, AloneQuiet

\* Its first RecvPost.
LEMMA FirstRecvStep == ASSUME LanInv, RecvPostIncrement(Acceptor) PROVE LanInv'
<1>0. PICK t \in Thread, d \in {-1, 1} : t = Acceptor /\ d = 1
  BY DEF Thread
<1>1. /\ TypeInv /\ ControlOK(t, thread[t]) /\ thread[t].pc = "recv_inc"
      /\ thread[t].cur \in Slot
      /\ session \in [Slot -> Session] /\ kernel \in [Slot -> Kernel]
  BY <1>0, Setting DEF RecvPostIncrement, At
<1>2. UNCHANGED <<kernel, unused, uidAcc>> /\ thread[t].ret = OfLoop
  BY <1>0, <1>1 DEF RecvPostIncrement, managerVars, ControlOK, AcceptLabel, PoolLabel
<1>3. PICK c \in Slot : c = thread[t].cur
  BY <1>1
<1>4. In(thread[t], c) /\ Refs(thread[t]) = 0 /\ thread[t].pc \notin BetweenLabel
  BY <1>1, <1>2, <1>3, StacksDiffer DEF In, Refs, HoldLabel, BetweenLabel, AwayLabel, PoolLabel
<1>5. /\ \A u \in Thread \ {t} : ~In(thread[u], c)
      /\ \A o \in Op : kernel[c].op[o] = "idle"
      /\ ~session[c].released /\ c \notin unused
      /\ session[c].ioCount = 0 /\ session[c].isSending >= 0
  BY <1>4, AloneHere DEF AloneIn
<1>6. PICK ne \in Session :
           /\ Writes(c, ne, kernel[c].op) /\ ne.ioCount = session[c].ioCount + d
           /\ ne.released = session[c].released /\ ne.isSending = session[c].isSending
  <2>1. Count(c, d)
    BY <1>0, <1>3 DEF RecvPostIncrement, cur
  <2>. QED  BY <1>2, <2>1, CountIs
<1>7. PICK r \in Register : /\ Becomes(t, r) /\ r.pc = "recv_wsa"
                            /\ r.ret = thread[t].ret /\ r.cur = thread[t].cur
  <2>1. "recv_wsa" \in Label /\ Goto(t, "recv_wsa")
    BY <1>0 DEF Label, RecvPostIncrement
  <2>. QED  BY <2>1, GotoIs
<1>8. ControlOK(t, r)
  BY <1>0, <1>2, <1>7 DEF ControlOK
<1>9. Refs(r) = 1 /\ ~Flag(r, c) /\ r.pc \notin BetweenLabel
  BY <1>2, <1>7, StacksDiffer DEF Refs, HoldLabel, Flag, Sending, BetweenLabel
<1>10. ne.ioCount = 1 /\ ~ne.released /\ ne.isSending >= 0 /\ session'[c] = ne
  BY <1>0, <1>5, <1>6 DEF Writes
<1>11. Settled(c, r, session'[c], unused')
  BY <1>2, <1>5, <1>9, <1>10 DEF Settled, BetweenLabel
<1>12. /\ unused' \in SUBSET Slot /\ uidAcc' \in Nat /\ Others(c)
       /\ session' \in [Slot -> Session] /\ kernel' \in [Slot -> Kernel]
  BY <1>1, <1>2, <1>6 DEF TypeInv, Others, Writes
<1>13. \A o \in Op : kernel'[c].op[o] = "idle"
  BY <1>2, <1>5
<1>. QED  BY <1>3, <1>5, <1>7, <1>8, <1>11, <1>12, <1>13, AloneStep

-----------------------------------------------------------------------------
(* The operations: posted, completed, handed to an IO thread. *)

\* A slot whose session is live.
LEMMA SlotLive ==
  ASSUME NEW s, NEW g, NEW ne, NEW no, NEW free, ~ne.released, s \notin free,
         \A u \in Thread : In(g[u], s) => Refs(g[u]) # 0 /\ g[u].pc \notin BetweenLabel
  PROVE  SlotOK(s, g, ne, no, free)
  BY DEF SlotOK, BetweenLabel

\* WSARecv or WSASend accepts operation o: its reference goes to the kernel.
LEMMA PostOK ==
  ASSUME NEW s, NEW th \in [Thread -> Register], NEW r \in Register,
         NEW g \in [Thread -> Register], NEW t \in Thread,
         g[t] = r, \A u \in Thread \ {t} : g[u] = th[u],
         NEW se \in Session, NEW op, NEW no, NEW free, AllOK(s, th, se, op, free),
         NEW o \in Op, op[o] = "idle", no[o] = "pending", \A x \in Op \ {o} : no[x] = op[x],
         th[t].cur = s, r.cur = s,
         In(th[t], s), Refs(th[t]) # 0, th[t].pc \notin BetweenLabel,
         In(r, s) => Refs(r) # 0 /\ r.pc \notin BetweenLabel, Refs(th[t]) = Refs(r) + 1,
         ~Flag(r, s), Receiving(r, s) => Receiving(th[t], s),
         o = "recv" => Receiving(th[t], s) /\ ~Receiving(r, s) /\ ~Flag(th[t], s),
         o = "send" => Sending(th[t], s)
  PROVE  AllOK(s, g, se, no, free)
<1>1. /\ SlotOK(s, th, se, op, free) /\ ReceiveOK(s, th, op)
      /\ SendOK(s, th, se, op) /\ CountOK(s, th, se, op)
      /\ se.isSending \in Int /\ se.ioCount \in Int
  BY DEF AllOK, Session
<1>2. SlotOK(s, g, se, no, free)
  <2>1. In(g[t], s) => Refs(g[t]) # 0 /\ g[t].pc \notin BetweenLabel
    OBVIOUS
  <2>2. se.released = se.released
    OBVIOUS
  <2>. HIDE DEF BetweenLabel
  <2>. QED  BY <1>1, <2>1, <2>2, SlotBusy
<1>3. ~Sending(r, s) /\ o \in {"recv", "send"}
  BY DEF Flag, Op
<1>4. ReceiveOK(s, g, no)
  <2>1. Receiving(g[t], s) => Receiving(th[t], s)
    OBVIOUS
  <2>2. \/ no["recv"] = "idle"
        \/ op["recv"] # "idle" /\ ~Receiving(g[t], s)
        \/ Receiving(th[t], s) /\ ~Receiving(g[t], s)
    <3>1. CASE o = "recv"
      BY <3>1
    <3>2. CASE o = "send"
      <4>1. no["recv"] = op["recv"]
        BY <3>2 DEF Op
      <4>2. Receiving(th[t], s) => op["recv"] = "idle"
        BY <1>1 DEF ReceiveOK
      <4>. QED  BY <4>1, <4>2
    <3>. QED  BY <1>3, <3>1, <3>2
  <2>. QED  BY <1>1, <2>1, <2>2, ReceiveMove
<1>5. SendOK(s, g, se, no)
  <2>1. /\ ~Sending(g[t], s)
        /\ \/ no["send"] = "idle"
           \/ op["send"] # "idle" /\ ~Sending(g[t], s)
           \/ Sending(th[t], s) /\ ~Sending(g[t], s)
    <3>1. CASE o = "recv"
      <4>1. no["send"] = op["send"]
        BY <3>1 DEF Op
      <4>. QED  BY <1>3, <4>1
    <3>2. CASE o = "send"
      BY <1>3, <3>2
    <3>. QED  BY <1>3, <3>1, <3>2
  <2>2. se.isSending - se.isSending >=
          Bit(Flag(g[t], s)) + Bit(no["send"] # "idle") - Bit(Flag(th[t], s)) - Bit(op["send"] # "idle")
    <3>1. CASE o = "recv"
      <4>1. no["send"] = op["send"] /\ ~Flag(g[t], s) /\ ~Flag(th[t], s)
        BY <3>1 DEF Op
      <4>. QED  BY <1>1, <4>1 DEF Bit
    <3>2. CASE o = "send"
      <4>1. no["send"] # "idle" /\ op["send"] = "idle" /\ ~Flag(g[t], s) /\ Flag(th[t], s)
        BY <3>2 DEF Flag
      <4>. QED  BY <1>1, <4>1 DEF Bit
    <3>. QED  BY <1>3, <3>1, <3>2
  <2>3. ~se.released => ~se.released
    OBVIOUS
  <2>. QED  BY <1>1, <2>1, <2>2, <2>3, SendMove
<1>6. CountOK(s, g, se, no)
  <2>1. PICK d \in {-1, 0, 1}, k \in {-1, 0, 1} : d = -1 /\ k = 1
    OBVIOUS
  <2>2. Refs(r) \in 0..3 /\ Refs(th[t]) \in 0..3
    BY RefsType
  <2>3. Weight(s, g)[t] = Weight(s, th)[t] + d
    BY <2>1, <2>2 DEF Weight
  <2>4. no[o] # "idle"
    OBVIOUS
  <2>5. Cardinality(Busy(no)) = Cardinality(Busy(op)) + k
    BY <2>1, <2>4, BusyMore
  <2>6. se.ioCount = se.ioCount + (k + d)
    BY <1>1, <2>1
  <2>7. ~se.released => ~se.released
    OBVIOUS
  <2>. QED  BY <1>1, <2>3, <2>5, <2>6, <2>7, CountMove
<1>. QED  BY <1>2, <1>4, <1>5, <1>6 DEF AllOK

\* RecvPost calls WSARecv, SendPost calls WSASend.
LEMMA WSAStep ==
  ASSUME LanInv, NEW t \in Thread, NEW o \in Op,
         \/ o = "recv" /\ RecvPostWSARecv(t)
         \/ o = "send" /\ SendPostWSASend(t)
  PROVE  LanInv'
<1>1. /\ TypeInv /\ ControlOK(t, thread[t])
      /\ \/ o = "recv" /\ thread[t].pc = "recv_wsa"
         \/ o = "send" /\ thread[t].pc = "send_wsa"
      /\ thread \in [Thread -> Register] /\ thread[t] \in Register /\ thread[t].cur \in Slot
      /\ session \in [Slot -> Session] /\ kernel \in [Slot -> Kernel]
  BY Setting DEF RecvPostWSARecv, SendPostWSASend, At
<1>2. /\ UNCHANGED <<session, unused, uidAcc>> /\ WSA(t, o)
      /\ o = "recv" => thread[t].ret \in {OfLoop, OfCompletion}
      /\ o = "send" => thread[t].ret \in {OfCompletion, OfSendPacket}
      /\ thread[t].ret = OfLoop => t = Acceptor
      /\ thread[t].ret # OfLoop => t # Acceptor
  BY <1>1, StacksDiffer DEF RecvPostWSARecv, SendPostWSASend, managerVars, ControlOK, AcceptLabel,
                            SendLabel, RemoveLabel, GoneLabel, PoolLabel
<1>3. PICK c \in Slot : c = thread[t].cur
  BY <1>1
<1>4. /\ In(thread[t], c) /\ thread[t].pc \notin BetweenLabel /\ Refs(thread[t]) # 0
      /\ session[c] \in Session /\ kernel[c] \in Kernel
  BY <1>1, <1>2, <1>3, StacksDiffer DEF In, BetweenLabel, Refs, HoldLabel, AwayLabel, PoolLabel
<1>5. CASE Goto(t, "dec") /\ UNCHANGED kernel
  <2>1. PICK r \in Register : /\ Becomes(t, r) /\ r.pc = "dec"
                              /\ r.ret = thread[t].ret /\ r.cur = thread[t].cur
    <3>1. "dec" \in Label
      BY DEF Label, RemoveLabel
    <3>. QED  BY <1>5, <3>1, GotoIs
  <2>2. ControlOK(t, r)
    BY <1>1, <1>2, <2>1 DEF ControlOK, RemoveLabel
  <2>3. Refs(r) = Refs(thread[t])
    BY <1>1, <2>1 DEF Refs, HoldLabel
  <2>4. /\ r.pc \notin BetweenLabel /\ ~Sending(r, r.cur) /\ ~Flag(r, r.cur)
        /\ Receiving(r, r.cur) => Receiving(thread[t], r.cur)
    BY <2>1 DEF BetweenLabel, Sending, Flag, Receiving
  <2>. QED  BY <1>2, <1>3, <1>4, <1>5, <2>1, <2>2, <2>3, <2>4, QuietStep
<1>6. CASE kernel' = [kernel EXCEPT ![c].op[o] = "pending"] /\ Return(t)
  <2>1. PICK r \in Register :
           /\ Becomes(t, r) /\ r.cur = thread[t].cur
           /\ thread[t].ret = OfLoop => r.pc = "idle" /\ r.ret = NoCall
           /\ thread[t].ret = OfCompletion => r.pc = "dec" /\ r.ret = OfLoop
           /\ thread[t].ret = OfReceived => r.pc = "received" /\ r.ret = OfLoop
           /\ thread[t].ret = OfSendPacket => r.pc = "dec" /\ r.ret = OfReceived
    <3>1. thread[t].ret # NoCall
      BY <1>1, <1>2, StacksDiffer
    <3>. QED  BY <1>6, <3>1, ReturnIs
  <2>2. ControlOK(t, r)
    BY <1>1, <1>2, <2>1 DEF ControlOK, AcceptLabel, RemoveLabel, PoolLabel
  <2>3. Refs(thread[t]) = Refs(r) + 1
    BY <1>1, <1>2, <2>1, StacksDiffer DEF Refs, HoldLabel
  <2>4. /\ In(r, c) => Refs(r) # 0 /\ r.pc \notin BetweenLabel
        /\ ~Flag(r, c)
    BY <1>1, <1>2, <2>1, StacksDiffer
       DEF In, BetweenLabel, Refs, HoldLabel, Flag, Sending, AwayLabel, PoolLabel
  <2>5. /\ Receiving(r, c) => Receiving(thread[t], c)
        /\ o = "recv" => Receiving(thread[t], c) /\ ~Receiving(r, c) /\ ~Flag(thread[t], c)
        /\ o = "send" => Sending(thread[t], c)
    BY <1>1, <1>2, <1>3, <2>1, StacksDiffer DEF Receiving, Flag, Sending
  <2>6. PICK g \in [Thread -> Register], th \in [Thread -> Register], se \in Session,
             op \in {kernel[c].op}, no \in {[kernel[c].op EXCEPT ![o] = "pending"]} :
          /\ g = thread' /\ th = thread /\ se = session[c] /\ op = kernel[c].op
          /\ no = [op EXCEPT ![o] = "pending"]
    BY <1>1, <1>4, <2>1 DEF Becomes
  <2>7. op \in [Op -> {"idle", "pending", "ok", "zero", "fail"}]
    BY <1>4, <2>6 DEF Kernel
  <2>8. no[o] = "pending" /\ \A x \in Op \ {o} : no[x] = op[x]
    BY <2>6, <2>7
  <2>9. no \in [Op -> {"idle", "pending", "ok", "zero", "fail"}]
    BY <2>6, <2>7
  <2>10. /\ kernel' \in [Slot -> Kernel] /\ kernel'[c].op = no
         /\ \A s \in Slot \ {c} : kernel'[s].op = kernel[s].op
    <3>1. kernel' = [kernel EXCEPT ![c].op = no]
      BY <1>1, <1>4, <1>6, <2>6 DEF Kernel
    <3>. QED  BY <1>1, <1>4, <2>9, <3>1 DEF Kernel
  <2>11. AllOK(c, th, se, op, unused)
    BY <2>6 DEF LanInv, SlotInv, ReceiveInv, SendInv, CountInv, AllOK
  <2>12. op[o] = "idle"
    BY <1>1, <2>5, <2>6, <2>11 DEF AllOK, ReceiveOK, SendOK
  <2>13. g[t] = r /\ \A u \in Thread \ {t} : g[u] = th[u]
    BY <2>1, <2>6 DEF Becomes
  <2>14. /\ th[t].cur = c /\ r.cur = c /\ In(th[t], c) /\ Refs(th[t]) # 0
         /\ th[t].pc \notin BetweenLabel /\ Refs(th[t]) = Refs(r) + 1
         /\ Receiving(r, c) => Receiving(th[t], c)
         /\ o = "recv" => Receiving(th[t], c) /\ ~Receiving(r, c) /\ ~Flag(th[t], c)
         /\ o = "send" => Sending(th[t], c)
    BY <1>3, <1>4, <2>1, <2>3, <2>5, <2>6
  <2>15. AllOK(c, g, se, no, unused)
    BY <2>4, <2>8, <2>11, <2>12, <2>13, <2>14, PostOK
  <2>16. AllOK(c, thread', session'[c], kernel'[c].op, unused')
    BY <1>2, <2>6, <2>10, <2>15
  <2>17. /\ session' \in [Slot -> Session] /\ unused' \in SUBSET Slot /\ uidAcc' \in Nat
         /\ \A s \in Slot \ {c} : session'[s] = session[s] /\ (s \in unused' <=> s \in unused)
    BY <1>1, <1>2 DEF TypeInv
  <2>. QED  BY <1>3, <2>1, <2>2, <2>10, <2>14, <2>16, <2>17, LocalStep DEF Becomes
<1>. QED  BY <1>2, <1>3, <1>5, <1>6 DEF WSA, cur

\* An IO thread takes a completion: the reference of the operation is now its.
LEMMA CompletedOK ==
  ASSUME NEW s, NEW th \in [Thread -> Register], NEW r \in Register,
         NEW g \in [Thread -> Register], NEW t \in Thread,
         g[t] = r, \A u \in Thread \ {t} : g[u] = th[u],
         NEW se \in Session, NEW op, NEW no, NEW free, AllOK(s, th, se, op, free),
         NEW o \in Op, op[o] # "idle", no[o] = "idle", \A x \in Op \ {o} : no[x] = op[x],
         Outside(th[t], s), r.cur = s, In(r, s), Refs(r) = 1, r.pc \notin BetweenLabel,
         Flag(r, s) => Sending(r, s),
         Receiving(r, s) => o = "recv", Sending(r, s) => o = "send"
  PROVE  AllOK(s, g, se, no, free)
<1>1. /\ SlotOK(s, th, se, op, free) /\ ReceiveOK(s, th, op)
      /\ SendOK(s, th, se, op) /\ CountOK(s, th, se, op)
      /\ se.isSending \in Int /\ se.ioCount \in Int
  BY DEF AllOK, Session
<1>2. ~se.released /\ s \notin free
  BY <1>1 DEF SlotOK
<1>3. \A u \in Thread : In(th[u], s) => Refs(th[u]) # 0 /\ th[u].pc \notin BetweenLabel
  BY <1>1, <1>2 DEF SlotOK
<1>4. SlotOK(s, g, se, no, free)
  <2>1. \A u \in Thread : In(g[u], s) => Refs(g[u]) # 0 /\ g[u].pc \notin BetweenLabel
    BY <1>3
  <2>. HIDE DEF BetweenLabel
  <2>. QED  BY <1>2, <2>1, SlotLive
<1>5. /\ (IF th[t].cur = s THEN Refs(th[t]) ELSE 0) = 0
      /\ ~Receiving(th[t], s) /\ ~Sending(th[t], s) /\ ~Flag(th[t], s)
      /\ o \in {"recv", "send"}
  BY OutsideWeight DEF Op
<1>6. ReceiveOK(s, g, no)
  <2>1. Receiving(g[t], s) => op["recv"] # "idle"
    OBVIOUS
  <2>2. no["recv"] = "idle" \/ (op["recv"] # "idle" /\ ~Receiving(g[t], s))
    <3>1. CASE o = "recv"
      BY <3>1
    <3>2. CASE o = "send"
      <4>1. no["recv"] = op["recv"] /\ ~Receiving(g[t], s)
        BY <3>2 DEF Op
      <4>. QED  BY <4>1
    <3>. QED  BY <1>5, <3>1, <3>2
  <2>. QED  BY <1>1, <2>1, <2>2, ReceiveMove
<1>7. SendOK(s, g, se, no)
  <2>1. Sending(g[t], s) => op["send"] # "idle"
    OBVIOUS
  <2>2. no["send"] = "idle" \/ (op["send"] # "idle" /\ ~Sending(g[t], s))
    <3>1. CASE o = "send"
      BY <3>1
    <3>2. CASE o = "recv"
      <4>1. no["send"] = op["send"] /\ ~Sending(g[t], s)
        BY <3>2 DEF Op
      <4>. QED  BY <4>1
    <3>. QED  BY <1>5, <3>1, <3>2
  <2>3. se.isSending - se.isSending >=
          Bit(Flag(g[t], s)) + Bit(no["send"] # "idle") - Bit(Flag(th[t], s)) - Bit(op["send"] # "idle")
    <3>1. CASE o = "recv"
      <4>1. no["send"] = op["send"] /\ ~Flag(g[t], s) /\ ~Flag(th[t], s)
        BY <1>5, <3>1 DEF Op
      <4>. QED  BY <1>1, <4>1 DEF Bit
    <3>2. CASE o = "send"
      <4>1. no["send"] = "idle" /\ op["send"] # "idle" /\ ~Flag(th[t], s)
        BY <1>5, <3>2
      <4>. QED  BY <1>1, <4>1 DEF Bit
    <3>. QED  BY <1>5, <3>1, <3>2
  <2>4. ~se.released => ~se.released
    OBVIOUS
  <2>. QED  BY <1>1, <2>1, <2>2, <2>3, <2>4, SendMove
<1>8. CountOK(s, g, se, no)
  <2>1. PICK d \in {-1, 0, 1}, k \in {-1, 0, 1} : d = 1 /\ k = -1
    OBVIOUS
  <2>2. Weight(s, g)[t] = Weight(s, th)[t] + d
    BY <1>5, <2>1 DEF Weight
  <2>3. Cardinality(Busy(op)) = Cardinality(Busy(no)) + 1
    <3>1. \A x \in Op \ {o} : op[x] = no[x]
      OBVIOUS
    <3>. QED  BY <3>1, BusyMore
  <2>4. Cardinality(Busy(no)) = Cardinality(Busy(op)) + k
    BY <2>1, <2>3, BusyFinite
  <2>5. se.ioCount = se.ioCount + (k + d)
    BY <1>1, <2>1
  <2>6. ~se.released => ~se.released
    OBVIOUS
  <2>. QED  BY <1>1, <2>2, <2>4, <2>5, <2>6, CountMove
<1>. QED  BY <1>4, <1>6, <1>7, <1>8 DEF AllOK

\* GetQueuedCompletionStatus.
LEMMA CompletionStep ==
  ASSUME LanInv, NEW t \in IOThread, NEW c \in Slot, NEW o \in Op, Completion(t, c, o)
  PROVE  LanInv'
<1>0. t \in Thread /\ t # Acceptor
  BY LanAssumption DEF Thread
<1>1. /\ TypeInv /\ ControlOK(t, thread[t]) /\ thread[t].pc = "idle"
      /\ thread \in [Thread -> Register] /\ thread[t] \in Register
      /\ session \in [Slot -> Session] /\ kernel \in [Slot -> Kernel]
      /\ session[c] \in Session /\ kernel[c] \in Kernel
  BY <1>0, Setting DEF Completion, At
<1>2. UNCHANGED <<session, unused, uidAcc>> /\ thread[t].ret = NoCall
  BY <1>0, <1>1 DEF Completion, managerVars, ControlOK, RemoveLabel, GoneLabel, SendLabel
<1>3. PICK l \in {"dec", "finish", "received"} :
        /\ l = IF kernel[c].op[o] # "ok" THEN "dec" ELSE IF o = "send" THEN "finish" ELSE "received"
        /\ l = "finish" => o = "send"
        /\ l = "received" => o = "recv"
  BY DEF Op
<1>4. PICK st \in Stack : st = OfLoop
  BY DEF Stack
<1>5. PICK r : r = [thread[t] EXCEPT !.cur = c, !.ret = st, !.pc = l]
  OBVIOUS
<1>6. r \in Register /\ r.pc = l /\ r.ret = OfLoop /\ r.cur = c
  <2>1. {"dec", "finish", "received"} \subseteq Label
    BY DEF Label, RemoveLabel
  <2>. QED  BY <1>1, <1>3, <1>4, <1>5, <2>1 DEF Register
<1>7. Becomes(t, r)
  <2>1. thread' = [thread EXCEPT ![t] = r]
    BY <1>0, <1>1, <1>3, <1>4, <1>5 DEF Completion, OfLoop
  <2>. QED  BY <1>0, <1>1, <1>6, <2>1 DEF Becomes
<1>8. ControlOK(t, r)
  BY <1>0, <1>3, <1>6 DEF ControlOK, RemoveLabel
<1>9. \A s \in Slot : Outside(thread[t], s)
  BY <1>1, <1>2 DEF Outside, AwayLabel, PoolLabel
<1>10. /\ In(r, c) /\ Refs(r) = 1 /\ r.pc \notin BetweenLabel
       /\ Flag(r, c) => Sending(r, c)
       /\ Receiving(r, c) => o = "recv"
       /\ Sending(r, c) => o = "send"
  BY <1>3, <1>6, StacksDiffer
     DEF In, Refs, HoldLabel, BetweenLabel, Flag, Sending, Receiving, AwayLabel, PoolLabel
<1>11. PICK g \in [Thread -> Register], th \in [Thread -> Register], se \in Session,
            op \in {kernel[c].op}, no \in {[kernel[c].op EXCEPT ![o] = "idle"]} :
         /\ g = thread' /\ th = thread /\ se = session[c] /\ op = kernel[c].op
         /\ no = [op EXCEPT ![o] = "idle"]
  BY <1>1, <1>7 DEF Becomes
<1>12. op \in [Op -> {"idle", "pending", "ok", "zero", "fail"}] /\ op[o] # "idle"
  BY <1>1, <1>11 DEF Kernel, Completion
<1>13. /\ no \in [Op -> {"idle", "pending", "ok", "zero", "fail"}]
       /\ no[o] = "idle" /\ \A x \in Op \ {o} : no[x] = op[x]
  BY <1>11, <1>12
<1>14. /\ kernel' \in [Slot -> Kernel] /\ kernel'[c].op = no
       /\ \A s \in Slot \ {c} : kernel'[s].op = kernel[s].op
  <2>1. kernel' = [kernel EXCEPT ![c].op = no]
    BY <1>1, <1>11 DEF Completion, Kernel
  <2>. QED  BY <1>1, <1>13, <2>1 DEF Kernel
<1>15. AllOK(c, th, se, op, unused)
  BY <1>11 DEF LanInv, SlotInv, ReceiveInv, SendInv, CountInv, AllOK
<1>16. g[t] = r /\ (\A u \in Thread \ {t} : g[u] = th[u]) /\ Outside(th[t], c)
  BY <1>7, <1>9, <1>11 DEF Becomes
<1>17. AllOK(c, g, se, no, unused)
  BY <1>0, <1>6, <1>10, <1>12, <1>13, <1>15, <1>16, CompletedOK
<1>18. AllOK(c, thread', session'[c], kernel'[c].op, unused')
  BY <1>2, <1>11, <1>14, <1>17
<1>19. /\ session' \in [Slot -> Session] /\ unused' \in SUBSET Slot /\ uidAcc' \in Nat
       /\ \A s \in Slot \ {c} : session'[s] = session[s] /\ (s \in unused' <=> s \in unused)
  BY <1>1, <1>2 DEF TypeInv
<1>20. thread'[t] = r /\ thread'[t].cur = c /\ Outside(thread[t], thread[t].cur)
  BY <1>6, <1>7, <1>1, <1>2 DEF Becomes, Outside, AwayLabel, PoolLabel
<1>. QED  BY <1>0, <1>7, <1>8, <1>14, <1>18, <1>19, <1>20, LocalStep DEF Becomes

\* A step of the kernel or of a client starts and ends no operation.
LEMMA KernelKeeps ==
  ASSUME LanInv, UNCHANGED <<thread, session, unused, uidAcc>>, kernel' \in [Slot -> Kernel],
         \A s \in Slot, o \in Op : kernel'[s].op[o] = "idle" <=> kernel[s].op[o] = "idle"
  PROVE  LanInv'
<1>1. TypeInv' /\ ControlInv'
  BY DEF LanInv, TypeInv, ControlInv
<1>2. ASSUME NEW s \in Slot
      PROVE  /\ SlotOK(s, thread', session'[s], kernel'[s].op, unused')
             /\ ReceiveOK(s, thread', kernel'[s].op)
             /\ SendOK(s, thread', session'[s], kernel'[s].op)
             /\ CountOK(s, thread', session'[s], kernel'[s].op)
  <2>1. PICK th, se, op, free, no :
          /\ th = thread /\ se = session[s] /\ op = kernel[s].op /\ free = unused
          /\ no = kernel'[s].op
    OBVIOUS
  <2>2. /\ SlotOK(s, th, se, op, free) /\ ReceiveOK(s, th, op)
        /\ SendOK(s, th, se, op) /\ CountOK(s, th, se, op)
    BY <2>1 DEF LanInv, SlotInv, ReceiveInv, SendInv, CountInv
  <2>3. /\ \A o \in Op : no[o] = "idle" <=> op[o] = "idle"
        /\ "recv" \in Op /\ "send" \in Op
    BY <2>1 DEF Op
  <2>4. SlotOK(s, th, se, no, free)
    BY <2>2, <2>3 DEF SlotOK
  <2>5. ReceiveOK(s, th, no)
    BY <2>2, <2>3 DEF ReceiveOK
  <2>6. SendOK(s, th, se, no)
    BY <2>2, <2>3 DEF SendOK
  <2>7. CountOK(s, th, se, no)
    <3>1. Busy(no) = Busy(op)
      BY <2>3 DEF Busy
    <3>. QED  BY <2>2, <3>1 DEF CountOK
  <2>. QED  BY <2>1, <2>4, <2>5, <2>6, <2>7
<1>3. SlotInv' /\ ReceiveInv' /\ SendInv' /\ CountInv'
  BY <1>2 DEF SlotInv, ReceiveInv, SendInv, CountInv
<1>. QED  BY <1>1, <1>3 DEF LanInv

\* The client goes away; an operation completes.
LEMMA KernelStep ==
  ASSUME LanInv, NEW s \in Slot, PeerLeaves(s) \/ \E o \in Op : KernelCompletes(s, o)
  PROVE  LanInv'
<1>1. kernel \in [Slot -> Kernel] /\ kernel[s] \in Kernel
  BY DEF LanInv, TypeInv
<1>2. UNCHANGED <<thread, session, unused, uidAcc>>
  BY DEF PeerLeaves, KernelCompletes, managerVars
<1>3. CASE PeerLeaves(s)
  <2>1. kernel' = [kernel EXCEPT ![s].peer = FALSE]
    BY <1>3 DEF PeerLeaves
  <2>2. kernel' \in [Slot -> Kernel] /\ \A x \in Slot : kernel'[x].op = kernel[x].op
    BY <1>1, <2>1 DEF Kernel
  <2>. QED  BY <1>2, <2>2, KernelKeeps
<1>4. ASSUME NEW o \in Op, KernelCompletes(s, o) PROVE LanInv'
  <2>1. PICK st \in {"ok", "zero", "fail"} : kernel' = [kernel EXCEPT ![s].op[o] = st]
    BY <1>4 DEF KernelCompletes
  <2>2. kernel[s].op \in [Op -> {"idle", "pending", "ok", "zero", "fail"}] /\ kernel[s].op[o] = "pending"
    BY <1>1, <1>4 DEF Kernel, KernelCompletes
  <2>3. PICK no : no = [kernel[s].op EXCEPT ![o] = st]
    OBVIOUS
  <2>4. /\ no \in [Op -> {"idle", "pending", "ok", "zero", "fail"}]
        /\ \A x \in Op : no[x] = "idle" <=> kernel[s].op[x] = "idle"
    BY <2>2, <2>3
  <2>5. kernel' = [kernel EXCEPT ![s].op = no]
    BY <1>1, <2>1, <2>3 DEF Kernel
  <2>6. /\ kernel' \in [Slot -> Kernel] /\ kernel'[s].op = no
        /\ \A x \in Slot \ {s} : kernel'[x].op = kernel[x].op
    BY <1>1, <2>4, <2>5 DEF Kernel
  <2>7. \A x \in Slot, y \in Op : kernel'[x].op[y] = "idle" <=> kernel[x].op[y] = "idle"
    BY <2>4, <2>6
  <2>. QED  BY <1>2, <2>6, <2>7, KernelKeeps
<1>. QED  BY <1>3, <1>4

-----------------------------------------------------------------------------
(* The invariant. *)

\* At start every slot is in the pool and every thread waits.
LEMMA LanInit == Init => LanInv
<1> SUFFICES ASSUME Init PROVE LanInv
  OBVIOUS
<1>1. PICK c \in Slot : c = CHOOSE s \in Slot : TRUE
  BY LanAssumption
<1>2. PICK e \in Seq(Nat), st \in Stack : e = <<>> /\ st = NoCall
  <2>1. <<>> \in Seq(Nat)
    OBVIOUS
  <2>2. NoCall \in Stack
    BY DEF Stack
  <2>3. \E e \in Seq(Nat) : e = <<>>
    BY <2>1, Zenon
  <2>4. \E st \in Stack : st = NoCall
    BY <2>2, Zenon
  <2>. QED  BY <2>3, <2>4, Zenon
<1>3. /\ thread = [t \in Thread |-> [pc |-> "idle", ret |-> st, cur |-> c, id |-> 0]]
      /\ session = [s \in Slot |->
           [id |-> 0, released |-> TRUE, ioCount |-> 0, closed |-> TRUE,
            queue |-> e, sending |-> e, isSending |-> 0]]
      /\ kernel = [s \in Slot |-> [op |-> [o \in Op |-> "idle"], peer |-> FALSE]]
      /\ unused = Slot /\ uidAcc = 0
  BY <1>1, <1>2 DEF Init, NoCall
<1>4. TypeInv
  <2>1. thread \in [Thread -> Register]
    <3>1. "idle" \in Label
      BY DEF Label, AcceptLabel, PoolLabel
    <3>. QED  BY <1>3, <3>1 DEF Register
  <2>2. session \in [Slot -> Session]
    BY <1>3 DEF Session
  <2>3. kernel \in [Slot -> Kernel]
    BY <1>3 DEF Kernel
  <2>. QED  BY <1>3, <2>1, <2>2, <2>3 DEF TypeInv
<1>5. \A t \in Thread : thread[t].pc = "idle" /\ thread[t].ret = NoCall
  BY <1>2, <1>3
<1>6. ControlInv
  BY <1>5 DEF ControlInv, ControlOK, AcceptLabel, PoolLabel
<1>7. ASSUME NEW s \in Slot
      PROVE  /\ SlotOK(s, thread, session[s], kernel[s].op, unused)
             /\ ReceiveOK(s, thread, kernel[s].op)
             /\ SendOK(s, thread, session[s], kernel[s].op)
             /\ CountOK(s, thread, session[s], kernel[s].op)
  <2>1. /\ session[s].released /\ session[s].closed
        /\ session[s].queue = <<>> /\ session[s].sending = <<>>
    BY <1>2, <1>3
  <2>2. s \in unused /\ \A o \in Op : kernel[s].op[o] = "idle"
    BY <1>3
  <2>3. \A t \in Thread : ~In(thread[t], s) /\ ~Receiving(thread[t], s) /\ ~Sending(thread[t], s)
    BY <1>5, StacksDiffer DEF In, Receiving, Sending, AwayLabel, PoolLabel
  <2>4. SlotOK(s, thread, session[s], kernel[s].op, unused)
    BY <2>1, <2>2, <2>3 DEF SlotOK
  <2>5. ReceiveOK(s, thread, kernel[s].op)
    BY <2>3 DEF ReceiveOK
  <2>6. SendOK(s, thread, session[s], kernel[s].op)
    BY <2>1, <2>3 DEF SendOK
  <2>7. CountOK(s, thread, session[s], kernel[s].op)
    BY <2>1 DEF CountOK
  <2>. QED  BY <2>4, <2>5, <2>6, <2>7
<1>8. SlotInv /\ ReceiveInv /\ SendInv /\ CountInv
  BY <1>7 DEF SlotInv, ReceiveInv, SendInv, CountInv
<1>. QED  BY <1>4, <1>6, <1>8 DEF LanInv

\* Every step of every thread, of the kernel and of the clients keeps it.
LEMMA LanStep == LanInv /\ [Next]_vars => LanInv'
<1> SUFFICES ASSUME LanInv, [Next]_vars PROVE LanInv'
  OBVIOUS
<1>1. ASSUME NEW t \in Thread, TryRemoveSession(t) PROVE LanInv'
  BY <1>1, DecrementStep, ReadIdStep, ReleaseCasStep, ReleaseStep, PushIndexStep, LeaveStep
     DEF TryRemoveSession
<1>2. ASSUME NEW t \in Thread, Post(t) PROVE LanInv'
  <2>1. CASE RecvPostIncrement(t)
    BY <2>1, TakeStep, FirstRecvStep
  <2>2. CASE RecvPostWSARecv(t)
    <3>1. "recv" \in Op
      BY DEF Op
    <3>. QED  BY <2>2, <3>1, WSAStep
  <2>3. CASE SendPostWSASend(t)
    <3>1. "send" \in Op
      BY DEF Op
    <3>. QED  BY <2>3, <3>1, WSAStep
  <2>4. CASE ReadFlag(t) \/ TakeFlag(t) \/ GiveFlagBack(t) \/ DequeueAll(t) \/ SendPostIncrement(t)
    BY <2>4, ReadFlagStep, TakeFlagStep, GiveFlagStep, QueueStep, TakeStep
  <2>. QED  BY <1>2, <2>1, <2>2, <2>3, <2>4 DEF Post
<1>3. ASSUME NEW t \in IOThread, Serve(t) PROVE LanInv'
  <2>0. t \in Thread
    BY DEF Thread
  <2>1. CASE \E s \in Slot, o \in Op : Completion(t, s, o)
    BY <2>1, CompletionStep
  <2>2. CASE NetworkSendCompleted(t) \/ CancelationIO(t) \/ SendPacketAcquire(t) \/ SendPacketEnqueue(t)
    BY <2>0, <2>2, GiveFlagStep, CancelStep, TakeStep, QueueStep
  <2>3. CASE NetworkRecvCompleted(t) \/ SendPacketFind(t) \/ Disconnect(t)
    BY <2>0, <2>3, ReceivedStep
  <2>. QED  BY <1>3, <2>1, <2>2, <2>3 DEF Serve
<1>4. CASE Create \/ PopFails \/ \E s \in Slot : GenUniqueSessionID(s)
  BY <1>4, PoolStep, InitStep, WelcomeStep, GenStep DEF Create
<1>5. ASSUME NEW s \in Slot, PeerLeaves(s) \/ \E o \in Op : KernelCompletes(s, o) PROVE LanInv'
  BY <1>5, KernelStep
<1>6. CASE UNCHANGED vars
  <2>1. UNCHANGED <<thread, session, kernel, unused, uidAcc>> /\ kernel \in [Slot -> Kernel]
    BY <1>6 DEF vars, managerVars, LanInv, TypeInv
  <2>. QED  BY <2>1, KernelKeeps
<1>. QED  BY <1>1, <1>2, <1>3, <1>4, <1>5, <1>6 DEF Next, Step

\* So it always holds.
LEMMA LanInvariant == Spec => []LanInv
<1>1. Init => LanInv
  BY LanInit
<1>2. LanInv /\ [Next]_vars => LanInv'
  BY LanStep
<1>. QED  BY <1>1, <1>2, PTL DEF Spec

-----------------------------------------------------------------------------
(* What it says. *)

\* Of a live session, IOCount is always the number of its references: one for
\* each WSARecv and WSASend the kernel has not handed back, and what every
\* thread's call stack says it will still give up, however often WSASend
\* fails, SendPacket nests in OnReceived or Disconnect is refused.
THEOREM CountIsAlwaysExact == Spec => []CountIsExact
<1>1. ASSUME LanInv PROVE CountIsExact
  <2> SUFFICES ASSUME NEW s \in Slot, ~session[s].released
               PROVE  session[s].ioCount =
                        Cardinality({op \in Op : kernel[s].op[op] # "idle"})
                        + Cardinality({e \in Thread \X (1..4) : cur(e[1]) = s /\ e[2] <= Own(e[1])})
    BY DEF CountIsExact
  <2>1. session[s].ioCount = Cardinality(Busy(kernel[s].op)) + Cardinality(Held(Weight(s, thread)))
    BY <1>1 DEF LanInv, CountInv, CountOK
  <2>2. Busy(kernel[s].op) = {op \in Op : kernel[s].op[op] # "idle"}
    BY DEF Busy
  <2>3. Held(Weight(s, thread)) = {e \in Thread \X (1..4) : cur(e[1]) = s /\ e[2] <= Own(e[1])}
    <3>1. \A t \in Thread : Own(t) = Refs(thread[t])
      BY <1>1, OwnIsRefs DEF LanInv
    <3>2. ASSUME NEW e \in Thread \X (1..4)
          PROVE  e[2] <= Weight(s, thread)[e[1]] <=> cur(e[1]) = s /\ e[2] <= Own(e[1])
      <4>1. e[1] \in Thread /\ e[2] \in 1..4
        OBVIOUS
      <4>2. Weight(s, thread)[e[1]] = IF thread[e[1]].cur = s THEN Own(e[1]) ELSE 0
        BY <3>1, <4>1 DEF Weight
      <4>. QED  BY <4>1, <4>2 DEF cur
    <3>. QED  BY <3>2 DEF Held
  <2>. QED  BY <2>1, <2>2, <2>3
<1>. QED  BY <1>1, LanInvariant, PTL

\* A slot always has one owner: the pool, the accept thread that initialises
\* it, the live session, or the one thread whose CAS in TryRelease succeeded;
\* when Init resets IOCount and the sending flag, nothing of the last session
\* is left: no packet, no operation in the kernel, no thread.  It is so until
\* GenUniqueSessionID goes on with an index that an empty pool did not give it.
THEOREM SlotsAlwaysHaveOneOwner == Spec => []SlotHasOneOwner
<1>1. ASSUME LanInv PROVE SlotHasOneOwner
  <2> SUFFICES ASSUME ~At(Acceptor, "index_zero"), NEW s \in Slot
               PROVE  /\ \A t, u \in {x \in Thread : Releasing(x, s)} : t = u
                      /\ ~session[s].released <=>
                           s \notin unused /\ ~Opening(s) /\ {x \in Thread : Releasing(x, s)} = {}
                      /\ session[s].released => \A op \in Op : kernel[s].op[op] = "idle"
                      /\ s \in unused \/ Opening(s) =>
                           /\ session[s].closed /\ session[s].queue = <<>> /\ session[s].sending = <<>>
                           /\ \A t \in Thread : cur(t) = s => thread[t].pc \in
                                {"idle", "init", "open", "count_down", "on_disconnected",
                                 "pop_failed", "aborted"}
    BY DEF SlotHasOneOwner
  <2>1. SlotOK(s, thread, session[s], kernel[s].op, unused) /\ Acceptor \in Thread
    BY <1>1 DEF LanInv, SlotInv, Thread
  <2>2. \A t \in Thread : ControlOK(t, thread[t])
    BY <1>1 DEF LanInv, ControlInv
  <2>3. ASSUME NEW t \in Thread, thread[t].cur = s, thread[t].pc \in BetweenLabel
        PROVE  In(thread[t], s) /\ Refs(thread[t]) = 0 /\ (Releasing(t, s) \/ (t = Acceptor /\ Opening(s)))
    <3>1. thread[t].ret \in {NoCall, OfLoop}
      BY <2>2, <2>3
         DEF BetweenLabel, ControlOK, AcceptLabel, SendLabel, RemoveLabel, GoneLabel, PoolLabel
    <3>2. thread[t].pc \in {"init", "open"} => t = Acceptor
      BY <2>2, <2>3
         DEF BetweenLabel, ControlOK, AcceptLabel, SendLabel, RemoveLabel, GoneLabel, PoolLabel
    <3>. QED  BY <2>3, <3>1, <3>2, StacksDiffer
              DEF In, BetweenLabel, Refs, HoldLabel, Releasing, Opening, cur, AwayLabel, PoolLabel
  <2>4. ASSUME NEW t \in Thread, Releasing(t, s) PROVE thread[t].cur = s /\ thread[t].pc \in BetweenLabel
    BY <2>4 DEF Releasing, BetweenLabel, cur
  <2>5. ASSUME Opening(s)
        PROVE  /\ thread[Acceptor].cur = s /\ thread[Acceptor].pc \in BetweenLabel
               /\ thread[Acceptor].pc \in {"init", "open"}
    BY <2>5 DEF Opening, BetweenLabel, cur
  <2>6. \A t, u \in {x \in Thread : Releasing(x, s)} : t = u
    BY <2>1, <2>3, <2>4 DEF SlotOK
  <2>7. ASSUME ~session[s].released
        PROVE  s \notin unused /\ ~Opening(s) /\ {x \in Thread : Releasing(x, s)} = {}
    BY <2>1, <2>3, <2>4, <2>5, <2>7 DEF SlotOK
  <2>8. ASSUME session[s].released
        PROVE  s \in unused \/ Opening(s) \/ \E x \in Thread : Releasing(x, s)
    <3>1. CASE s \notin unused
      <4>1. PICK t \in Thread : In(thread[t], s) /\ thread[t].pc \in BetweenLabel
        BY <2>1, <2>8, <3>1 DEF SlotOK
      <4>. QED  BY <2>3, <4>1 DEF In, AwayLabel, PoolLabel
    <3>. QED  BY <3>1
  <2>9. session[s].released => \A op \in Op : kernel[s].op[op] = "idle"
    BY <2>1 DEF SlotOK
  <2>10. ASSUME s \in unused \/ Opening(s)
         PROVE  /\ session[s].closed /\ session[s].queue = <<>> /\ session[s].sending = <<>>
                /\ \A t \in Thread : cur(t) = s => thread[t].pc \in
                     {"idle", "init", "open", "count_down", "on_disconnected", "pop_failed", "aborted"}
    <3>1. session[s].closed /\ session[s].queue = <<>> /\ session[s].sending = <<>>
      BY <2>1, <2>3, <2>5, <2>10 DEF SlotOK
    <3>2. ASSUME NEW t \in Thread, cur(t) = s
          PROVE  thread[t].pc \in {"idle", "init", "open", "count_down", "on_disconnected",
                                   "pop_failed", "aborted"}
      <4>1. thread[t].pc # "index_zero"
        BY <2>2 DEF ControlOK, SendLabel, RemoveLabel, GoneLabel, At
      <4>2. ~In(thread[t], s) => thread[t].pc \in
              {"idle", "count_down", "on_disconnected", "pop_failed", "aborted"}
        BY <3>2, <4>1 DEF In, cur, AwayLabel, PoolLabel
      <4>3. CASE s \in unused
        BY <2>1, <4>2, <4>3 DEF SlotOK
      <4>4. CASE Opening(s)
        BY <2>1, <2>3, <2>5, <4>2, <4>4 DEF SlotOK
      <4>. QED  BY <2>10, <4>3, <4>4
    <3>. QED  BY <3>1, <3>2
  <2>. QED  BY <2>6, <2>7, <2>8, <2>9, <2>10
<1>. QED  BY <1>1, LanInvariant, PTL

\* There is always at most one WSASend at a time for a session: one thread is
\* between a successful ReadySending and the completion's FinishSending, then
\* the kernel has no send, and the flag is not zero, so no other begins.
THEOREM AlwaysOneSendAtATime == Spec => []OneSendAtATime
<1>1. ASSUME LanInv PROVE OneSendAtATime
  <2> SUFFICES ASSUME NEW s \in Slot, NEW t \in Thread, Sending(thread[t], s)
               PROVE  /\ \A u \in Thread : Sending(thread[u], s) => t = u
                      /\ kernel[s].op["send"] = "idle" /\ session[s].isSending >= 1
    BY DEF OneSendAtATime, Sending, cur
  <2>1. SendOK(s, thread, session[s], kernel[s].op)
    BY <1>1 DEF LanInv, SendInv
  <2>2. In(thread[t], s) /\ thread[t].pc \notin BetweenLabel
    BY DEF Sending, In, BetweenLabel, AwayLabel, PoolLabel
  <2>3. ~session[s].released
    BY <1>1, <2>2 DEF LanInv, SlotInv, SlotOK
  <2>4. IsFiniteSet(Flagged(s, thread)) /\ t \in Flagged(s, thread)
    BY ThreadsFinite, FS_Subset DEF Flagged
  <2>5. PICK n \in Nat : n = Cardinality(Flagged(s, thread))
    BY <2>4, FS_CardinalityType
  <2>6. n # 0
    BY <2>4, <2>5, FS_EmptySet
  <2>7. session[s].isSending \in Int
    BY <1>1 DEF LanInv, TypeInv, Session
  <2>8. kernel[s].op["send"] = "idle" /\ \A u \in Thread : Sending(thread[u], s) => t = u
    BY <2>1 DEF SendOK
  <2>9. session[s].isSending >= n
    BY <2>1, <2>3, <2>5, <2>8 DEF SendOK
  <2>. QED  BY <2>6, <2>7, <2>8, <2>9
<1>. QED  BY <1>1, LanInvariant, PTL

-----------------------------------------------------------------------------
(* LanCore keeps the order of the callbacks. *)

\* The ids the application was told of: by OnConnected, or as gone only.
Known == joined \cup refused

\* The accept thread has an id it has not announced yet; at the last labels
\* the session is live.
WelcomeLabel == {"count_up", "associate", "on_connected"}
PrepareLabel == {"init", "open"} \cup WelcomeLabel
Fresh(s, r) == r.cur = s /\ r.pc \in WelcomeLabel

\* Such an id is the newest one, and not known.
NewestOK ==
  /\ thread[Acceptor].pc \in PrepareLabel => uidAcc \in 1..MaxUid /\ uidAcc \notin Known
  /\ At(Acceptor, "open") => session[cur(Acceptor)].id = uidAcc

\* A live session has an id of its own, which is known once it is announced,
\* and then OnDisconnected has not been called with it.
IdOK(s) ==
  ~session[s].released =>
    /\ IF Fresh(s, thread[Acceptor]) THEN session[s].id = uidAcc
       ELSE session[s].id \in Known \ left
    /\ \A x \in Slot : ~session[x].released /\ session[x].id = session[s].id => x = s

\* A thread that tries to release a session has its id; one that has released
\* it has an id that is known, that no live session and no other such thread
\* has, and that OnDisconnected has not been called with.
ReportOK(t) ==
  /\ At(t, "release_cas") => thread[t].id = session[cur(t)].id
  /\ thread[t].pc \in GoneLabel =>
       /\ thread[t].id \in Known \ left
       /\ \A s \in Slot : ~session[s].released => session[s].id # thread[t].id
       /\ \A u \in Thread : thread[u].pc \in GoneLabel /\ thread[u].id = thread[t].id => u = t

EventInv ==
  /\ uidAcc <= MaxUid /\ Known \subseteq 1..uidAcc /\ left \subseteq Known
  /\ NewestOK
  /\ \A s \in Slot : IdOK(s)
  /\ \A t \in Thread : ReportOK(t)

\* What another thread, or a step that is not about ids, makes of registers.
Calm(r, n) ==
  /\ n.pc = "release_cas" => r.pc = "release_cas" /\ n.cur = r.cur /\ n.id = r.id
  /\ n.pc \in GoneLabel => r.pc \in GoneLabel /\ n.id = r.id
  /\ r.pc \in PrepareLabel \/ n.pc \in PrepareLabel =>
       r = n \/ (r.pc \in WelcomeLabel /\ n.pc \in WelcomeLabel /\ n.cur = r.cur)

\* No session becomes live or is released; an id changes only in Release.
Steady ==
  \A s \in Slot :
    /\ session'[s].released = session[s].released
    /\ session'[s].id = session[s].id \/ \E t \in Thread : thread[t].pc = "release" /\ thread[t].cur = s

Quiet ==
  /\ UNCHANGED <<uidAcc, joined, left, refused>>
  /\ Steady
  /\ \A t \in Thread : Calm(thread[t], thread'[t])

\* A thread at work in a slot is in it while its session is live, but for the
\* ones that prepare or release it.
LEMMA WorkIsLive ==
  ASSUME LanInv, NEW t \in Thread,
         thread[t].pc \notin BetweenLabel \cup AwayLabel
  PROVE  /\ ~session[thread[t].cur].released
         /\ \A u \in Thread : thread[u].cur = thread[t].cur => thread[u].pc \notin BetweenLabel
<1>1. thread[t].cur \in Slot
  BY Setting
<1>2. SlotOK(thread[t].cur, thread, session[thread[t].cur], kernel[thread[t].cur].op, unused)
  BY <1>1 DEF LanInv, SlotInv
<1>3. In(thread[t], thread[t].cur) /\ thread[t].pc \notin BetweenLabel
  BY DEF In, AwayLabel, PoolLabel
<1>4. ~session[thread[t].cur].released
  BY <1>2, <1>3 DEF SlotOK
<1>5. ASSUME NEW u \in Thread, thread[u].cur = thread[t].cur, thread[u].pc \in BetweenLabel
      PROVE  FALSE
  <2>1. In(thread[u], thread[t].cur)
    BY <1>5 DEF In, BetweenLabel, AwayLabel, PoolLabel
  <2>. QED  BY <1>2, <1>4, <1>5, <2>1 DEF SlotOK
<1>. QED  BY <1>4, <1>5

\* The accept thread is alone in the slot it prepares, and only it prepares.
LEMMA PreparesAlone ==
  ASSUME LanInv
  PROVE  /\ \A t \in Thread : thread[t].pc \in PrepareLabel => t = Acceptor
         /\ thread[Acceptor].pc \in PrepareLabel =>
              /\ thread[Acceptor].ret = NoCall
              /\ \A u \in Thread \ {Acceptor} : ~In(thread[u], thread[Acceptor].cur)
              /\ \A o \in Op : kernel[thread[Acceptor].cur].op[o] = "idle"
              /\ session[thread[Acceptor].cur].released <=> thread[Acceptor].pc \in {"init", "open"}
<1>1. Acceptor \in Thread /\ \A t \in Thread : ControlOK(t, thread[t])
  BY DEF Thread, LanInv, ControlInv
<1>2. ASSUME NEW t \in Thread, thread[t].pc \in PrepareLabel
      PROVE  t = Acceptor /\ thread[t].ret = NoCall
  <2>1. thread[t].pc \notin {"idle", "recv_inc", "recv_wsa", "finish", "received", "cancel",
                             "acquire", "enqueue"}
        /\ thread[t].pc \notin SendLabel \cup RemoveLabel \cup GoneLabel
    BY <1>2 DEF PrepareLabel, WelcomeLabel, SendLabel, RemoveLabel, GoneLabel
  <2>. QED  BY <1>1, <2>1 DEF ControlOK
<1>3. ASSUME thread[Acceptor].pc \in PrepareLabel
      PROVE  /\ \A u \in Thread \ {Acceptor} : ~In(thread[u], thread[Acceptor].cur)
             /\ \A o \in Op : kernel[thread[Acceptor].cur].op[o] = "idle"
             /\ session[thread[Acceptor].cur].released <=> thread[Acceptor].pc \in {"init", "open"}
  <2>1. thread[Acceptor].cur \in Slot /\ In(thread[Acceptor], thread[Acceptor].cur)
    BY <1>1, <1>3, Setting DEF In, PrepareLabel, WelcomeLabel, AwayLabel, PoolLabel
  <2>2. Refs(thread[Acceptor]) = 0
    BY <1>1, <1>2, <1>3, StacksDiffer DEF Refs, HoldLabel, PrepareLabel, WelcomeLabel
  <2>3. AloneIn(thread[Acceptor].cur, Acceptor, thread, session[thread[Acceptor].cur],
                kernel[thread[Acceptor].cur].op, unused)
    BY <1>1, <2>1, <2>2, AloneHere
  <2>4. thread[Acceptor].pc \in BetweenLabel <=> thread[Acceptor].pc \in {"init", "open"}
    BY <1>3 DEF BetweenLabel, PrepareLabel, WelcomeLabel
  <2>. QED  BY <2>3, <2>4 DEF AloneIn
<1>. QED  BY <1>1, <1>2, <1>3

\* A quiet step keeps the invariant.
LEMMA EventKept == ASSUME LanInv, EventInv, Quiet PROVE EventInv'
<1>. DEFINE a == thread[Acceptor]
            b == thread'[Acceptor]
<1>0. /\ Acceptor \in Thread /\ a.cur \in Slot
      /\ \A t \in Thread : thread[t].cur \in Slot /\ thread[t].pc \in Label
  BY Setting DEF Thread, LanInv, TypeInv, Register
<1>1. uidAcc' = uidAcc /\ Known' = Known /\ left' = left /\ Steady
  BY DEF Quiet, Known
<1>2. \A t \in Thread : Calm(thread[t], thread'[t])
  BY DEF Quiet
<1>3. \A s \in Slot : session[s].released \/ session'[s].id = session[s].id
  <2> SUFFICES ASSUME NEW s \in Slot, NEW t \in Thread, thread[t].pc = "release", thread[t].cur = s
               PROVE  session[s].released
    BY <1>1 DEF Steady
  <2>1. SlotOK(s, thread, session[s], kernel[s].op, unused)
    BY DEF LanInv, SlotInv
  <2>2. In(thread[t], s) /\ thread[t].pc \in BetweenLabel
    BY DEF In, BetweenLabel, AwayLabel, PoolLabel
  <2>. QED  BY <2>1, <2>2 DEF SlotOK
<1>4. \/ a = b
      \/ a.pc \in WelcomeLabel /\ b.pc \in WelcomeLabel /\ b.cur = a.cur
      \/ a.pc \notin PrepareLabel /\ b.pc \notin PrepareLabel
  BY <1>0, <1>2 DEF Calm
<1>5. NewestOK'
  <2>1. NewestOK
    BY DEF EventInv
  <2>2. b.pc \in PrepareLabel => a.pc \in PrepareLabel
    BY <1>4 DEF PrepareLabel
  <2>3. ASSUME b.pc = "open" PROVE session'[b.cur].id = uidAcc
    <3>1. a = b /\ a.pc = "open"
      BY <1>4, <2>3 DEF PrepareLabel, WelcomeLabel
    <3>2. session[a.cur].id = uidAcc
      BY <2>1, <3>1 DEF NewestOK, At, cur
    <3>3. ASSUME NEW t \in Thread, thread[t].pc = "release", thread[t].cur = a.cur PROVE FALSE
      <4>1. In(thread[t], a.cur) /\ t # Acceptor
        BY <3>1, <3>3 DEF In, AwayLabel, PoolLabel
      <4>. QED  BY <3>1, <4>1, PreparesAlone DEF PrepareLabel
    <3>4. session'[a.cur].id = session[a.cur].id
      BY <1>0, <1>1, <3>3 DEF Steady
    <3>. QED  BY <3>1, <3>2, <3>4
  <2>. QED  BY <1>1, <2>1, <2>2, <2>3 DEF NewestOK, At, cur
<1>6. ASSUME NEW s \in Slot PROVE IdOK(s)'
  <2>1. \A x \in Slot : IdOK(x)
    BY DEF EventInv
  <2>2. Fresh(s, b) <=> Fresh(s, a)
    BY <1>4 DEF Fresh, PrepareLabel
  <2>3. \A x \in Slot : /\ session'[x].released <=> session[x].released
                        /\ ~session[x].released => session'[x].id = session[x].id
    BY <1>1, <1>3 DEF Steady
  <2>. QED  BY <1>1, <2>1, <2>2, <2>3 DEF IdOK
<1>7. ASSUME NEW t \in Thread PROVE ReportOK(t)'
  <2>1. \A u \in Thread : ReportOK(u)
    BY DEF EventInv
  <2>2. \A x \in Slot : /\ session'[x].released <=> session[x].released
                        /\ ~session[x].released => session'[x].id = session[x].id
    BY <1>1, <1>3 DEF Steady
  <2>3. ASSUME thread'[t].pc = "release_cas" PROVE thread'[t].id = session'[thread'[t].cur].id
    <3>1. thread[t].pc = "release_cas" /\ thread'[t].cur = thread[t].cur /\ thread'[t].id = thread[t].id
      BY <1>2, <2>3 DEF Calm
    <3>2. ~session[thread[t].cur].released
      BY <3>1, WorkIsLive DEF BetweenLabel, AwayLabel, PoolLabel
    <3>. QED  BY <1>0, <2>1, <2>2, <3>1, <3>2 DEF ReportOK, At, cur
  <2>4. \A u \in Thread : thread'[u].pc \in GoneLabel =>
                            thread[u].pc \in GoneLabel /\ thread'[u].id = thread[u].id
    BY <1>2 DEF Calm
  <2>5. ASSUME thread'[t].pc \in GoneLabel
        PROVE  /\ thread'[t].id \in Known \ left
               /\ \A s \in Slot : ~session'[s].released => session'[s].id # thread'[t].id
               /\ \A u \in Thread : thread'[u].pc \in GoneLabel /\ thread'[u].id = thread'[t].id => u = t
    BY <2>1, <2>2, <2>4, <2>5 DEF ReportOK, At, cur
  <2>. QED  BY <1>1, <2>3, <2>5 DEF ReportOK, At, cur
<1>8. (uidAcc <= MaxUid /\ Known \subseteq 1..uidAcc /\ left \subseteq Known)'
  BY <1>1 DEF EventInv
<1>. QED  BY <1>5, <1>6, <1>7, <1>8 DEF EventInv

\* What a thread's step does to the registers of the others, and to its own.
LEMMA Moved ==
  ASSUME LanInv, NEW t \in Thread
  PROVE  /\ \A l : Goto(t, l) \/ (\E x : Call(t, l, x)) =>
              /\ \A u \in Thread \ {t} : thread'[u] = thread[u]
              /\ thread'[t].pc = l /\ thread'[t].cur = thread[t].cur /\ thread'[t].id = thread[t].id
         /\ Return(t) /\ thread[t].ret # NoCall =>
              /\ \A u \in Thread \ {t} : thread'[u] = thread[u]
              /\ thread'[t].pc \in {"idle", "dec", "received"} /\ thread'[t].cur = thread[t].cur
<1>1. thread \in [Thread -> Register] /\ thread[t] \in Register /\ thread[t].ret \in Stack
  BY Setting
<1>2. ASSUME NEW l, Goto(t, l) \/ \E x : Call(t, l, x)
      PROVE  /\ \A u \in Thread \ {t} : thread'[u] = thread[u]
             /\ thread'[t].pc = l /\ thread'[t].cur = thread[t].cur /\ thread'[t].id = thread[t].id
  <2>1. CASE Goto(t, l)
    BY <1>1, <2>1 DEF Goto, Register
  <2>2. ASSUME NEW x, Call(t, l, x)
        PROVE  /\ \A u \in Thread \ {t} : thread'[u] = thread[u]
               /\ thread'[t].pc = l /\ thread'[t].cur = thread[t].cur /\ thread'[t].id = thread[t].id
    <3>1. PICK st : st = <<x>> \o thread[t].ret
      OBVIOUS
    <3>2. thread' = [thread EXCEPT ![t].pc = l, ![t].ret = st]
      BY <1>1, <2>2, <3>1 DEF Call
    <3>. QED  BY <1>1, <3>2 DEF Register
  <2>. QED  BY <1>2, <2>1, <2>2
<1>3. ASSUME Return(t), thread[t].ret # NoCall
      PROVE  /\ \A u \in Thread \ {t} : thread'[u] = thread[u]
             /\ thread'[t].pc \in {"idle", "dec", "received"} /\ thread'[t].cur = thread[t].cur
  <2>1. thread[t].ret \in {OfLoop, OfCompletion, OfReceived, OfSendPacket}
    BY <1>1, <1>3 DEF Stack
  <2>. QED  BY <1>3, <2>1, ReturnIs DEF Becomes
<1>. QED  BY <1>2, <1>3

\* A step of one thread, to a label that says nothing of ids, is calm.
LEMMA CalmStep ==
  ASSUME NEW t \in Thread, \A u \in Thread \ {t} : thread'[u] = thread[u],
         thread[t].pc \notin PrepareLabel,
         thread'[t].pc \notin PrepareLabel \cup GoneLabel \cup {"release_cas"}
  PROVE  \A u \in Thread : Calm(thread[u], thread'[u])
  BY DEF Calm

\* What a session's other fields are set to does not matter.
LEMMA SteadyStep ==
  ASSUME LanInv, NEW t \in Thread,
         \/ session' = session
         \/ \E d \in Int : Count(cur(t), d)
         \/ \E s \in Slot : \E x : session' = [session EXCEPT ![s].isSending = x]
         \/ \E s \in Slot : \E x, y : session' = [session EXCEPT ![s].sending = x, ![s].queue = y]
         \/ \E s \in Slot : \E x, y : session' = [session EXCEPT ![s].sending = x, ![s].isSending = y]
         \/ \E s \in Slot : \E x : session' = [session EXCEPT ![s].closed = x]
         \/ \E s \in Slot : \E x : session' = [session EXCEPT ![s].queue = x]
  PROVE  Steady
<1>1. session \in [Slot -> Session] /\ thread[t].cur \in Slot
  BY Setting
<1>2. SUFFICES ASSUME NEW z \in Slot
               PROVE  session'[z].released = session[z].released /\ session'[z].id = session[z].id
  BY DEF Steady
<1>3. session[z] \in Session
  BY <1>1
<1>4. ASSUME NEW d \in Int, Count(cur(t), d)
      PROVE  session'[z].released = session[z].released /\ session'[z].id = session[z].id
  BY <1>1, <1>3, <1>4 DEF Session, Count, cur
<1>5. ASSUME NEW s \in Slot, NEW x, NEW y, session' = [session EXCEPT ![s].sending = x, ![s].queue = y]
      PROVE  session'[z].released = session[z].released /\ session'[z].id = session[z].id
  BY <1>1, <1>3, <1>5 DEF Session
<1>6. ASSUME NEW s \in Slot, NEW x, NEW y, session' = [session EXCEPT ![s].sending = x, ![s].isSending = y]
      PROVE  session'[z].released = session[z].released /\ session'[z].id = session[z].id
  BY <1>1, <1>3, <1>6 DEF Session
<1>7. ASSUME NEW s \in Slot, NEW x,
             \/ session' = [session EXCEPT ![s].isSending = x]
             \/ session' = [session EXCEPT ![s].closed = x]
             \/ session' = [session EXCEPT ![s].queue = x]
      PROVE  session'[z].released = session[z].released /\ session'[z].id = session[z].id
  <2>1. CASE session' = [session EXCEPT ![s].isSending = x]
    BY <1>1, <1>3, <2>1 DEF Session
  <2>2. CASE session' = [session EXCEPT ![s].closed = x]
    BY <1>1, <1>3, <2>2 DEF Session
  <2>3. CASE session' = [session EXCEPT ![s].queue = x]
    BY <1>1, <1>3, <2>3 DEF Session
  <2>. QED  BY <1>7, <2>1, <2>2, <2>3
<1>. QED  BY <1>4, <1>5, <1>6, <1>7

\* The control points whose thread has a caller to return to.
LEMMA HasCaller ==
  ASSUME LanInv, NEW t \in Thread,
         thread[t].pc \notin AcceptLabel
  PROVE  thread[t].ret # NoCall
<1>1. ControlOK(t, thread[t])
  BY Setting
<1>. QED  BY <1>1, StacksDiffer DEF ControlOK, AcceptLabel, PoolLabel

\* Steps of RecvPost and SendPost.
LEMMA PostQuiet == ASSUME LanInv, NEW t \in Thread, Post(t) PROVE Quiet
<1>. USE DEF At, managerVars, eventVars
<1>1. UNCHANGED <<uidAcc, joined, left, refused>>
  BY DEF Post, RecvPostIncrement, RecvPostWSARecv, ReadFlag, TakeFlag, GiveFlagBack, DequeueAll,
     SendPostIncrement, SendPostWSASend
<1>2. thread[t].cur \in Slot
  BY Setting
<1>3. Steady
  <2>1. CASE session' = session
    BY <2>1, SteadyStep
  <2>2. CASE RecvPostIncrement(t) \/ SendPostIncrement(t)
    BY <2>2, SteadyStep DEF RecvPostIncrement, SendPostIncrement
  <2>3. CASE TakeFlag(t) \/ GiveFlagBack(t)
    BY <1>2, <2>3, SteadyStep DEF TakeFlag, GiveFlagBack, cur
  <2>4. CASE DequeueAll(t)
    BY <1>2, <2>4, SteadyStep DEF DequeueAll, cur
  <2>5. CASE RecvPostWSARecv(t) \/ ReadFlag(t) \/ SendPostWSASend(t)
    BY <2>1, <2>5 DEF RecvPostWSARecv, ReadFlag, SendPostWSASend
  <2>. QED  BY <2>2, <2>3, <2>4, <2>5 DEF Post
<1>4. thread[t].pc \in {"recv_inc", "recv_wsa", "flag", "flag_inc", "flag_dec", "dequeue",
                        "send_inc", "send_wsa"}
  BY DEF Post, RecvPostIncrement, RecvPostWSARecv, ReadFlag, TakeFlag, GiveFlagBack, DequeueAll,
     SendPostIncrement, SendPostWSASend
<1>5. thread[t].pc \notin PrepareLabel /\ thread[t].ret # NoCall
  BY <1>4, HasCaller DEF PrepareLabel, WelcomeLabel, AcceptLabel, PoolLabel
<1>6. \/ Return(t)
      \/ \E l \in {"recv_wsa", "dec", "flag_inc", "flag_dec", "dequeue", "threw", "send_inc",
                   "send_wsa"} : Goto(t, l)
  <2>1. CASE RecvPostIncrement(t) \/ TakeFlag(t) \/ SendPostIncrement(t)
    BY <2>1 DEF RecvPostIncrement, TakeFlag, SendPostIncrement
  <2>2. CASE RecvPostWSARecv(t) \/ SendPostWSASend(t)
    BY <2>2 DEF RecvPostWSARecv, SendPostWSASend, WSA
  <2>3. CASE ReadFlag(t) \/ GiveFlagBack(t) \/ DequeueAll(t)
    BY <2>3 DEF ReadFlag, GiveFlagBack, DequeueAll
  <2>. QED  BY <2>1, <2>2, <2>3 DEF Post
<1>7. \A u \in Thread : Calm(thread[u], thread'[u])
  <2>1. /\ \A u \in Thread \ {t} : thread'[u] = thread[u]
        /\ thread'[t].pc \in {"recv_wsa", "dec", "flag_inc", "flag_dec", "dequeue", "threw", "send_inc",
                              "send_wsa", "idle", "received"}
    BY <1>5, <1>6, Moved
  <2>. QED  BY <1>5, <2>1, CalmStep DEF PrepareLabel, WelcomeLabel, GoneLabel
<1>. QED  BY <1>1, <1>3, <1>7 DEF Quiet

\* Steps of the IO threads' own functions and of the calls of OnReceived.
LEMMA ServeQuiet == ASSUME LanInv, NEW t \in IOThread, Serve(t) PROVE Quiet
<1>. USE DEF At, managerVars, eventVars
<1>0. t \in Thread
  BY DEF Thread
<1>1. UNCHANGED <<uidAcc, joined, left, refused>>
  BY DEF Serve, Completion, NetworkSendCompleted, NetworkRecvCompleted, CancelationIO,
     SendPacketFind, SendPacketAcquire, SendPacketEnqueue, Disconnect
<1>2. thread[t].cur \in Slot /\ thread \in [Thread -> Register] /\ thread[t] \in Register
  BY <1>0, Setting
<1>3. Steady
  <2>1. CASE session' = session
    BY <1>0, <2>1, SteadyStep
  <2>2. CASE SendPacketAcquire(t)
    BY <1>0, <2>2, SteadyStep DEF SendPacketAcquire
  <2>3. CASE NetworkSendCompleted(t) \/ CancelationIO(t)
    <3>1. CASE CancelationIO(t)
      BY <1>0, <1>2, <3>1, SteadyStep DEF CancelationIO, cur
    <3>2. CASE NetworkSendCompleted(t)
      <4>1. PICK c \in Slot : c = cur(t)
        BY <1>2 DEF cur
      <4>2. PICK y : session' = [session EXCEPT ![c].sending = <<>>, ![c].isSending = y]
        <5>1. session' = [session EXCEPT ![c].sending = <<>>,
                                         ![c].isSending = session[c].isSending - 1]
          BY <1>0, <3>2, <4>1, Setting DEF NetworkSendCompleted
        <5>. QED  BY <5>1
      <4>. QED  BY <1>0, <4>2, SteadyStep
    <3>. QED  BY <2>3, <3>1, <3>2
  <2>4. CASE SendPacketEnqueue(t)
    <3>1. session' = session \/ \E x : session' = [session EXCEPT ![cur(t)].queue = x]
      BY <2>4 DEF SendPacketEnqueue
    <3>. QED  BY <1>0, <1>2, <2>1, <3>1, SteadyStep DEF cur
  <2>5. CASE NetworkRecvCompleted(t) \/ SendPacketFind(t) \/ Disconnect(t)
             \/ \E s \in Slot, op \in Op : Completion(t, s, op)
    BY <2>1, <2>5 DEF NetworkRecvCompleted, SendPacketFind, Disconnect, Completion
  <2>. QED  BY <2>2, <2>3, <2>4, <2>5 DEF Serve
<1>4. thread[t].pc \notin PrepareLabel
  BY DEF Serve, Completion, NetworkSendCompleted, NetworkRecvCompleted, CancelationIO,
     SendPacketFind, SendPacketAcquire, SendPacketEnqueue, Disconnect, PrepareLabel, WelcomeLabel
<1>5. /\ \A u \in Thread \ {t} : thread'[u] = thread[u]
      /\ thread'[t].pc \in {"dec", "finish", "received", "flag", "recv_inc", "cancel",
                            "acquire", "enqueue", "release_id"}
  <2>1. CASE \E s \in Slot, op \in Op : Completion(t, s, op)
    BY <1>0, <1>2, <2>1 DEF Completion, Register
  <2>2. CASE SendPacketFind(t)
    BY <1>0, <1>2, <2>2 DEF SendPacketFind, Register
  <2>3. CASE NetworkSendCompleted(t) \/ NetworkRecvCompleted(t) \/ CancelationIO(t)
             \/ SendPacketAcquire(t) \/ SendPacketEnqueue(t) \/ Disconnect(t)
    <3>1. \E l \in {"dec", "flag", "recv_inc", "cancel", "enqueue", "release_id"} :
            Goto(t, l) \/ \E x : Call(t, l, x)
      BY <2>3 DEF NetworkSendCompleted, NetworkRecvCompleted, CancelationIO, SendPacketAcquire,
         SendPacketEnqueue, Disconnect
    <3>. QED  BY <1>0, <3>1, Moved
  <2>. QED  BY <2>1, <2>2, <2>3 DEF Serve
<1>6. \A u \in Thread : Calm(thread[u], thread'[u])
  BY <1>0, <1>4, <1>5, CalmStep DEF PrepareLabel, WelcomeLabel, GoneLabel
<1>. QED  BY <1>1, <1>3, <1>6 DEF Quiet

\* Giving a reference up, the rest of a release before OnDisconnected, and the
\* count going up say nothing of ids.
LEMMA RemoveQuiet ==
  ASSUME LanInv, NEW t \in Thread,
         Decrement(t) \/ Release(t) \/ PushIndex(t) \/ CountDown(t)
  PROVE  Quiet
<1>. USE DEF At, managerVars, eventVars
<1>1. UNCHANGED <<uidAcc, joined, left, refused>>
  BY DEF Decrement, Release, PushIndex, CountDown
<1>2. session \in [Slot -> Session] /\ thread[t].cur \in Slot /\ session[thread[t].cur] \in Session
  BY Setting
<1>3. CASE Decrement(t)
  <2>1. Steady
    BY <1>3, SteadyStep DEF Decrement
  <2>2. Goto(t, "release_id") \/ Return(t)
    BY <1>3 DEF Decrement
  <2>3. thread[t].pc = "dec" /\ thread[t].ret # NoCall
    <3>1. thread[t].pc = "dec"
      BY <1>3 DEF Decrement
    <3>. QED  BY <3>1, HasCaller DEF AcceptLabel, PoolLabel
  <2>4. /\ \A u \in Thread \ {t} : thread'[u] = thread[u]
        /\ thread'[t].pc \in {"release_id", "idle", "dec", "received"}
    BY <2>2, <2>3, Moved
  <2>5. \A u \in Thread : Calm(thread[u], thread'[u])
    BY <2>3, <2>4, CalmStep DEF PrepareLabel, WelcomeLabel, GoneLabel
  <2>. QED  BY <1>1, <2>1, <2>5 DEF Quiet
<1>4. CASE Release(t) \/ PushIndex(t) \/ CountDown(t)
  <2>1. Steady
    <3>1. CASE Release(t)
      <4>1. \A s \in Slot : session'[s].released = session[s].released
        BY <1>2, <3>1 DEF Release, Session, cur
      <4>2. \A s \in Slot : session'[s].id = session[s].id \/ (thread[t].pc = "release" /\ thread[t].cur = s)
        BY <1>2, <3>1 DEF Release, Session, cur
      <4>. QED  BY <4>1, <4>2 DEF Steady
    <3>2. CASE PushIndex(t) \/ CountDown(t)
      BY <3>2, SteadyStep DEF PushIndex, CountDown
    <3>. QED  BY <1>4, <3>1, <3>2
  <2>2. thread[t].pc \in GoneLabel /\ \E l \in GoneLabel : Goto(t, l)
    BY <1>4 DEF Release, PushIndex, CountDown, GoneLabel
  <2>3. /\ \A u \in Thread \ {t} : thread'[u] = thread[u]
        /\ thread'[t].pc \in GoneLabel /\ thread'[t].id = thread[t].id
    BY <2>2, Moved
  <2>4. \A u \in Thread : Calm(thread[u], thread'[u])
    BY <2>2, <2>3 DEF Calm, PrepareLabel, WelcomeLabel, GoneLabel
  <2>. QED  BY <1>1, <2>1, <2>4 DEF Quiet
<1>. QED  BY <1>3, <1>4

\* Nor does an empty pool.
LEMMA PoolQuiet == ASSUME LanInv, PopFails \/ PopUnchecked PROVE Quiet
<1>1. UNCHANGED <<uidAcc, joined, left, refused, session>>
  BY DEF PopFails, PopUnchecked, managerVars, eventVars
<1>2. Acceptor \in Thread /\ thread[Acceptor].pc \in {"idle", "pop_failed"}
  BY DEF PopFails, PopUnchecked, At, Thread
<1>3. \E l \in PoolLabel : Goto(Acceptor, l)
  BY DEF PopFails, PopUnchecked, PoolLabel
<1>4. /\ \A u \in Thread \ {Acceptor} : thread'[u] = thread[u]
      /\ thread'[Acceptor].pc \in PoolLabel
  BY <1>2, <1>3, Moved
<1>5. \A u \in Thread : Calm(thread[u], thread'[u])
  BY <1>2, <1>4, CalmStep DEF PrepareLabel, WelcomeLabel, GoneLabel, PoolLabel
<1>. QED  BY <1>1, <1>5 DEF Quiet, Steady

\* The kernel, the clients, and no step at all.
LEMMA KernelQuiet ==
  ASSUME LanInv,
         \/ CountUp
         \/ \E s \in Slot : PeerLeaves(s) \/ \E op \in Op : KernelCompletes(s, op)
         \/ UNCHANGED vars
  PROVE  Quiet
<1>. USE DEF managerVars, eventVars, vars
<1>1. UNCHANGED <<uidAcc, joined, left, refused>> /\ session' = session
  BY DEF CountUp, PeerLeaves, KernelCompletes
<1>2. Steady
  BY <1>1 DEF Steady
<1>3. CASE CountUp
  <2>1. Acceptor \in Thread /\ thread[Acceptor].pc = "count_up" /\ Goto(Acceptor, "associate")
    BY <1>3 DEF CountUp, At, Thread
  <2>2. /\ \A u \in Thread \ {Acceptor} : thread'[u] = thread[u]
        /\ thread'[Acceptor].pc = "associate" /\ thread'[Acceptor].cur = thread[Acceptor].cur
    BY <2>1, Moved
  <2>3. \A u \in Thread : Calm(thread[u], thread'[u])
    BY <2>1, <2>2 DEF Calm, WelcomeLabel, GoneLabel
  <2>. QED  BY <1>1, <1>2, <2>3 DEF Quiet
<1>4. CASE UNCHANGED thread
  BY <1>1, <1>2, <1>4 DEF Quiet, Calm
<1>5. CountUp \/ UNCHANGED thread
  BY DEF PeerLeaves, KernelCompletes
<1>. QED  BY <1>3, <1>4, <1>5

-----------------------------------------------------------------------------
(* The steps that are about ids. *)

\* GenUniqueSessionID makes an id that is newer than all.
LEMMA GenEvent ==
  ASSUME LanInv, EventInv, NEW s \in Slot, GenUniqueSessionID(s) PROVE EventInv'
<1>1. /\ Acceptor \in Thread /\ thread[Acceptor].pc = "idle"
      /\ thread \in [Thread -> Register] /\ thread[Acceptor] \in Register /\ uidAcc \in Nat
  BY Setting DEF GenUniqueSessionID, At, Thread, LanInv, TypeInv
<1>2. /\ uidAcc' = uidAcc + 1 /\ uidAcc < MaxUid /\ MaxUid \in Nat
      /\ UNCHANGED <<session, joined, left, refused>>
  BY LanAssumption DEF GenUniqueSessionID, eventVars
<1>3. /\ \A u \in Thread \ {Acceptor} : thread'[u] = thread[u]
      /\ thread'[Acceptor].pc = "init"
  BY <1>1 DEF GenUniqueSessionID, Register
<1>4. Known' = Known /\ Known \subseteq 1..uidAcc /\ left \subseteq Known
  BY <1>2 DEF Known, EventInv
<1>5. (uidAcc <= MaxUid /\ Known \subseteq 1..uidAcc /\ left \subseteq Known)'
  BY <1>1, <1>2, <1>4
<1>6. NewestOK'
  <2>1. uidAcc + 1 \notin Known /\ uidAcc + 1 \in 1..MaxUid
    BY <1>1, <1>2, <1>4
  <2>. QED  BY <1>2, <1>3, <1>4, <2>1 DEF NewestOK, At
<1>7. ASSUME NEW x \in Slot PROVE IdOK(x)'
  <2>1. IdOK(x)
    BY DEF EventInv
  <2>2. ~Fresh(x, thread[Acceptor]) /\ ~Fresh(x, thread'[Acceptor])
    BY <1>1, <1>3 DEF Fresh, WelcomeLabel
  <2>. QED  BY <1>2, <1>4, <2>1, <2>2 DEF IdOK
<1>8. ASSUME NEW u \in Thread PROVE ReportOK(u)'
  <2>1. ReportOK(u)
    BY DEF EventInv
  <2>2. thread'[u].pc \in GoneLabel \cup {"release_cas"} => thread'[u] = thread[u]
    BY <1>3 DEF GoneLabel
  <2>3. \A v \in Thread : thread'[v].pc \in GoneLabel => thread'[v] = thread[v]
    BY <1>3 DEF GoneLabel
  <2>. QED  BY <1>2, <1>4, <2>1, <2>2, <2>3 DEF ReportOK, At, cur
<1>. QED  BY <1>5, <1>6, <1>7, <1>8 DEF EventInv

\* Init writes the id into a slot that is released, so no release is on it.
LEMMA InitEvent == ASSUME LanInv, EventInv, InitFields PROVE EventInv'
<1>. DEFINE c == thread[Acceptor].cur
<1>1. /\ Acceptor \in Thread /\ thread[Acceptor].pc = "init" /\ c \in Slot
      /\ session \in [Slot -> Session] /\ session[c] \in Session
  BY Setting DEF InitFields, At, Thread
<1>2. /\ session' = [session EXCEPT ![c].id = uidAcc, ![c].queue = <<>>]
      /\ Goto(Acceptor, "open") /\ UNCHANGED <<uidAcc, joined, left, refused>>
  BY DEF InitFields, managerVars, eventVars, cur
<1>3. /\ \A u \in Thread \ {Acceptor} : thread'[u] = thread[u]
      /\ thread'[Acceptor].pc = "open" /\ thread'[Acceptor].cur = c
  BY <1>1, <1>2, Moved
<1>4. session[c].released
  BY <1>1, PreparesAlone DEF PrepareLabel
<1>5. /\ session'[c].released /\ session'[c].id = uidAcc
      /\ \A x \in Slot \ {c} : session'[x] = session[x]
  BY <1>1, <1>2, <1>4 DEF Session
<1>6. Known' = Known
  BY <1>2 DEF Known
<1>7. (uidAcc <= MaxUid /\ Known \subseteq 1..uidAcc /\ left \subseteq Known)'
  BY <1>2, <1>6 DEF EventInv
<1>8. NewestOK'
  <2>1. uidAcc \in 1..MaxUid /\ uidAcc \notin Known
    BY <1>1 DEF EventInv, NewestOK, PrepareLabel
  <2>. QED  BY <1>2, <1>3, <1>5, <1>6, <2>1 DEF NewestOK, At, cur
<1>9. ASSUME NEW x \in Slot PROVE IdOK(x)'
  <2>1. \A y \in Slot : IdOK(y)
    BY DEF EventInv
  <2>2. ~Fresh(x, thread[Acceptor]) /\ ~Fresh(x, thread'[Acceptor])
    BY <1>1, <1>3 DEF Fresh, WelcomeLabel
  <2>3. \A y \in Slot : ~session'[y].released => ~session[y].released /\ session'[y].id = session[y].id
    BY <1>5
  <2>. QED  BY <1>2, <1>6, <2>1, <2>2, <2>3 DEF IdOK
<1>10. ASSUME NEW u \in Thread PROVE ReportOK(u)'
  <2>1. ReportOK(u) /\ thread[u].cur \in Slot
    BY Setting DEF EventInv
  <2>2. thread'[u].pc \in GoneLabel \cup {"release_cas"} => thread'[u] = thread[u]
    BY <1>3 DEF GoneLabel
  <2>3. \A v \in Thread : thread'[v].pc \in GoneLabel => thread'[v] = thread[v]
    BY <1>3 DEF GoneLabel
  <2>4. \A y \in Slot : ~session'[y].released => ~session[y].released /\ session'[y].id = session[y].id
    BY <1>5
  <2>5. thread[u].pc = "release_cas" => session'[thread[u].cur].id = session[thread[u].cur].id
    <3>1. thread[u].pc = "release_cas" => ~session[thread[u].cur].released
      BY WorkIsLive DEF BetweenLabel, AwayLabel, PoolLabel
    <3>. QED  BY <1>4, <1>5, <2>1, <3>1
  <2>. QED  BY <1>2, <1>6, <2>1, <2>2, <2>3, <2>4, <2>5 DEF ReportOK, At, cur
<1>. QED  BY <1>7, <1>8, <1>9, <1>10 DEF EventInv

\* Then the session is live, with an id that no other has.
LEMMA OpenEvent == ASSUME LanInv, EventInv, Open PROVE EventInv'
<1>. DEFINE c == thread[Acceptor].cur
<1>1. /\ Acceptor \in Thread /\ thread[Acceptor].pc = "open" /\ c \in Slot
      /\ session \in [Slot -> Session] /\ session[c] \in Session
  BY Setting DEF Open, At, Thread
<1>2. /\ session' = [session EXCEPT ![c].ioCount = 0, ![c].released = FALSE,
                       ![c].isSending = 0, ![c].closed = FALSE]
      /\ Goto(Acceptor, "count_up") /\ UNCHANGED <<uidAcc, joined, left, refused>>
  BY DEF Open, managerVars, eventVars, cur
<1>3. /\ \A u \in Thread \ {Acceptor} : thread'[u] = thread[u]
      /\ thread'[Acceptor].pc = "count_up" /\ thread'[Acceptor].cur = c
  BY <1>1, <1>2, Moved
<1>4. /\ session[c].released /\ session[c].id = uidAcc
      /\ uidAcc \in 1..MaxUid /\ uidAcc \notin Known /\ left \subseteq Known
  BY <1>1, PreparesAlone DEF PrepareLabel, EventInv, NewestOK, At, cur
<1>5. /\ ~session'[c].released
      /\ \A x \in Slot : session'[x].id = session[x].id
      /\ \A x \in Slot \ {c} : session'[x].released = session[x].released
  BY <1>1, <1>2 DEF Session
<1>6. Known' = Known
  BY <1>2 DEF Known
<1>7. (uidAcc <= MaxUid /\ Known \subseteq 1..uidAcc /\ left \subseteq Known)'
  BY <1>2, <1>6 DEF EventInv
<1>8. NewestOK'
  BY <1>2, <1>3, <1>4, <1>6 DEF NewestOK, At
<1>9. \A y \in Slot : ~session[y].released => session[y].id \in Known \ left
  <2>1. \A y \in Slot : IdOK(y) /\ ~Fresh(y, thread[Acceptor])
    BY <1>1 DEF EventInv, Fresh, WelcomeLabel
  <2>. QED  BY <2>1 DEF IdOK
<1>10. ASSUME NEW x \in Slot PROVE IdOK(x)'
  <2>1. IdOK(x)
    BY DEF EventInv
  <2>2. Fresh(x, thread'[Acceptor]) <=> x = c
    BY <1>3 DEF Fresh, WelcomeLabel
  <2>3. ASSUME ~session'[x].released
        PROVE  IF x = c THEN session'[x].id = uidAcc ELSE session'[x].id \in Known \ left
    BY <1>4, <1>5, <1>9, <2>3
  <2>4. ASSUME ~session'[x].released, NEW y \in Slot, ~session'[y].released, session'[y].id = session'[x].id
        PROVE  y = x
    BY <1>4, <1>5, <1>9, <2>1, <2>4 DEF IdOK
  <2>. QED  BY <1>2, <1>6, <2>2, <2>3, <2>4 DEF IdOK
<1>11. ASSUME NEW u \in Thread PROVE ReportOK(u)'
  <2>1. ReportOK(u) /\ thread[u].cur \in Slot
    BY Setting DEF EventInv
  <2>2. thread'[u].pc \in GoneLabel \cup {"release_cas"} => thread'[u] = thread[u]
    BY <1>3 DEF GoneLabel
  <2>3. \A v \in Thread : thread'[v].pc \in GoneLabel => thread'[v] = thread[v]
    BY <1>3 DEF GoneLabel
  <2>4. At(u, "release_cas")' => thread'[u].id = session'[thread'[u].cur].id
    BY <1>5, <2>1, <2>2 DEF ReportOK, At, cur
  <2>5. ASSUME thread'[u].pc \in GoneLabel
        PROVE  /\ thread'[u].id \in Known \ left
               /\ \A y \in Slot : ~session'[y].released => session'[y].id # thread'[u].id
               /\ \A v \in Thread : thread'[v].pc \in GoneLabel /\ thread'[v].id = thread'[u].id => v = u
    <3>1. thread'[u] = thread[u] /\ thread[u].id \in Known \ left
      BY <2>1, <2>2, <2>5 DEF ReportOK
    <3>2. \A y \in Slot : ~session'[y].released => session'[y].id # thread[u].id
      BY <1>4, <1>5, <2>1, <2>5, <3>1 DEF ReportOK
    <3>3. \A v \in Thread : thread'[v].pc \in GoneLabel /\ thread'[v].id = thread[u].id => v = u
      BY <2>1, <2>3, <2>5, <3>1 DEF ReportOK
    <3>. QED  BY <3>1, <3>2, <3>3
  <2>. QED  BY <1>2, <1>6, <2>4, <2>5 DEF ReportOK, At, cur
<1>. QED  BY <1>7, <1>8, <1>10, <1>11 DEF EventInv

\* OnConnected, or TryRemoveSession for a session that could not be
\* associated: the id becomes known.
LEMMA AnnounceEvent ==
  ASSUME LanInv, EventInv, Associate \/ OnConnected
  PROVE  /\ EventInv'
         /\ left' = left /\ session' = session
         /\ \/ Known' = Known
            \/ uidAcc \in 1..MaxUid /\ uidAcc \notin Known /\ Known' = Known \cup {uidAcc}
<1>. DEFINE c == thread[Acceptor].cur
<1>1. /\ Acceptor \in Thread /\ thread[Acceptor].pc \in {"associate", "on_connected"} /\ c \in Slot
  BY Setting DEF Associate, OnConnected, At, Thread
<1>2. /\ UNCHANGED <<uidAcc, left, session>>
      /\ \/ /\ Goto(Acceptor, "on_connected") /\ Known' = Known
         \/ /\ Known' = Known \cup {session[c].id}
            /\ Call(Acceptor, "release_id", "idle") \/ Call(Acceptor, "recv_inc", "idle")
  BY DEF Associate, OnConnected, managerVars, Known, cur
<1>3. /\ \A u \in Thread \ {Acceptor} : thread'[u] = thread[u]
      /\ thread'[Acceptor].cur = c
      /\ \/ thread'[Acceptor].pc = "on_connected" /\ Known' = Known
         \/ thread'[Acceptor].pc \in {"release_id", "recv_inc"} /\ Known' = Known \cup {session[c].id}
  BY <1>1, <1>2, Moved
<1>4. /\ ~session[c].released /\ uidAcc \in 1..MaxUid /\ uidAcc \notin Known
      /\ left \subseteq Known /\ Known \subseteq 1..uidAcc /\ uidAcc <= MaxUid
  BY <1>1, PreparesAlone DEF PrepareLabel, WelcomeLabel, EventInv, NewestOK
<1>5. session[c].id = uidAcc
  BY <1>1, <1>4 DEF EventInv, IdOK, Fresh, WelcomeLabel
<1>6. uidAcc \in 1..uidAcc
  BY <1>4
<1>7. (uidAcc <= MaxUid /\ Known \subseteq 1..uidAcc /\ left \subseteq Known)'
  BY <1>2, <1>3, <1>4, <1>5, <1>6
<1>8. NewestOK'
  BY <1>2, <1>3, <1>4 DEF NewestOK, At, PrepareLabel, WelcomeLabel
<1>9. ASSUME NEW x \in Slot PROVE IdOK(x)'
  <2>1. IdOK(x) /\ (Fresh(x, thread[Acceptor]) <=> x = c)
    BY <1>1 DEF EventInv, Fresh, WelcomeLabel
  <2>2. Fresh(x, thread'[Acceptor]) <=> x = c /\ thread'[Acceptor].pc = "on_connected"
    BY <1>3 DEF Fresh, WelcomeLabel
  <2>3. thread'[Acceptor].pc # "on_connected" => uidAcc \in Known' \ left
    BY <1>3, <1>4, <1>5
  <2>4. Known \subseteq Known'
    BY <1>3
  <2>5. ASSUME ~session[x].released
        PROVE  IF Fresh(x, thread'[Acceptor]) THEN session[x].id = uidAcc ELSE session[x].id \in Known' \ left
    BY <1>5, <2>1, <2>2, <2>3, <2>4, <2>5 DEF IdOK
  <2>. QED  BY <1>2, <2>1, <2>5 DEF IdOK
<1>10. ASSUME NEW u \in Thread PROVE ReportOK(u)'
  <2>1. ReportOK(u) /\ Known \subseteq Known'
    BY <1>3 DEF EventInv
  <2>2. thread'[u].pc \in GoneLabel \cup {"release_cas"} => thread'[u] = thread[u]
    BY <1>3 DEF GoneLabel
  <2>3. \A v \in Thread : thread'[v].pc \in GoneLabel => thread'[v] = thread[v]
    BY <1>3 DEF GoneLabel
  <2>. QED  BY <1>2, <2>1, <2>2, <2>3 DEF ReportOK, At, cur
<1>11. EventInv'
  BY <1>7, <1>8, <1>9, <1>10 DEF EventInv
<1>. QED  BY <1>2, <1>3, <1>4, <1>5, <1>11

\* TryRemoveSession reads the id to report.
LEMMA ReadIdEvent == ASSUME LanInv, EventInv, NEW t \in Thread, ReadId(t) PROVE EventInv'
<1>1. /\ thread \in [Thread -> Register] /\ thread[t] \in Register
      /\ thread[t].pc = "release_id" /\ UNCHANGED <<uidAcc, session, joined, left, refused>>
  BY Setting DEF ReadId, At, managerVars, eventVars
<1>2. /\ \A u \in Thread \ {t} : thread'[u] = thread[u]
      /\ thread'[t].pc = "release_cas" /\ thread'[t].cur = thread[t].cur
      /\ thread'[t].id = session[thread[t].cur].id
  BY <1>1 DEF ReadId, Register, cur
<1>3. Known' = Known /\ Acceptor \in Thread
  BY <1>1 DEF Known, Thread
<1>4. \/ thread'[Acceptor] = thread[Acceptor]
      \/ thread[Acceptor].pc \notin PrepareLabel /\ thread'[Acceptor].pc \notin PrepareLabel
  BY <1>1, <1>2, <1>3 DEF PrepareLabel, WelcomeLabel
<1>5. NewestOK'
  BY <1>1, <1>3, <1>4 DEF EventInv, NewestOK, At, cur, PrepareLabel
<1>6. ASSUME NEW x \in Slot PROVE IdOK(x)'
  <2>1. IdOK(x)
    BY DEF EventInv
  <2>2. Fresh(x, thread'[Acceptor]) <=> Fresh(x, thread[Acceptor])
    BY <1>4 DEF Fresh, PrepareLabel
  <2>. QED  BY <1>1, <1>3, <2>1, <2>2 DEF IdOK
<1>7. ASSUME NEW u \in Thread PROVE ReportOK(u)'
  <2>1. ReportOK(u)
    BY DEF EventInv
  <2>2. thread'[u] = thread[u] \/ u = t
    BY <1>2
  <2>3. \A v \in Thread : thread'[v].pc \in GoneLabel => thread'[v] = thread[v]
    BY <1>2 DEF GoneLabel
  <2>4. At(u, "release_cas")' => thread'[u].id = session[thread'[u].cur].id
    BY <1>2, <2>1, <2>2 DEF ReportOK, At, cur
  <2>. QED  BY <1>1, <1>3, <2>1, <2>3, <2>4 DEF ReportOK, At, cur
<1>. QED  BY <1>1, <1>3, <1>5, <1>6, <1>7 DEF EventInv

\* The thread whose exchange succeeds has the id of the session, which no
\* other session and no other such thread has.
LEMMA ReleaseCasEvent == ASSUME LanInv, EventInv, NEW t \in Thread, ReleaseCas(t) PROVE EventInv'
<1>. DEFINE c == thread[t].cur
<1>1. /\ session \in [Slot -> Session] /\ c \in Slot /\ session[c] \in Session
      /\ thread[t].pc = "release_cas" /\ UNCHANGED <<uidAcc, joined, left, refused>>
  BY Setting DEF ReleaseCas, At, managerVars, eventVars
<1>2. ~session[c].released /\ thread[t].ret # NoCall
  BY <1>1, WorkIsLive, HasCaller DEF BetweenLabel, AwayLabel, AcceptLabel, PoolLabel
<1>3. CASE Return(t) /\ UNCHANGED session
  <2>1. /\ \A u \in Thread \ {t} : thread'[u] = thread[u]
        /\ thread'[t].pc \in {"idle", "dec", "received"}
    BY <1>2, <1>3, Moved
  <2>2. \A u \in Thread : Calm(thread[u], thread'[u])
    BY <1>1, <2>1, CalmStep DEF PrepareLabel, WelcomeLabel, GoneLabel
  <2>3. Quiet
    BY <1>1, <1>3, <2>2 DEF Quiet, Steady
  <2>. QED  BY <2>3, EventKept
<1>4. CASE session' = [session EXCEPT ![c].released = TRUE] /\ Goto(t, "release")
  <2>1. /\ \A u \in Thread \ {t} : thread'[u] = thread[u]
        /\ thread'[t].pc = "release" /\ thread'[t].cur = c /\ thread'[t].id = thread[t].id
    BY <1>4, Moved
  <2>2. /\ session'[c].released /\ \A x \in Slot : session'[x].id = session[x].id
        /\ \A x \in Slot \ {c} : session'[x].released = session[x].released
    BY <1>1, <1>4 DEF Session
  <2>3. Known' = Known /\ Acceptor \in Thread /\ \A x \in Slot : IdOK(x)
    BY <1>1 DEF Known, Thread, EventInv
  <2>4. \/ thread'[Acceptor] = thread[Acceptor]
        \/ thread[Acceptor].pc \notin PrepareLabel /\ thread'[Acceptor].pc \notin PrepareLabel
    BY <1>1, <2>1, <2>3 DEF PrepareLabel, WelcomeLabel
  <2>5. thread[Acceptor].cur \in Slot
    BY <2>3, Setting
  <2>6. NewestOK'
    BY <1>1, <2>2, <2>3, <2>4, <2>5 DEF EventInv, NewestOK, At, cur, PrepareLabel
  <2>7. ASSUME NEW x \in Slot PROVE IdOK(x)'
    <3>1. Fresh(x, thread'[Acceptor]) <=> Fresh(x, thread[Acceptor])
      BY <2>4 DEF Fresh, PrepareLabel
    <3>2. \A y \in Slot : ~session'[y].released => ~session[y].released
      BY <2>2
    <3>. QED  BY <1>1, <2>2, <2>3, <3>1, <3>2 DEF IdOK
  <2>8. /\ session[c].id = thread[t].id /\ session[c].id \in Known \ left
        /\ \A x \in Slot : ~session'[x].released => session[x].id # session[c].id
    <3>1. thread[t].id = session[c].id
      BY <1>1 DEF EventInv, ReportOK, At, cur
    <3>2. ~Fresh(c, thread[Acceptor])
      <4>1. ASSUME Fresh(c, thread[Acceptor]) PROVE FALSE
        <5>1. thread[Acceptor].pc \in PrepareLabel /\ thread[Acceptor].cur = c /\ t # Acceptor
          BY <1>1, <4>1 DEF Fresh, PrepareLabel, WelcomeLabel
        <5>2. In(thread[t], c)
          BY <1>1 DEF In, AwayLabel, PoolLabel
        <5>. QED  BY <5>1, <5>2, PreparesAlone
      <4>. QED  BY <4>1
    <3>3. IdOK(c)
      BY <1>1, <2>3
    <3>4. /\ session[c].id \in Known \ left
          /\ \A x \in Slot : ~session[x].released /\ session[x].id = session[c].id => x = c
      BY <1>2, <3>2, <3>3 DEF IdOK
    <3>. QED  BY <2>2, <3>1, <3>4
  <2>9. ASSUME NEW u \in Thread PROVE ReportOK(u)'
    <3>1. \A v \in Thread : ReportOK(v) /\ thread[v].cur \in Slot
      BY Setting DEF EventInv
    <3>2. \A v \in Thread : thread'[v].cur = thread[v].cur /\ thread'[v].id = thread[v].id
      BY <2>1
    <3>3. \A v \in Thread : thread'[v].pc \in GoneLabel => thread[v].pc \in GoneLabel \/ v = t
      BY <2>1
    <3>4. thread'[u].pc = "release_cas" => thread[u].pc = "release_cas"
      BY <2>1
    <3>5. At(u, "release_cas")' => thread'[u].id = session'[thread'[u].cur].id
      BY <2>2, <3>1, <3>2, <3>4 DEF ReportOK, At, cur
    <3>6. ASSUME thread'[u].pc \in GoneLabel
          PROVE  /\ thread'[u].id \in Known \ left
                 /\ \A x \in Slot : ~session'[x].released => session'[x].id # thread'[u].id
      <4>1. CASE u = t
        BY <2>2, <2>8, <3>2, <4>1
      <4>2. CASE u # t
        <5>1. thread[u].pc \in GoneLabel
          BY <3>3, <3>6, <4>2
        <5>. QED  BY <2>2, <3>1, <3>2, <5>1 DEF ReportOK
      <4>. QED  BY <4>1, <4>2
    <3>7. ASSUME NEW v \in Thread, thread'[u].pc \in GoneLabel, thread'[v].pc \in GoneLabel,
                 thread'[v].id = thread'[u].id
          PROVE  v = u
      <4>0. \A w \in Thread : thread[w].pc \in GoneLabel => thread[w].id # session[c].id
        BY <1>1, <1>2, <3>1 DEF ReportOK
      <4>1. CASE thread[u].pc \in GoneLabel /\ thread[v].pc \in GoneLabel
        BY <3>1, <3>2, <3>7, <4>1 DEF ReportOK
      <4>2. CASE ~(thread[u].pc \in GoneLabel /\ thread[v].pc \in GoneLabel)
        BY <2>8, <3>2, <3>3, <3>7, <4>0, <4>2
      <4>. QED  BY <4>1, <4>2
    <3>. QED  BY <1>1, <2>3, <3>5, <3>6, <3>7 DEF ReportOK, At, cur
  <2>. QED  BY <1>1, <2>3, <2>6, <2>7, <2>9 DEF EventInv
<1>. QED  BY <1>3, <1>4 DEF ReleaseCas, cur

\* OnDisconnected is called with an id that is known and that no one else has.
LEMMA LeaveEvent ==
  ASSUME LanInv, EventInv, NEW t \in Thread, OnDisconnected(t)
  PROVE  /\ EventInv'
         /\ Known' = Known /\ session' = session /\ thread[t].id \in Known \ left
         /\ left' = left \cup {thread[t].id}
         /\ \A s \in Slot : ~session[s].released => session[s].id # thread[t].id
<1>1. /\ thread[t].pc = "on_disconnected" /\ Return(t) /\ left' = left \cup {thread[t].id}
      /\ UNCHANGED <<uidAcc, session, joined, refused>>
  BY DEF OnDisconnected, At, managerVars
<1>2. thread[t].ret # NoCall
  BY <1>1, HasCaller DEF AcceptLabel, PoolLabel
<1>3. /\ \A u \in Thread \ {t} : thread'[u] = thread[u]
      /\ thread'[t].pc \in {"idle", "dec", "received"}
  BY <1>1, <1>2, Moved
<1>4. Known' = Known /\ Acceptor \in Thread
  BY <1>1 DEF Known, Thread
<1>5. /\ thread[t].id \in Known \ left
      /\ \A s \in Slot : ~session[s].released => session[s].id # thread[t].id
      /\ \A u \in Thread : thread[u].pc \in GoneLabel /\ thread[u].id = thread[t].id => u = t
  BY <1>1 DEF EventInv, ReportOK, GoneLabel
<1>6. (uidAcc <= MaxUid /\ Known \subseteq 1..uidAcc /\ left \subseteq Known)'
  BY <1>1, <1>4, <1>5 DEF EventInv
<1>7. \/ thread'[Acceptor] = thread[Acceptor]
      \/ thread[Acceptor].pc \notin PrepareLabel /\ thread'[Acceptor].pc \notin PrepareLabel
  BY <1>1, <1>3, <1>4 DEF PrepareLabel, WelcomeLabel
<1>8. NewestOK'
  BY <1>1, <1>4, <1>7 DEF EventInv, NewestOK, At, cur, PrepareLabel
<1>9. ASSUME NEW x \in Slot PROVE IdOK(x)'
  <2>1. IdOK(x)
    BY DEF EventInv
  <2>2. Fresh(x, thread'[Acceptor]) <=> Fresh(x, thread[Acceptor])
    BY <1>7 DEF Fresh, PrepareLabel
  <2>. QED  BY <1>1, <1>4, <1>5, <2>1, <2>2 DEF IdOK
<1>10. ASSUME NEW u \in Thread PROVE ReportOK(u)'
  <2>1. ReportOK(u)
    BY DEF EventInv
  <2>2. thread'[u].pc \in GoneLabel \cup {"release_cas"} => thread'[u] = thread[u] /\ u # t
    BY <1>3 DEF GoneLabel
  <2>3. \A v \in Thread : thread'[v].pc \in GoneLabel => thread'[v] = thread[v]
    BY <1>3 DEF GoneLabel
  <2>. QED  BY <1>1, <1>4, <1>5, <2>1, <2>2, <2>3 DEF ReportOK, At, cur
<1>11. EventInv'
  BY <1>1, <1>4, <1>6, <1>8, <1>9, <1>10 DEF EventInv
<1>. QED  BY <1>1, <1>4, <1>5, <1>11

-----------------------------------------------------------------------------
(* Every step. *)

\* A step is quiet or one of those.
LEMMA NextIs ==
  ASSUME LanInv, [Next]_vars
  PROVE  \/ Quiet
         \/ InitFields \/ Open \/ Associate \/ OnConnected
         \/ \E s \in Slot : GenUniqueSessionID(s)
         \/ \E t \in Thread : ReadId(t) \/ ReleaseCas(t) \/ OnDisconnected(t)
<1>1. ASSUME NEW t \in Thread, TryRemoveSession(t)
      PROVE  Quiet \/ ReadId(t) \/ ReleaseCas(t) \/ OnDisconnected(t)
  BY <1>1, RemoveQuiet DEF TryRemoveSession
<1>2. ASSUME NEW t \in Thread, Post(t) PROVE Quiet
  BY <1>2, PostQuiet
<1>3. ASSUME NEW t \in IOThread, Serve(t) PROVE Quiet
  BY <1>3, ServeQuiet
<1>4. CASE \/ \E s \in Slot : PeerLeaves(s) \/ \E op \in Op : KernelCompletes(s, op)
           \/ UNCHANGED vars
  BY <1>4, KernelQuiet
<1>5. CASE Create \/ PopFails
  BY <1>5, PoolQuiet, KernelQuiet DEF Create
<1>. QED  BY <1>1, <1>2, <1>3, <1>4, <1>5 DEF Next, Step

\* So the invariant is kept.
LEMMA EventStep == ASSUME LanInv, EventInv, [Next]_vars PROVE EventInv'
  BY NextIs, EventKept, InitEvent, OpenEvent, AnnounceEvent, GenEvent, ReadIdEvent,
     ReleaseCasEvent, LeaveEvent

\* At start no id is known and no session is live.
LEMMA EventStart == Init => EventInv
<1> SUFFICES ASSUME Init PROVE EventInv
  OBVIOUS
<1>1. /\ Known = {} /\ left = {} /\ uidAcc = 0 /\ MaxUid \in Nat
      /\ \A s \in Slot : session[s].released
      /\ \A t \in Thread : thread[t].pc = "idle"
      /\ Acceptor \in Thread
  BY LanAssumption DEF Init, Known, Thread
<1>2. NewestOK
  BY <1>1 DEF NewestOK, At, PrepareLabel, WelcomeLabel
<1>3. \A s \in Slot : IdOK(s)
  BY <1>1 DEF IdOK
<1>4. \A t \in Thread : ReportOK(t)
  BY <1>1 DEF ReportOK, At, GoneLabel
<1>. QED  BY <1>1, <1>2, <1>3, <1>4 DEF EventInv

\* A live session keeps its id.
LEMMA IdKept ==
  ASSUME LanInv, [Next]_vars, NEW s \in Slot, ~session[s].released
  PROVE  session'[s].id = session[s].id
<1>1. /\ session \in [Slot -> Session] /\ Acceptor \in Thread
      /\ SlotOK(s, thread, session[s], kernel[s].op, unused)
  BY DEF LanInv, TypeInv, SlotInv, Thread
<1>2. CASE Quiet
  <2>1. ASSUME NEW t \in Thread, thread[t].pc = "release", thread[t].cur = s PROVE FALSE
    <3>1. In(thread[t], s) /\ thread[t].pc \in BetweenLabel
      BY <2>1 DEF In, BetweenLabel, AwayLabel, PoolLabel
    <3>. QED  BY <1>1, <3>1 DEF SlotOK
  <2>. QED  BY <1>2, <2>1 DEF Quiet, Steady
<1>3. CASE InitFields
  <2>1. thread[Acceptor].pc = "init" /\ thread[Acceptor].cur \in Slot
    BY <1>1, <1>3, Setting DEF InitFields, At
  <2>2. thread[Acceptor].cur # s
    BY <2>1, PreparesAlone DEF PrepareLabel
  <2>. QED  BY <1>1, <1>3, <2>1, <2>2 DEF InitFields, cur
<1>4. CASE Open
  <2>1. thread[Acceptor].cur \in Slot /\ session[s] \in Session
    BY <1>1, Setting
  <2>. QED  BY <1>1, <1>4, <2>1 DEF Open, cur, Session
<1>5. CASE Associate \/ OnConnected \/ \E x \in Slot : GenUniqueSessionID(x)
  BY <1>5 DEF Associate, OnConnected, GenUniqueSessionID
<1>6. ASSUME NEW t \in Thread, ReadId(t) \/ OnDisconnected(t) PROVE session' = session
  BY <1>6 DEF ReadId, OnDisconnected
<1>7. ASSUME NEW t \in Thread, ReleaseCas(t) PROVE session'[s].id = session[s].id
  <2>1. thread[t].cur \in Slot /\ session[s] \in Session
    BY <1>1, Setting
  <2>2. PICK c \in Slot : c = thread[t].cur
    BY <2>1
  <2>3. session' = session \/ session' = [session EXCEPT ![c].released = TRUE]
    BY <1>7, <2>2 DEF ReleaseCas, cur
  <2>4. CASE session' = [session EXCEPT ![c].released = TRUE]
    <3>1. session'[s] = IF s = c THEN [session[s] EXCEPT !.released = TRUE] ELSE session[s]
      BY <1>1, <2>4
    <3>. QED  BY <2>1, <3>1 DEF Session
  <2>. QED  BY <2>3, <2>4
<1>. QED  BY <1>2, <1>3, <1>4, <1>5, <1>6, <1>7, NextIs

-----------------------------------------------------------------------------
(* Who is inside OnReceived. *)

\* A thread that handles a received packet, or was called while it did.
Hears(r) == r.pc = "received" \/ r.ret \in {OfReceived, OfSendPacket}

Heard(t) == IF Hears(thread[t]) THEN session[cur(t)].id ELSE 0

\* The same as the refinement has it.
LEMMA HeardIs ==
  LanInv =>
    [t \in IOThread |-> IF At(t, "received") \/ \E i \in DOMAIN thread[t].ret : thread[t].ret[i] = "received"
                        THEN session[cur(t)].id ELSE 0] = [t \in IOThread |-> Heard(t)]
<1> SUFFICES ASSUME LanInv, NEW t \in IOThread
             PROVE  (\E i \in DOMAIN thread[t].ret : thread[t].ret[i] = "received")
                      <=> thread[t].ret \in {OfReceived, OfSendPacket}
  BY DEF Heard, Hears, At
<1>1. thread[t].ret \in Stack
  BY Setting DEF Thread
<1>2. PICK st \in Stack : st = thread[t].ret
  BY <1>1
<1>3. st \in {OfReceived, OfSendPacket} => \E i \in DOMAIN st : st[i] = "received"
  <2>1. DOMAIN OfReceived = 1..2 /\ OfReceived[1] = "received"
    BY DEF OfReceived
  <2>2. DOMAIN OfSendPacket = 1..3 /\ OfSendPacket[2] = "received"
    BY DEF OfSendPacket
  <2>3. 1 \in 1..2 /\ 2 \in 1..3
    OBVIOUS
  <2>. QED  BY <2>1, <2>2, <2>3
<1>4. ASSUME st \in {NoCall, OfLoop, OfCompletion}, NEW i \in DOMAIN st PROVE st[i] # "received"
  BY <1>4 DEF NoCall, OfLoop, OfCompletion
<1>5. st \in {NoCall, OfLoop, OfCompletion} \/ st \in {OfReceived, OfSendPacket}
  BY DEF Stack
<1>. QED  BY <1>2, <1>3, <1>4, <1>5, StacksDiffer

\* It holds references, so the session is live, and its id is known.
LEMMA HearsLive ==
  ASSUME LanInv, EventInv, NEW t \in Thread, Hears(thread[t])
  PROVE  /\ t # Acceptor /\ cur(t) \in Slot /\ ~session[cur(t)].released
         /\ session[cur(t)].id \in Known \ left
         /\ Receiving(thread[t], cur(t))
<1>1. ControlOK(t, thread[t]) /\ thread[t].cur \in Slot
  BY Setting
<1>2. t # Acceptor
  BY <1>1, StacksDiffer DEF ControlOK, Hears, AcceptLabel, RemoveLabel, GoneLabel, PoolLabel
<1>3. thread[t].pc \notin BetweenLabel \cup AwayLabel
  <2>1. CASE thread[t].pc = "received"
    BY <2>1 DEF BetweenLabel, AwayLabel, PoolLabel
  <2>2. CASE thread[t].ret \in {OfReceived, OfSendPacket}
    BY <1>1, <2>2, StacksDiffer
       DEF ControlOK, BetweenLabel, AwayLabel, PoolLabel, SendLabel, RemoveLabel
  <2>. QED  BY <2>1, <2>2 DEF Hears
<1>4. ~session[thread[t].cur].released
  BY <1>3, WorkIsLive
<1>5. ~Fresh(thread[t].cur, thread[Acceptor])
  <2>1. In(thread[t], thread[t].cur)
    BY <1>3 DEF In, AwayLabel, PoolLabel
  <2>. QED  BY <1>2, <2>1, PreparesAlone DEF Fresh, PrepareLabel
<1>6. session[thread[t].cur].id \in Known \ left
  BY <1>1, <1>4, <1>5 DEF EventInv, IdOK
<1>. QED  BY <1>1, <1>2, <1>4, <1>6 DEF cur, Hears, Receiving

\* Goto, and Return from anything but the loop of OnReceived, leave it so.
LEMMA HearsMove ==
  ASSUME LanInv, NEW t \in Thread, thread[t].pc # "received",
         \/ \E l : Goto(t, l) /\ l # "received"
         \/ Return(t) /\ thread[t].ret # NoCall
  PROVE  /\ Hears(thread'[t]) <=> Hears(thread[t])
         /\ thread'[t].cur = thread[t].cur /\ \A u \in Thread \ {t} : thread'[u] = thread[u]
<1>1. thread \in [Thread -> Register] /\ thread[t] \in Register /\ thread[t].ret \in Stack
  BY Setting
<1>2. ASSUME NEW l, l # "received", Goto(t, l)
      PROVE  /\ Hears(thread'[t]) <=> Hears(thread[t])
             /\ thread'[t].cur = thread[t].cur /\ \A u \in Thread \ {t} : thread'[u] = thread[u]
  <2>1. /\ \A u \in Thread \ {t} : thread'[u] = thread[u]
        /\ thread'[t].pc = l /\ thread'[t].ret = thread[t].ret /\ thread'[t].cur = thread[t].cur
    BY <1>1, <1>2 DEF Goto, Register
  <2>. QED  BY <1>2, <2>1 DEF Hears
<1>3. ASSUME Return(t), thread[t].ret # NoCall
      PROVE  /\ Hears(thread'[t]) <=> Hears(thread[t])
             /\ thread'[t].cur = thread[t].cur /\ \A u \in Thread \ {t} : thread'[u] = thread[u]
  <2>1. PICK r \in Register :
           /\ Becomes(t, r) /\ r.cur = thread[t].cur
           /\ thread[t].ret = OfLoop => r.pc = "idle" /\ r.ret = NoCall
           /\ thread[t].ret = OfCompletion => r.pc = "dec" /\ r.ret = OfLoop
           /\ thread[t].ret = OfReceived => r.pc = "received" /\ r.ret = OfLoop
           /\ thread[t].ret = OfSendPacket => r.pc = "dec" /\ r.ret = OfReceived
    BY <1>3, ReturnIs
  <2>2. thread[t].ret \in {OfLoop, OfCompletion, OfReceived, OfSendPacket}
    BY <1>1, <1>3 DEF Stack
  <2>3. Hears(r) <=> Hears(thread[t])
    BY <2>1, <2>2, StacksDiffer DEF Hears
  <2>. QED  BY <2>1, <2>3 DEF Becomes
<1>. QED  BY <1>2, <1>3

\* Steps that neither begin nor end an OnReceived.
LEMMA HearsStep ==
  ASSUME LanInv, NEW t \in Thread, TryRemoveSession(t) \/ Post(t)
  PROVE  /\ Hears(thread'[t]) <=> Hears(thread[t])
         /\ thread'[t].cur = thread[t].cur /\ \A u \in Thread \ {t} : thread'[u] = thread[u]
<1>. USE DEF At
<1>1. CASE ReadId(t)
  <2>1. thread \in [Thread -> Register] /\ thread[t] \in Register /\ thread[t].pc = "release_id"
    BY <1>1, Setting DEF ReadId
  <2>2. /\ \A u \in Thread \ {t} : thread'[u] = thread[u]
        /\ thread'[t].pc = "release_cas" /\ thread'[t].cur = thread[t].cur
        /\ thread'[t].ret = thread[t].ret
    BY <1>1, <2>1 DEF ReadId, Register
  <2>. QED  BY <2>1, <2>2 DEF Hears
<1>2. CASE ~ReadId(t)
  <2>1. /\ thread[t].pc \notin AcceptLabel \cup {"received"}
        /\ Return(t) \/ \E l : Goto(t, l) /\ l # "received"
    <3>1. CASE Decrement(t) \/ ReleaseCas(t) \/ Release(t) \/ PushIndex(t) \/ CountDown(t) \/ OnDisconnected(t)
      BY <3>1
         DEF Decrement, ReleaseCas, Release, PushIndex, CountDown, OnDisconnected, AcceptLabel, PoolLabel
    <3>2. CASE RecvPostIncrement(t) \/ TakeFlag(t) \/ GiveFlagBack(t) \/ SendPostIncrement(t) \/ ReadFlag(t)
      BY <3>2
         DEF RecvPostIncrement, TakeFlag, GiveFlagBack, SendPostIncrement, ReadFlag, AcceptLabel, PoolLabel
    <3>3. CASE DequeueAll(t)
      BY <3>3 DEF DequeueAll, AcceptLabel, PoolLabel
    <3>4. CASE RecvPostWSARecv(t) \/ SendPostWSASend(t)
      BY <3>4 DEF RecvPostWSARecv, SendPostWSASend, WSA, AcceptLabel, PoolLabel
    <3>. QED  BY <1>2, <3>1, <3>2, <3>3, <3>4 DEF TryRemoveSession, Post
  <2>2. thread[t].ret # NoCall
    BY <2>1, HasCaller
  <2>. QED  BY <2>1, <2>2, HearsMove
<1>. QED  BY <1>1, <1>2

\* The completion of a receive begins OnReceived, and NetworkRecvCompleted
\* ends it; SendPacket and Disconnect are called inside it.
LEMMA HearsServe ==
  ASSUME LanInv, NEW t \in IOThread, Serve(t)
  PROVE  /\ \A u \in Thread \ {t} : thread'[u] = thread[u]
         /\ \/ (Hears(thread'[t]) <=> Hears(thread[t])) /\ (Hears(thread[t]) => cur(t)' = cur(t))
            \/ /\ NetworkRecvCompleted(t) /\ Hears(thread[t]) /\ ~Hears(thread'[t])
            \/ \E s \in Slot : /\ Completion(t, s, "recv") /\ kernel[s].op["recv"] # "idle"
                               /\ ~Hears(thread[t]) /\ Hears(thread'[t]) /\ thread'[t].cur = s
<1>. USE DEF At, cur
<1>0. t \in Thread /\ t # Acceptor
  BY LanAssumption DEF Thread
<1>1. /\ thread \in [Thread -> Register] /\ thread[t] \in Register /\ ControlOK(t, thread[t])
      /\ thread[t].ret \in Stack
  BY <1>0, Setting
<1>2. ASSUME NEW s \in Slot, NEW op \in Op, Completion(t, s, op)
      PROVE  /\ \A u \in Thread \ {t} : thread'[u] = thread[u]
             /\ \/ ~Hears(thread'[t]) /\ ~Hears(thread[t])
                \/ /\ Completion(t, s, "recv") /\ kernel[s].op["recv"] # "idle"
                   /\ ~Hears(thread[t]) /\ Hears(thread'[t]) /\ thread'[t].cur = s
  <2>1. thread[t].pc = "idle" /\ kernel[s].op[op] # "idle"
    BY <1>2 DEF Completion
  <2>2. ~Hears(thread[t])
    BY <1>0, <1>1, <2>1, StacksDiffer DEF ControlOK, Hears, SendLabel, RemoveLabel, GoneLabel
  <2>3. /\ \A u \in Thread \ {t} : thread'[u] = thread[u]
        /\ thread'[t].cur = s /\ thread'[t].ret = OfLoop
        /\ thread'[t].pc = "received" => op # "send"
    BY <1>0, <1>1, <1>2 DEF Completion, Register, OfLoop
  <2>4. CASE thread'[t].pc = "received"
    <3>1. op = "recv"
      BY <2>3, <2>4 DEF Op
    <3>. QED  BY <1>2, <2>1, <2>2, <2>3, <2>4, <3>1 DEF Hears
  <2>5. CASE thread'[t].pc # "received"
    BY <2>2, <2>3, <2>5, StacksDiffer DEF Hears
  <2>. QED  BY <2>4, <2>5
<1>3. CASE NetworkSendCompleted(t)
  <2>1. thread[t].pc = "finish" /\ Call(t, "flag", "dec") /\ "flag" \in Label
    BY <1>3 DEF NetworkSendCompleted, Label, SendLabel
  <2>2. thread[t].ret = OfLoop
    BY <1>0, <1>1, <2>1 DEF ControlOK, SendLabel, RemoveLabel, GoneLabel
  <2>3. PICK r \in Register : Becomes(t, r) /\ r.pc = "flag" /\ r.ret = OfCompletion /\ r.cur = thread[t].cur
    BY <1>0, <2>1, <2>2, CallIs
  <2>. QED  BY <1>0, <2>1, <2>2, <2>3, StacksDiffer DEF Becomes, Hears
<1>4. CASE NetworkRecvCompleted(t)
  <2>1. thread[t].pc = "received" /\ {"recv_inc", "cancel"} \subseteq Label
    BY <1>4 DEF NetworkRecvCompleted, Label
  <2>2. thread[t].ret = OfLoop
    BY <1>0, <1>1, <2>1 DEF ControlOK, SendLabel, RemoveLabel, GoneLabel
  <2>3. CASE Call(t, "recv_inc", "dec")
    <3>1. PICK r \in Register : Becomes(t, r) /\ r.pc = "recv_inc" /\ r.ret = OfCompletion
      BY <1>0, <2>1, <2>2, <2>3, CallIs
    <3>. QED  BY <1>0, <1>4, <2>1, <3>1, StacksDiffer DEF Becomes, Hears
  <2>4. CASE Goto(t, "cancel")
    <3>1. PICK r \in Register : Becomes(t, r) /\ r.pc = "cancel" /\ r.ret = OfLoop
      BY <1>0, <2>1, <2>2, <2>4, GotoIs
    <3>. QED  BY <1>0, <1>4, <2>1, <3>1, StacksDiffer DEF Becomes, Hears
  <2>. QED  BY <1>4, <2>3, <2>4 DEF NetworkRecvCompleted
<1>5. CASE CancelationIO(t) \/ SendPacketAcquire(t)
  <2>1. thread[t].pc \in {"cancel", "acquire"} /\ \E l : Goto(t, l) /\ l # "received"
    BY <1>5 DEF CancelationIO, SendPacketAcquire
  <2>. QED  BY <1>0, <2>1, HearsMove
<1>6. CASE SendPacketEnqueue(t)
  <2>1. thread[t].pc = "enqueue" /\ (Call(t, "flag", "dec") \/ Goto(t, "dec")) /\ "flag" \in Label
    BY <1>6 DEF SendPacketEnqueue, Label, SendLabel
  <2>2. thread[t].ret = OfReceived
    BY <1>0, <1>1, <2>1 DEF ControlOK, SendLabel, RemoveLabel, GoneLabel
  <2>3. CASE Call(t, "flag", "dec")
    <3>1. PICK r \in Register : Becomes(t, r) /\ r.ret = OfSendPacket /\ r.cur = thread[t].cur
      BY <1>0, <2>1, <2>2, <2>3, CallIs
    <3>. QED  BY <1>0, <2>2, <3>1 DEF Becomes, Hears
  <2>4. CASE Goto(t, "dec")
    BY <1>0, <2>1, <2>4, HearsMove
  <2>. QED  BY <2>1, <2>3, <2>4
<1>7. CASE SendPacketFind(t)
  <2>1. thread[t].pc = "received"
    BY <1>7 DEF SendPacketFind
  <2>2. thread[t].ret = OfLoop
    BY <1>0, <1>1, <2>1 DEF ControlOK, SendLabel, RemoveLabel, GoneLabel
  <2>3. PICK st : st = <<"received">> \o thread[t].ret
    OBVIOUS
  <2>4. st = OfReceived
    BY <2>2, <2>3, StackPush, Zenon
  <2>5. thread' = [thread EXCEPT ![t].pc = "acquire", ![t].id = session[cur(t)].id, ![t].ret = st]
    BY <1>0, <1>1, <1>7, <2>3 DEF SendPacketFind
  <2>6. /\ \A u \in Thread \ {t} : thread'[u] = thread[u]
        /\ thread'[t].ret = st /\ thread'[t].cur = thread[t].cur
    BY <1>0, <1>1, <2>5 DEF Register
  <2>. QED  BY <2>1, <2>4, <2>6 DEF Hears
<1>8. CASE Disconnect(t)
  <2>1. thread[t].pc = "received" /\ Call(t, "release_id", "received") /\ "release_id" \in Label
    BY <1>8 DEF Disconnect, Label, RemoveLabel
  <2>2. thread[t].ret = OfLoop
    BY <1>0, <1>1, <2>1 DEF ControlOK, SendLabel, RemoveLabel, GoneLabel
  <2>3. PICK r \in Register : Becomes(t, r) /\ r.ret = OfReceived /\ r.cur = thread[t].cur
    BY <1>0, <2>1, <2>2, CallIs
  <2>. QED  BY <1>0, <2>1, <2>3 DEF Becomes, Hears
<1>. QED  BY <1>2, <1>3, <1>4, <1>5, <1>6, <1>7, <1>8 DEF Serve

\* The accept thread is not called back for packets.
LEMMA HearsAccept ==
  ASSUME LanInv, Create \/ PopFails \/ \E s \in Slot : GenUniqueSessionID(s)
  PROVE  \A t \in IOThread : thread'[t] = thread[t]
<1>1. /\ Acceptor \in Thread /\ \A t \in IOThread : t \in Thread /\ t # Acceptor
      /\ thread \in [Thread -> Register]
  BY LanAssumption, Setting DEF Thread
<1>2. CASE Create \/ PopFails
  <2>1. \E l : Goto(Acceptor, l) \/ \E x : Call(Acceptor, l, x)
    BY <1>2 DEF Create, PopFails, PopUnchecked, InitFields, Open, CountUp, Associate, OnConnected
  <2>. QED  BY <1>1, <2>1, Moved
<1>3. CASE \E s \in Slot : GenUniqueSessionID(s)
  BY <1>1, <1>3 DEF GenUniqueSessionID
<1>. QED  BY <1>2, <1>3

\* So a thread goes on with its OnReceived but for those two steps.
LEMMA HeardFrom ==
  ASSUME LanInv, EventInv, [Next]_vars, NEW t \in IOThread
  PROVE  \/ Heard(t)' = Heard(t)
         \/ NetworkRecvCompleted(t) /\ Hears(thread[t]) /\ ~Hears(thread'[t])
         \/ \E s \in Slot : /\ Completion(t, s, "recv") /\ kernel[s].op["recv"] # "idle"
                            /\ ~Hears(thread[t]) /\ Hears(thread'[t]) /\ thread'[t].cur = s
<1>0. t \in Thread
  BY DEF Thread
<1>1. ASSUME Hears(thread'[t]) <=> Hears(thread[t]), Hears(thread[t]) => thread'[t].cur = thread[t].cur
      PROVE  Heard(t)' = Heard(t)
  <2>1. Hears(thread[t]) => session'[thread[t].cur].id = session[thread[t].cur].id
    BY <1>0, HearsLive, IdKept DEF cur
  <2>. QED  BY <1>1, <2>1 DEF Heard, cur
<1>2. CASE thread'[t] = thread[t]
  BY <1>1, <1>2
<1>3. ASSUME NEW u \in Thread, TryRemoveSession(u) \/ Post(u) PROVE Heard(t)' = Heard(t)
  BY <1>0, <1>1, <1>2, <1>3, HearsStep
<1>4. ASSUME NEW u \in IOThread, Serve(u), u # t PROVE Heard(t)' = Heard(t)
  BY <1>0, <1>2, <1>4, HearsServe
<1>5. CASE Serve(t)
  BY <1>1, <1>5, HearsServe DEF cur
<1>6. CASE Create \/ PopFails \/ \E s \in Slot : GenUniqueSessionID(s)
  BY <1>2, <1>6, HearsAccept
<1>7. CASE \/ \E s \in Slot : PeerLeaves(s) \/ \E op \in Op : KernelCompletes(s, op)
           \/ UNCHANGED vars
  BY <1>2, <1>7 DEF PeerLeaves, KernelCompletes, vars
<1>. QED  BY <1>3, <1>4, <1>5, <1>6, <1>7 DEF Next, Step

\* Only the announcement and OnDisconnected change what the application knows.
LEMMA KnownFrom ==
  ASSUME LanInv, EventInv, [Next]_vars
  PROVE  \/ Known' = Known /\ left' = left
         \/ \E id \in (1..MaxUid) \ Known : Known' = Known \cup {id} /\ left' = left
         \/ \E id \in Known \ left : /\ Known' = Known /\ left' = left \cup {id}
                                     /\ \A s \in Slot : ~session[s].released => session[s].id # id
<1>1. CASE Quiet \/ InitFields \/ Open \/ (\E s \in Slot : GenUniqueSessionID(s))
             \/ \E t \in Thread : ReadId(t) \/ ReleaseCas(t)
  BY <1>1 DEF Quiet, InitFields, Open, GenUniqueSessionID, ReadId, ReleaseCas, eventVars, Known
<1>2. CASE Associate \/ OnConnected
  BY <1>2, AnnounceEvent
<1>3. ASSUME NEW t \in Thread, OnDisconnected(t)
      PROVE  \E id \in Known \ left : /\ Known' = Known /\ left' = left \cup {id}
                                      /\ \A s \in Slot : ~session[s].released => session[s].id # id
  BY <1>3, LeaveEvent
<1>. QED  BY <1>1, <1>2, <1>3, NextIs

\* No thread hears of an id that no live session has.
LEMMA HeardIsLive ==
  ASSUME LanInv, EventInv, NEW t \in IOThread, Heard(t) # 0
  PROVE  /\ cur(t) \in Slot /\ ~session[cur(t)].released /\ Heard(t) = session[cur(t)].id
         /\ Receiving(thread[t], cur(t))
<1>1. Hears(thread[t]) /\ t \in Thread
  BY DEF Heard, Thread
<1>. QED  BY <1>1, HearsLive DEF Heard

\* Every step is a callback of the contract or none.
LEMMA EventStepSimulated ==
  ASSUME LanInv, EventInv, [Next]_vars
  PROVE  [Events!EventNext]_(Events!eventVars)
<1>. DEFINE rcv == [t \in IOThread |-> Heard(t)]
<1>1. rcv = [t \in IOThread |->
        IF At(t, "received") \/ \E i \in DOMAIN thread[t].ret : thread[t].ret[i] = "received"
        THEN session[cur(t)].id ELSE 0]
  BY HeardIs
<1>2. rcv' = [t \in IOThread |->
        IF At(t, "received") \/ \E i \in DOMAIN thread[t].ret : thread[t].ret[i] = "received"
        THEN session[cur(t)].id ELSE 0]'
  <2>1. LanInv'
    BY LanStep
  <2>2. (LanInv => [t \in IOThread |->
           IF At(t, "received") \/ \E i \in DOMAIN thread[t].ret : thread[t].ret[i] = "received"
           THEN session[cur(t)].id ELSE 0] = rcv)'
    BY HeardIs, PTL
  <2>. QED  BY <2>1, <2>2
<1>3. IOThread \subseteq Thread /\ \A id \in Known : id \in 1..MaxUid /\ id # 0
  <2>1. /\ Known \subseteq 1..uidAcc /\ uidAcc <= MaxUid /\ uidAcc \in Nat /\ MaxUid \in Nat
    BY LanAssumption DEF EventInv, LanInv, TypeInv
  <2>. QED  BY <2>1 DEF Thread
<1>4. ASSUME NEW t \in IOThread, NetworkRecvCompleted(t), Hears(thread[t]), ~Hears(thread'[t])
      PROVE  /\ rcv[t] # 0 /\ rcv' = [rcv EXCEPT ![t] = 0]
             /\ Known' = Known /\ left' = left
  <2>1. Heard(t) \in Known
    BY <1>3, <1>4, HearsLive DEF Heard
  <2>2. Heard(t)' = 0
    BY <1>4 DEF Heard
  <2>3. ASSUME NEW u \in IOThread \ {t} PROVE Heard(u)' = Heard(u)
    <3>1. thread'[u] = thread[u] /\ u \in Thread
      BY <1>3, <1>4, HearsServe DEF Serve
    <3>2. session' = session
      BY <1>4 DEF NetworkRecvCompleted
    <3>. QED  BY <3>1, <3>2 DEF Heard, cur
  <2>4. Known' = Known /\ left' = left
    BY <1>4 DEF NetworkRecvCompleted, eventVars, Known
  <2>5. rcv' = [rcv EXCEPT ![t] = 0]
    BY <2>2, <2>3
  <2>. QED  BY <1>3, <2>1, <2>4, <2>5
<1>5. ASSUME NEW t \in IOThread, NEW s \in Slot, Completion(t, s, "recv"), kernel[s].op["recv"] # "idle",
             ~Hears(thread[t]), Hears(thread'[t]), thread'[t].cur = s
      PROVE  /\ rcv[t] = 0 /\ session[s].id \in 1..MaxUid
             /\ session[s].id \in Known \ left /\ \A u \in IOThread : rcv[u] # session[s].id
             /\ rcv' = [rcv EXCEPT ![t] = session[s].id]
             /\ Known' = Known /\ left' = left
  <2>1. /\ SlotOK(s, thread, session[s], kernel[s].op, unused)
        /\ ReceiveOK(s, thread, kernel[s].op) /\ "recv" \in Op
    BY DEF LanInv, SlotInv, ReceiveInv, Op
  <2>2. ~session[s].released
    BY <1>5, <2>1 DEF SlotOK
  <2>3. ~Fresh(s, thread[Acceptor])
    BY <1>5, <2>1, PreparesAlone DEF Fresh, PrepareLabel
  <2>4. IdOK(s)
    BY DEF EventInv
  <2>5. /\ session[s].id \in Known \ left
        /\ \A x \in Slot : ~session[x].released /\ session[x].id = session[s].id => x = s
    BY <2>2, <2>3, <2>4 DEF IdOK
  <2>6. session[s].id \in 1..MaxUid /\ session[s].id # 0
    BY <1>3, <2>5
  <2>7. ASSUME NEW u \in IOThread, Heard(u) = session[s].id PROVE FALSE
    <3>1. cur(u) = s /\ Receiving(thread[u], s)
      BY <2>5, <2>6, <2>7, HeardIsLive
    <3>. QED  BY <1>3, <1>5, <2>1, <3>1 DEF ReceiveOK
  <2>8. session' = session /\ Known' = Known /\ left' = left
    BY <1>5 DEF Completion, eventVars, Known
  <2>9. Heard(t) = 0 /\ Heard(t)' = session[s].id
    BY <1>5, <2>8 DEF Heard, cur
  <2>10. ASSUME NEW u \in IOThread \ {t} PROVE Heard(u)' = Heard(u)
    <3>1. thread'[u] = thread[u]
      BY <1>3, <1>5, <2>1, HearsServe DEF Serve
    <3>. QED  BY <2>8, <3>1 DEF Heard, cur
  <2>11. rcv' = [rcv EXCEPT ![t] = session[s].id]
    BY <2>9, <2>10
  <2>. QED  BY <2>5, <2>6, <2>7, <2>8, <2>9, <2>11
<1>6. CASE \A t \in IOThread : Heard(t)' = Heard(t)
  <2>1. rcv' = rcv
    BY <1>6
  <2>. HIDE DEF rcv
  <2>2. CASE Known' = Known /\ left' = left
    BY <1>1, <1>2, <2>1, <2>2 DEF Events!eventVars, Known
  <2>3. ASSUME NEW id \in (1..MaxUid) \ Known, Known' = Known \cup {id}, left' = left
        PROVE  Events!EventNext
    <3>1. Events!Join(id)
      BY <1>1, <1>2, <2>1, <2>3 DEF Events!Join, Known
    <3>. QED  BY <3>1 DEF Events!EventNext
  <2>4. ASSUME NEW id \in Known \ left, Known' = Known, left' = left \cup {id},
               \A s \in Slot : ~session[s].released => session[s].id # id
        PROVE  Events!EventNext
    <3>1. id \in 1..MaxUid /\ id # 0
      BY <1>3
    <3>2. \A t \in IOThread : rcv[t] # id
      <4>1. \A t \in IOThread : Heard(t) # id
        BY <2>4, <3>1, HeardIsLive
      <4>. QED  BY <4>1 DEF rcv
    <3>3. Events!Leave(id)
      BY <1>1, <1>2, <2>1, <2>4, <3>2 DEF Events!Leave, Known
    <3>. QED  BY <3>1, <3>3 DEF Events!EventNext
  <2>. QED  BY <2>2, <2>3, <2>4, KnownFrom
<1>7. ASSUME NEW t \in IOThread, NetworkRecvCompleted(t), Hears(thread[t]), ~Hears(thread'[t])
      PROVE  Events!EventNext
  <2>1. /\ rcv[t] # 0 /\ rcv' = [rcv EXCEPT ![t] = 0] /\ Known' = Known /\ left' = left
    BY <1>4, <1>7
  <2>. HIDE DEF rcv
  <2>2. Events!EndReceive(t)
    BY <1>1, <1>2, <2>1 DEF Events!EndReceive, Known
  <2>. QED  BY <2>2 DEF Events!EventNext
<1>8. ASSUME NEW t \in IOThread, NEW s \in Slot, Completion(t, s, "recv"), kernel[s].op["recv"] # "idle",
             ~Hears(thread[t]), Hears(thread'[t]), thread'[t].cur = s
      PROVE  Events!EventNext
  <2>1. /\ rcv[t] = 0 /\ session[s].id \in 1..MaxUid
        /\ session[s].id \in Known \ left /\ \A u \in IOThread : rcv[u] # session[s].id
        /\ rcv' = [rcv EXCEPT ![t] = session[s].id]
        /\ Known' = Known /\ left' = left
    BY <1>5, <1>8
  <2>. HIDE DEF rcv
  <2>2. PICK id \in 1..MaxUid : id = session[s].id
    BY <2>1
  <2>3. Events!BeginReceive(t, id)
    BY <1>1, <1>2, <2>1, <2>2 DEF Events!BeginReceive, Known
  <2>. QED  BY <2>3 DEF Events!EventNext
<1>9. CASE \E t \in IOThread : Heard(t)' # Heard(t)
  BY <1>7, <1>8, <1>9, HeardFrom
<1>. QED  BY <1>6, <1>9

\* LanCore calls OnConnected once and first, OnReceived never twice at a time
\* for a session, and OnDisconnected once and last, for any number of sessions,
\* threads and clients; what its callbacks call inside OnReceived does not
\* end it.  A session that could not be associated gets OnDisconnected only.
THEOREM CallbacksAreInOrder == Spec => ImplementsEvents
<1>1. Init => LanInv /\ EventInv
  BY LanInit, EventStart
<1>2. LanInv /\ EventInv /\ [Next]_vars => LanInv' /\ EventInv'
  BY LanStep, EventStep
<1>3. LanInv /\ EventInv /\ [Next]_vars => [Events!EventNext]_(Events!eventVars)
  BY EventStepSimulated
<1>4. Init => Events!EventInit
  <2> SUFFICES ASSUME Init PROVE Events!EventInit
    OBVIOUS
  <2>1. LanInv /\ joined \cup refused = {} /\ left = {}
    BY LanInit DEF Init
  <2>2. \A t \in IOThread : thread[t].pc = "idle" /\ thread[t].ret = NoCall
    BY DEF Init, NoCall, Thread
  <2>3. [t \in IOThread |-> Heard(t)] = [t \in IOThread |-> 0]
    BY <2>2, StacksDiffer DEF Heard, Hears
  <2>. QED  BY <2>1, <2>3, HeardIs DEF Events!EventInit
<1>. QED  BY <1>1, <1>2, <1>3, <1>4, PTL DEF Spec, ImplementsEvents, Events!EventSpec
==============================================================================
