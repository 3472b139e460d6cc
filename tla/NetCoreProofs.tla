---------------------------- MODULE NetCoreProofs ----------------------------
(***************************************************************************)
(* Proofs about NetCore, for any pool, any number of IO threads and        *)
(* callers, and any bounds: its types and control; ioCount covers the      *)
(* references that are held, so nobody releases a session that is in use;  *)
(* every slot has one owner, the counter of connected sessions is exact    *)
(* but for the accept under way, and a slot that is handed to a new client *)
(* is clean; a session has one send at a time and ends for a cause; an     *)
(* exception is that of a send queue that overflowed or of a refused Push; *)
(* and the application is called back in the order NetEvents promises.     *)
(***************************************************************************)
EXTENDS NetCoreEvents, FiniteSetTheorems, TLAPS

\* The labels of the accept thread.
AcceptLabel ==
  {"idle", "threw", "pop_failed", "init_id", "init_fields", "init_open", "count_up",
   "associate", "on_connected", "recv_inc", "recv_socket", "recv_wsa", "dec"} \cup ReleaseLabel

\* again is set only inside a TryReleaseSession that another one follows, and
\* the accept thread stays within its own code.
ControlOK ==
  /\ pc[Acceptor] \in AcceptLabel
  /\ ~again[Acceptor]
  /\ \A t \in Thread : again[t] => pc[t] \in {"dec", "threw", "refused"} \cup ReleaseLabel

-----------------------------------------------------------------------------
(* Operations of the kernel: how a step changes the numbers in overlapped.  *)

OpsType == [Slot -> [Op -> [Status -> Nat]]]

\* The numbers in flight are natural numbers.
LEMMA FlightType ==
  ASSUME overlapped \in OpsType, NEW s \in Slot
  PROVE  /\ \A op \in Op : InFlightOf(s, op) \in Nat /\ \A st \in Status : overlapped[s][op][st] \in Nat
         /\ InFlight(s) \in Nat /\ InFlight(s) = InFlightOf(s, "recv") + InFlightOf(s, "send")
<1>1. ASSUME NEW op \in Op
      PROVE  InFlightOf(s, op) \in Nat /\ \A st \in Status : overlapped[s][op][st] \in Nat
  <2>1. overlapped[s][op] \in [Status -> Nat]
    BY DEF OpsType
  <2>. QED  BY <2>1 DEF InFlightOf, Status
<1>2. InFlight(s) = InFlightOf(s, "recv") + InFlightOf(s, "send")
  BY DEF InFlight
<1>. QED  BY <1>1, <1>2 DEF Op

\* One number of overlapped has become n.
Becomes(s, op, st, n) ==
  /\ overlapped' \in OpsType
  /\ \A x \in Slot, o \in Op, m \in Status :
       overlapped'[x][o][m] = IF x = s /\ o = op /\ m = st THEN n ELSE overlapped[x][o][m]
  /\ InFlightOf(s, op)' = InFlightOf(s, op) - overlapped[s][op][st] + n
  /\ \A x \in Slot, o \in Op : x # s \/ o # op => InFlightOf(x, o)' = InFlightOf(x, o)

\* The effect of an assignment to one number.
LEMMA OneNumber ==
  ASSUME overlapped \in OpsType, NEW s \in Slot, NEW op \in Op, NEW st \in Status, NEW n \in Nat,
         overlapped' = [overlapped EXCEPT ![s][op][st] = n]
  PROVE  Becomes(s, op, st, n)
<1>1. overlapped[s][op] \in [Status -> Nat] /\ overlapped[s] \in [Op -> [Status -> Nat]]
  BY DEF OpsType
<1>2. /\ overlapped'[s][op] = [overlapped[s][op] EXCEPT ![st] = n]
      /\ \A x \in Slot, o \in Op : x # s \/ o # op => overlapped'[x][o] = overlapped[x][o]
  BY <1>1 DEF OpsType
<1>3. overlapped' \in OpsType
  <2>1. overlapped' = [overlapped EXCEPT ![s] =
                         [overlapped[s] EXCEPT ![op] = [overlapped[s][op] EXCEPT ![st] = n]]]
    OBVIOUS
  <2>2. [overlapped[s][op] EXCEPT ![st] = n] \in [Status -> Nat]
    BY <1>1
  <2>3. [overlapped[s] EXCEPT ![op] = [overlapped[s][op] EXCEPT ![st] = n]] \in [Op -> [Status -> Nat]]
    BY <1>1, <2>2
  <2>. QED  BY <2>1, <2>3 DEF OpsType
<1>4. \A x \in Slot, o \in Op, m \in Status :
        overlapped'[x][o][m] = IF x = s /\ o = op /\ m = st THEN n ELSE overlapped[x][o][m]
  BY <1>1, <1>2
<1>5. InFlightOf(s, op)' = InFlightOf(s, op) - overlapped[s][op][st] + n
  BY <1>1, <1>2 DEF InFlightOf, Status
<1>6. \A x \in Slot, o \in Op : x # s \/ o # op => InFlightOf(x, o)' = InFlightOf(x, o)
  BY <1>2 DEF InFlightOf
<1>. QED  BY <1>3, <1>4, <1>5, <1>6 DEF Becomes

\* WSARecv or WSASend took an operation.
LEMMA PostedOp ==
  ASSUME overlapped \in OpsType, NEW s \in Slot, NEW op \in Op, Posted(s, op)
  PROVE  /\ overlapped' \in OpsType
         /\ overlapped'[s][op]["pending"] > 0
         /\ \A x \in Slot, o \in Op, m \in Status : overlapped'[x][o][m] >= overlapped[x][o][m]
         /\ InFlightOf(s, op)' = InFlightOf(s, op) + 1
         /\ \A x \in Slot, o \in Op : x # s \/ o # op => InFlightOf(x, o)' = InFlightOf(x, o)
<1>. DEFINE n == overlapped[s][op]["pending"] + 1
<1>1. "pending" \in Status /\ overlapped[s][op]["pending"] \in Nat /\ n \in Nat
  BY FlightType DEF Status
<1>2. overlapped' = [overlapped EXCEPT ![s][op]["pending"] = n]
  BY DEF Posted
<1>3. \A x \in Slot, o \in Op, m \in Status : overlapped[x][o][m] \in Nat
  BY FlightType
<1>4. InFlightOf(s, op) \in Nat
  BY FlightType
<1>. HIDE DEF n
<1>5. Becomes(s, op, "pending", n)
  BY <1>1, <1>2, OneNumber
<1>6. InFlightOf(s, op)' = InFlightOf(s, op) + 1
  BY <1>1, <1>4, <1>5 DEF n, Becomes
<1>7. overlapped'[s][op]["pending"] > 0
  BY <1>1, <1>5 DEF n, Becomes
<1>8. \A x \in Slot, o \in Op, m \in Status : overlapped'[x][o][m] >= overlapped[x][o][m]
  BY <1>1, <1>3, <1>5 DEF n, Becomes
<1>. QED  BY <1>5, <1>6, <1>7, <1>8 DEF Becomes

\* An IO thread takes a completed operation from the IOCP.
LEMMA TakenOp ==
  ASSUME overlapped \in OpsType, NEW s \in Slot, NEW op \in Op, NEW st \in Status,
         overlapped[s][op][st] > 0,
         overlapped' = [overlapped EXCEPT ![s][op][st] = overlapped[s][op][st] - 1]
  PROVE  /\ overlapped' \in OpsType
         /\ \A x \in Slot, o \in Op, m \in Status :
              x # s \/ o # op \/ m # st => overlapped'[x][o][m] = overlapped[x][o][m]
         /\ InFlightOf(s, op)' = InFlightOf(s, op) - 1
         /\ \A x \in Slot, o \in Op : x # s \/ o # op => InFlightOf(x, o)' = InFlightOf(x, o)
<1>. DEFINE n == overlapped[s][op][st] - 1
<1>1. overlapped[s][op][st] \in Nat /\ n \in Nat /\ InFlightOf(s, op) \in Nat
  BY FlightType
<1>2. overlapped' = [overlapped EXCEPT ![s][op][st] = n]
  OBVIOUS
<1>. HIDE DEF n
<1>3. Becomes(s, op, st, n)
  BY <1>1, <1>2, OneNumber
<1>4. InFlightOf(s, op)' = InFlightOf(s, op) - 1
  BY <1>1, <1>3 DEF n, Becomes
<1>. QED  BY <1>3, <1>4 DEF Becomes

\* The kernel completes an operation: nothing comes or goes.
LEMMA CompletedOp ==
  ASSUME overlapped \in OpsType, NEW s \in Slot, NEW op \in Op, KernelCompletes(s, op)
  PROVE  /\ overlapped' \in OpsType
         /\ \A x \in Slot, o \in Op : InFlightOf(x, o)' = InFlightOf(x, o)
         /\ \A x \in Slot, o \in Op : x # s \/ o # op => overlapped'[x][o] = overlapped[x][o]
         /\ \A m \in Status \ {"pending"} : overlapped'[s][op][m] >= overlapped[s][op][m]
         /\ peer[s] => overlapped'[s][op]["ok"] > 0
<1>1. PICK st \in Status \ {"pending"} :
        /\ peer[s] => st = "ok"
        /\ overlapped' = [overlapped EXCEPT ![s][op]["pending"] = overlapped[s][op]["pending"] - 1,
                                            ![s][op][st] = @ + 1]
  BY DEF KernelCompletes, Status
<1>2. overlapped[s][op] \in [Status -> Nat] /\ overlapped[s] \in [Op -> [Status -> Nat]]
  BY DEF OpsType
<1>3. overlapped[s][op]["pending"] \in Nat \ {0}
  BY <1>2 DEF KernelCompletes, Status
<1>. DEFINE a == [overlapped[s][op] EXCEPT !["pending"] = overlapped[s][op]["pending"] - 1]
            b == [a EXCEPT ![st] = a[st] + 1]
<1>4. a \in [Status -> Nat] /\ a["pending"] = overlapped[s][op]["pending"] - 1
      /\ \A m \in Status \ {"pending"} : a[m] = overlapped[s][op][m]
  BY <1>2, <1>3 DEF Status
<1>5. overlapped' = [overlapped EXCEPT ![s] = [overlapped[s] EXCEPT ![op] = b]]
  BY <1>1, <1>2 DEF OpsType
<1>. HIDE DEF a
<1>6. b \in [Status -> Nat] /\ b[st] = a[st] + 1 /\ \A m \in Status \ {st} : b[m] = a[m]
  BY <1>4
<1>. HIDE DEF b
<1>7. overlapped' \in OpsType
  <2>1. [overlapped[s] EXCEPT ![op] = b] \in [Op -> [Status -> Nat]]
    BY <1>2, <1>6
  <2>. QED  BY <1>5, <2>1 DEF OpsType
<1>8. overlapped'[s][op] = b /\ \A x \in Slot, o \in Op : x # s \/ o # op => overlapped'[x][o] = overlapped[x][o]
  BY <1>2, <1>5 DEF OpsType
<1>9. InFlightOf(s, op)' = InFlightOf(s, op)
  <2>1. /\ InFlightOf(s, op)' = b["pending"] + b["ok"] + b["zero"] + b["fail"]
        /\ overlapped[s][op]["ok"] \in Nat /\ overlapped[s][op]["zero"] \in Nat
        /\ overlapped[s][op]["fail"] \in Nat
    BY <1>2, <1>8 DEF InFlightOf, Status
  <2>2. b["pending"] = overlapped[s][op]["pending"] - 1
    BY <1>1, <1>4, <1>6 DEF Status
  <2>3. CASE st = "ok"
    BY <1>3, <1>4, <1>6, <2>1, <2>2, <2>3 DEF InFlightOf, Status
  <2>4. CASE st = "zero"
    BY <1>3, <1>4, <1>6, <2>1, <2>2, <2>4 DEF InFlightOf, Status
  <2>5. CASE st = "fail"
    BY <1>3, <1>4, <1>6, <2>1, <2>2, <2>5 DEF InFlightOf, Status
  <2>. QED  BY <1>1, <2>3, <2>4, <2>5 DEF Status
<1>10. \A x \in Slot, o \in Op : x # s \/ o # op => InFlightOf(x, o)' = InFlightOf(x, o)
  BY <1>8 DEF InFlightOf
<1>11. \A m \in Status \ {"pending"} : overlapped'[s][op][m] >= overlapped[s][op][m]
  BY <1>1, <1>2, <1>4, <1>6, <1>8
<1>12. peer[s] => overlapped'[s][op]["ok"] > 0
  BY <1>1, <1>2, <1>4, <1>6, <1>8 DEF Status
<1>. QED  BY <1>7, <1>8, <1>9, <1>10, <1>11, <1>12

\* CancelIoEx and closesocket: nothing comes or goes.
LEMMA AbortedOps ==
  ASSUME overlapped \in OpsType, NEW s \in Slot, Abort(s)
  PROVE  /\ overlapped' \in OpsType
         /\ \A x \in Slot, o \in Op : InFlightOf(x, o)' = InFlightOf(x, o)
         /\ \A x \in Slot \ {s} : overlapped'[x] = overlapped[x]
<1>. DEFINE f(o) == [overlapped[s][o] EXCEPT !["pending"] = 0,
                                             !["fail"] = @ + overlapped[s][o]["pending"]]
<1>1. overlapped' = [overlapped EXCEPT ![s] = [o \in Op |-> f(o)]]
  BY DEF Abort
<1>2. ASSUME NEW o \in Op
      PROVE  /\ f(o) \in [Status -> Nat]
             /\ f(o)["pending"] + f(o)["ok"] + f(o)["zero"] + f(o)["fail"] = InFlightOf(s, o)
  <2>1. overlapped[s][o] \in [Status -> Nat]
    BY DEF OpsType
  <2>. DEFINE a == [overlapped[s][o] EXCEPT !["pending"] = 0]
              k == a["fail"] + overlapped[s][o]["pending"]
  <2>2. a \in [Status -> Nat] /\ a["pending"] = 0
        /\ \A m \in Status \ {"pending"} : a[m] = overlapped[s][o][m]
    BY <2>1 DEF Status
  <2>3. f(o) = [a EXCEPT !["fail"] = k]
    BY <2>1 DEF Status
  <2>4. k \in Nat /\ k = overlapped[s][o]["fail"] + overlapped[s][o]["pending"]
    BY <2>1, <2>2 DEF Status
  <2>. HIDE DEF f, a, k
  <2>5. f(o) \in [Status -> Nat] /\ f(o)["fail"] = k /\ \A m \in Status \ {"fail"} : f(o)[m] = a[m]
    BY <2>2, <2>3, <2>4 DEF Status
  <2>. QED  BY <2>1, <2>2, <2>4, <2>5 DEF InFlightOf, Status
<1>. HIDE DEF f
<1>3. overlapped' \in OpsType
  <2>1. [o \in Op |-> f(o)] \in [Op -> [Status -> Nat]]
    BY <1>2
  <2>. QED  BY <1>1, <2>1 DEF OpsType
<1>4. \A o \in Op : overlapped'[s][o] = f(o)
  BY <1>1 DEF OpsType
<1>5. \A x \in Slot \ {s} : overlapped'[x] = overlapped[x]
  BY <1>1 DEF OpsType
<1>6. \A o \in Op : InFlightOf(s, o)' = InFlightOf(s, o)
  BY <1>2, <1>4 DEF InFlightOf
<1>7. \A x \in Slot \ {s}, o \in Op : InFlightOf(x, o)' = InFlightOf(x, o)
  BY <1>5 DEF InFlightOf
<1>. QED  BY <1>3, <1>5, <1>6, <1>7

-----------------------------------------------------------------------------
(* Types. *)

\* Every step leaves each thread at one of the labels.
LEMMA LabelStep == TypeOK /\ [Next]_vars => pc' \in [Thread -> Label]
<1> SUFFICES ASSUME pc \in [Thread -> Label], [Next]_vars PROVE pc' \in [Thread -> Label]
  BY DEF TypeOK
<1>. USE DEF Goto, Label
<1>1. CASE Accept
  BY <1>1 DEF Accept, PopSession, PopFails, PopGivesUp, InitId, InitFields, InitOpen, CountUp, Associate,
              OnConnected, threadVars, Thread
<1>2. ASSUME NEW t \in Thread, TryReleaseSession(t) PROVE pc' \in [Thread -> Label]
  BY <1>2 DEF TryReleaseSession, Decrement, ReadIdToReport, ReleaseCas, ReleaseClose,
              ReleaseClear, Push, CountDown, OnDisconnected, Return
<1>3. ASSUME NEW t \in Thread, RecvPost(t) PROVE pc' \in [Thread -> Label]
  BY <1>3 DEF RecvPost, RecvPostIncrement, RecvPostSocket, RecvPostWSARecv, PostFailed
<1>4. ASSUME NEW t \in Thread, SendPost(t) PROVE pc' \in [Thread -> Label]
  BY <1>4 DEF SendPost, SendPostCas, SendPostDequeue, SendPostUnset, SendPostIncrement,
              SendPostSocket, SendPostWSASend, PostFailed
<1>5. ASSUME NEW t \in Thread, Cancel(t) PROVE pc' \in [Thread -> Label]
  BY <1>5 DEF Cancel, CancelationIO, CancelIoEx
<1>6. ASSUME NEW t \in Caller, Call(t) PROVE pc' \in [Thread -> Label]
  <2>0. t \in Thread
    BY DEF Thread
  <2>1. CASE \E op \in {"send", "disconnect"}, c \in Slot, w \in 1..MaxUid :
               FindId(t, op, c, w)
    BY <2>0, <2>1 DEF FindId
  <2>2. CASE FindOpen(t) \/ AcquireIncrement(t) \/ AcquireCheckId(t)
    BY <2>0, <2>2 DEF FindOpen, AcquireIncrement, AcquireCheckId
  <2>3. CASE AcquireCheckReleased(t) \/ EnqueuePacket(t)
    BY <2>0, <2>3 DEF AcquireCheckReleased, EnqueuePacket
  <2>. QED  BY <1>6, <2>1, <2>2, <2>3 DEF Call
<1>7. ASSUME NEW t \in IOThread, Serve(t) PROVE pc' \in [Thread -> Label]
  BY <1>7 DEF Serve, Completion, FinishSending, NetworkRecvCompleted, Thread
<1>8. CASE Environment
  BY <1>8 DEF Environment, PeerLeaves, KernelCompletes, threadVars
<1>9. CASE UNCHANGED vars
  BY <1>9 DEF vars, threadVars
<1>. QED  BY <1>1, <1>2, <1>3, <1>4, <1>5, <1>6, <1>7, <1>8, <1>9 DEF Next, Step

\* Every step keeps the types.
LEMMA TypeStep == TypeOK /\ [Next]_vars => TypeOK'
<1> SUFFICES ASSUME TypeOK, [Next]_vars, pc' \in [Thread -> Label] PROVE TypeOK'
  BY LabelStep
<1>. USE DEF TypeOK, managerVars, sessionVars, sendVars, kernelVars, threadVars, appVars
<1>1. CASE Accept
  <2>1. Acceptor \in Thread
    BY DEF Thread
  <2>2. ASSUME NEW s \in Slot, PopSession(s) PROVE TypeOK'
    BY <2>1, <2>2 DEF PopSession
  <2>3. CASE InitId
    <3>. HIDE DEF TypeOK
    <3>0. cur[Acceptor] \in Slot /\ uidAcc \in [Slot -> Nat] /\ sessionID \in [Slot -> Nat]
      BY <2>1 DEF TypeOK
    <3>1. \/ /\ uidAcc' = [uidAcc EXCEPT ![cur[Acceptor]] = uidAcc[cur[Acceptor]] + 1]
             /\ sessionID' = [sessionID EXCEPT ![cur[Acceptor]] = uidAcc[cur[Acceptor]] + 1]
          \/ UNCHANGED <<uidAcc, sessionID>>
      BY <2>3 DEF InitId
    <3>2. uidAcc' \in [Slot -> Nat]
      BY <2>1, <3>0, <3>1
    <3>3. sessionID' \in [Slot -> Nat]
      BY <2>1, <3>0, <3>1
    <3>. QED  BY <2>1, <2>3, <3>2, <3>3 DEF TypeOK, InitId
  <2>4. CASE InitFields
    <3>1. /\ socket' \in [Slot -> BOOLEAN] /\ peer' \in [Slot -> BOOLEAN] /\ closed' \in [Slot -> BOOLEAN]
          /\ sendQueue' \in [Slot -> Seq(Nat)] /\ sending' \in [Slot -> Seq(Nat)]
          /\ isSending' \in [Slot -> {0, 1, 2}]
      BY <2>1, <2>4 DEF InitFields
    <3>. QED  BY <2>1, <2>4, <3>1 DEF InitFields
  <2>5. CASE InitOpen
    BY <2>1, <2>5 DEF InitOpen
  <2>6. CASE CountUp
    <3>1. connected' \in Int
      BY <2>1, <2>6 DEF CountUp
    <3>. QED  BY <2>1, <2>6, <3>1 DEF CountUp
  <2>7. CASE Associate
    <3>. HIDE DEF TypeOK
    <3>0. did \in [Thread -> Nat]
      BY DEF TypeOK
    <3>1. did' = [did EXCEPT ![Acceptor] = 0] \/ UNCHANGED did
      BY <2>7 DEF Associate
    <3>2. did' \in [Thread -> Nat]
      BY <2>1, <3>0, <3>1
    <3>. QED  BY <2>1, <2>7, <3>2 DEF TypeOK, Associate
  <2>8. CASE OnConnected
    <3>1. sessionID[cur[Acceptor]] \in Nat /\ cur[Acceptor] \in Slot
      BY <2>1
    <3>2. joined' \in SUBSET (Slot \X Nat) /\ known' \in SUBSET (Slot \X Nat)
      BY <2>8, <3>1 DEF OnConnected
    <3>. QED  BY <2>1, <2>8, <3>2 DEF OnConnected
  <2>9. CASE PopFails \/ PopGivesUp
    BY <2>9 DEF PopFails, PopGivesUp
  <2>. QED  BY <1>1, <2>2, <2>3, <2>4, <2>5, <2>6, <2>7, <2>8, <2>9 DEF Accept
<1>2. ASSUME NEW t \in Thread, TryReleaseSession(t) PROVE TypeOK'
  <2>1. CASE Decrement(t)
    <3>. HIDE DEF TypeOK
    <3>0. cur[t] \in Slot /\ ioCount \in [Slot -> Int] /\ again \in [Thread -> BOOLEAN]
      BY DEF TypeOK
    <3>1. /\ ioCount' = [ioCount EXCEPT ![cur[t]] = ioCount[cur[t]] - 1]
          /\ again' = [again EXCEPT ![t] = FALSE] \/ UNCHANGED again
      BY <2>1 DEF Decrement, Return
    <3>2. ioCount' \in [Slot -> Int]
      BY <3>0, <3>1
    <3>3. again' \in [Thread -> BOOLEAN]
      BY <3>0, <3>1
    <3>. QED  BY <2>1, <3>2, <3>3 DEF TypeOK, Decrement
  <2>2. CASE ReadIdToReport(t)
    BY <2>2 DEF ReadIdToReport
  <2>3. CASE ReleaseCas(t)
    BY <2>3 DEF ReleaseCas, Return
  <2>4. CASE ReleaseClose(t)
    <3>. HIDE DEF TypeOK
    <3>1. /\ cur[t] \in Slot /\ overlapped \in OpsType
          /\ closed \in [Slot -> BOOLEAN] /\ socket \in [Slot -> BOOLEAN]
      BY DEF TypeOK, OpsType
    <3>2. overlapped' \in [Slot -> [Op -> [Status -> Nat]]]
      BY <2>4, <3>1, AbortedOps DEF ReleaseClose, OpsType
    <3>3. closed' \in [Slot -> BOOLEAN] /\ socket' \in [Slot -> BOOLEAN]
      BY <2>4, <3>1 DEF ReleaseClose
    <3>. QED  BY <2>4, <3>2, <3>3 DEF TypeOK, ReleaseClose
  <2>5. CASE ReleaseClear(t)
    <3>. HIDE DEF TypeOK
    <3>1. /\ sessionID' \in [Slot -> Nat] /\ isSending' \in [Slot -> {0, 1, 2}]
          /\ sendQueue' \in [Slot -> Seq(Nat)] /\ sending' \in [Slot -> Seq(Nat)]
      BY <2>5 DEF TypeOK, ReleaseClear
    <3>. QED  BY <2>5, <3>1 DEF TypeOK, ReleaseClear
  <2>6. CASE Push(t)
    <3>1. unused' \in SUBSET Slot
      BY <2>6 DEF Push
    <3>. QED  BY <2>6, <3>1 DEF Push
  <2>7. CASE CountDown(t)
    <3>1. connected' \in Int
      BY <2>7 DEF CountDown
    <3>. QED  BY <2>7, <3>1 DEF CountDown
  <2>8. CASE OnDisconnected(t)
    <3>. HIDE DEF TypeOK
    <3>0. /\ cur[t] \in Slot /\ did[t] \in Nat /\ left \in SUBSET (Slot \X Nat)
          /\ again \in [Thread -> BOOLEAN]
      BY DEF TypeOK
    <3>1. left' = left \/ left' = left \cup {<<cur[t], did[t]>>}
      BY <2>8 DEF OnDisconnected
    <3>2. left' \in SUBSET (Slot \X Nat)
      BY <3>0, <3>1
    <3>3. again' \in [Thread -> BOOLEAN]
      BY <2>8, <3>0 DEF OnDisconnected, Return
    <3>. QED  BY <2>8, <3>2, <3>3 DEF TypeOK, OnDisconnected
  <2>. QED  BY <1>2, <2>1, <2>2, <2>3, <2>4, <2>5, <2>6, <2>7, <2>8 DEF TryReleaseSession
<1>3. ASSUME NEW t \in Thread, RecvPost(t) PROVE TypeOK'
  <2>1. CASE RecvPostIncrement(t)
    <3>. HIDE DEF TypeOK
    <3>1. ioCount' \in [Slot -> Int]
      BY <2>1 DEF TypeOK, RecvPostIncrement, IncrementIO
    <3>. QED  BY <2>1, <3>1 DEF TypeOK, RecvPostIncrement
  <2>2. CASE RecvPostSocket(t)
    BY <2>2 DEF RecvPostSocket, PostFailed
  <2>3. CASE RecvPostWSARecv(t)
    <3>. HIDE DEF TypeOK
    <3>0. /\ cur[t] \in Slot /\ overlapped \in OpsType
          /\ again \in [Thread -> BOOLEAN] /\ "recv" \in Op
      BY DEF TypeOK, OpsType, Op
    <3>1. /\ Posted(cur[t], "recv") \/ UNCHANGED overlapped
          /\ again' = [again EXCEPT ![t] = (t # Acceptor)] \/ UNCHANGED again
      BY <2>3 DEF RecvPostWSARecv, PostFailed
    <3>3. overlapped' \in [Slot -> [Op -> [Status -> Nat]]]
      BY <3>0, <3>1, PostedOp DEF OpsType
    <3>4. again' \in [Thread -> BOOLEAN]
      BY <3>0, <3>1
    <3>. QED  BY <2>3, <3>3, <3>4 DEF TypeOK, RecvPostWSARecv
  <2>. QED  BY <1>3, <2>1, <2>2, <2>3 DEF RecvPost
<1>4. ASSUME NEW t \in Thread, SendPost(t) PROVE TypeOK'
  <2>1. CASE SendPostCas(t)
    BY <2>1 DEF SendPostCas
  <2>2. CASE SendPostDequeue(t)
    <3>. HIDE DEF TypeOK
    <3>0. /\ cur[t] \in Slot /\ isSending \in [Slot -> {0, 1, 2}]
          /\ sendQueue \in [Slot -> Seq(Nat)] /\ sending \in [Slot -> Seq(Nat)]
      BY DEF TypeOK
    <3>1. \/ /\ sending' = [sending EXCEPT ![cur[t]] = sendQueue[cur[t]]]
             /\ sendQueue' = [sendQueue EXCEPT ![cur[t]] = <<>>]
             /\ isSending' = [isSending EXCEPT ![cur[t]] = 2]
          \/ UNCHANGED sendVars
      BY <2>2 DEF SendPostDequeue
    <3>2. sending' \in [Slot -> Seq(Nat)]
      BY <3>0, <3>1
    <3>3. <<>> \in Seq(Nat)
      OBVIOUS
    <3>4. sendQueue' \in [Slot -> Seq(Nat)]
      BY <3>0, <3>1, <3>3
    <3>5. isSending' \in [Slot -> {0, 1, 2}]
      BY <3>0, <3>1
    <3>. QED  BY <2>2, <3>2, <3>4, <3>5 DEF TypeOK, SendPostDequeue
  <2>3. CASE SendPostUnset(t)
    BY <2>3 DEF SendPostUnset
  <2>4. CASE SendPostIncrement(t)
    <3>. HIDE DEF TypeOK
    <3>1. ioCount' \in [Slot -> Int]
      BY <2>4 DEF TypeOK, SendPostIncrement, IncrementIO
    <3>. QED  BY <2>4, <3>1 DEF TypeOK, SendPostIncrement
  <2>5. CASE SendPostSocket(t)
    BY <2>5 DEF SendPostSocket, PostFailed
  <2>6. CASE SendPostWSASend(t)
    <3>. HIDE DEF TypeOK
    <3>0. /\ cur[t] \in Slot /\ overlapped \in OpsType
          /\ again \in [Thread -> BOOLEAN] /\ "send" \in Op
      BY DEF TypeOK, OpsType, Op
    <3>1. /\ Posted(cur[t], "send") \/ UNCHANGED overlapped
          /\ again' = [again EXCEPT ![t] = (t # Acceptor)] \/ UNCHANGED again
      BY <2>6 DEF SendPostWSASend, PostFailed
    <3>3. overlapped' \in [Slot -> [Op -> [Status -> Nat]]]
      BY <3>0, <3>1, PostedOp DEF OpsType
    <3>4. again' \in [Thread -> BOOLEAN]
      BY <3>0, <3>1
    <3>. QED  BY <2>6, <3>3, <3>4 DEF TypeOK, SendPostWSASend
  <2>. QED  BY <1>4, <2>1, <2>2, <2>3, <2>4, <2>5, <2>6 DEF SendPost
<1>5. ASSUME NEW t \in Thread, Cancel(t) PROVE TypeOK'
  <2>1. CASE CancelationIO(t)
    BY <2>1 DEF CancelationIO
  <2>2. CASE CancelIoEx(t)
    <3>. HIDE DEF TypeOK
    <3>1. overlapped' \in [Slot -> [Op -> [Status -> Nat]]]
      BY <2>2, AbortedOps DEF CancelIoEx, OpsType, TypeOK
    <3>. QED  BY <2>2, <3>1 DEF TypeOK, CancelIoEx
  <2>. QED  BY <1>5, <2>1, <2>2 DEF Cancel
<1>6. ASSUME NEW t \in Caller, Call(t) PROVE TypeOK'
  <2>. t \in Thread
    BY DEF Thread
  <2>1. ASSUME NEW op \in {"send", "disconnect"}, NEW s \in Slot, NEW u \in 1..MaxUid,
               FindId(t, op, s, u)
        PROVE  TypeOK'
    <3>. HIDE DEF TypeOK
    <3>0. /\ cur \in [Thread -> Slot] /\ arg \in [Thread -> Nat]
          /\ want \in [Thread -> {"send", "disconnect"}] /\ calls \in Nat
      BY DEF TypeOK
    <3>1. /\ \/ /\ cur' = [cur EXCEPT ![t] = s]
                /\ arg' = [arg EXCEPT ![t] = u]
                /\ want' = [want EXCEPT ![t] = op]
             \/ UNCHANGED <<cur, arg, want>>
          /\ calls' = calls + 1
      BY <2>1 DEF FindId
    <3>2. cur' \in [Thread -> Slot]
      BY <3>0, <3>1
    <3>3. u \in Nat
      BY BoundAssumption
    <3>4. arg' \in [Thread -> Nat]
      BY <3>0, <3>1, <3>3
    <3>5. want' \in [Thread -> {"send", "disconnect"}]
      BY <3>0, <3>1
    <3>6. calls' \in Nat
      BY <3>0, <3>1
    <3>. QED  BY <2>1, <3>2, <3>4, <3>5, <3>6 DEF TypeOK, FindId
  <2>2. CASE AcquireIncrement(t)
    <3>. HIDE DEF TypeOK
    <3>1. ioCount' \in [Slot -> Int]
      BY <2>2 DEF TypeOK, AcquireIncrement, IncrementIO
    <3>. QED  BY <2>2, <3>1 DEF TypeOK, AcquireIncrement
  <2>6. CASE FindOpen(t)
    BY <2>6 DEF FindOpen
  <2>3. CASE AcquireCheckId(t)
    BY <2>3 DEF AcquireCheckId
  <2>4. CASE AcquireCheckReleased(t)
    BY <2>4 DEF AcquireCheckReleased
  <2>5. CASE EnqueuePacket(t)
    <3>. HIDE DEF TypeOK
    <3>0. cur[t] \in Slot /\ arg[t] \in Nat /\ sendQueue \in [Slot -> Seq(Nat)]
      BY DEF TypeOK
    <3>1. \/ sendQueue' = [sendQueue EXCEPT ![cur[t]] = Append(sendQueue[cur[t]], arg[t])]
          \/ UNCHANGED sendQueue
      BY <2>5 DEF EnqueuePacket
    <3>2. Append(sendQueue[cur[t]], arg[t]) \in Seq(Nat)
      BY <3>0
    <3>3. sendQueue' \in [Slot -> Seq(Nat)]
      BY <3>0, <3>1, <3>2
    <3>. QED  BY <2>5, <3>3 DEF TypeOK, EnqueuePacket
  <2>. QED  BY <1>6, <2>1, <2>2, <2>3, <2>4, <2>5, <2>6 DEF Call
<1>7. ASSUME NEW t \in IOThread, Serve(t) PROVE TypeOK'
  <2>. t \in Thread
    BY DEF Thread
  <2>1. ASSUME NEW s \in Slot, NEW op \in Op, NEW st \in Status, Completion(t, s, op, st)
        PROVE  TypeOK'
    <3>. HIDE DEF TypeOK
    <3>1. overlapped' \in [Slot -> [Op -> [Status -> Nat]]]
      BY <2>1, TakenOp DEF Completion, OpsType, TypeOK
    <3>2. cur' \in [Thread -> Slot]
      BY <2>1 DEF Completion, TypeOK
    <3>3. ignored' = ignored \/ ignored' = [ignored EXCEPT ![s] = ignored[s] + 1]
      BY <2>1 DEF Completion
    <3>4. ignored \in [Slot -> Nat]
      BY DEF TypeOK
    <3>5. ignored' \in [Slot -> Nat]
      BY <3>3, <3>4
    <3>. QED  BY <2>1, <3>1, <3>2, <3>5 DEF TypeOK, Completion
  <2>2. CASE FinishSending(t)
    <3>. HIDE DEF TypeOK
    <3>1. sending' \in [Slot -> Seq(Nat)] /\ isSending' \in [Slot -> {0, 1, 2}]
      BY <2>2 DEF TypeOK, FinishSending
    <3>. QED  BY <2>2, <3>1 DEF TypeOK, FinishSending
  <2>3. CASE NetworkRecvCompleted(t)
    <3>1. known' \in SUBSET (Slot \X Nat)
      BY <2>3 DEF NetworkRecvCompleted
    <3>. QED  BY <2>3, <3>1 DEF NetworkRecvCompleted
  <2>. QED  BY <1>7, <2>1, <2>2, <2>3 DEF Serve
<1>8. CASE Environment
  <2>1. ASSUME NEW s \in Slot, PeerLeaves(s) PROVE TypeOK'
    BY <2>1 DEF PeerLeaves
  <2>2. ASSUME NEW s \in Slot, NEW op \in Op, KernelCompletes(s, op) PROVE TypeOK'
    <3>. HIDE DEF TypeOK
    <3>1. overlapped' \in [Slot -> [Op -> [Status -> Nat]]]
      BY <2>2, CompletedOp DEF OpsType, TypeOK
    <3>. QED  BY <2>2, <3>1 DEF TypeOK, KernelCompletes
  <2>. QED  BY <1>8, <2>1, <2>2 DEF Environment
<1>9. CASE UNCHANGED vars
  BY <1>9 DEF vars
<1>. QED  BY <1>1, <1>2, <1>3, <1>4, <1>5, <1>6, <1>7, <1>8, <1>9 DEF Next, Step

\* The initial state has the right types.
LEMMA TypeInit == Init => TypeOK
<1>1. Slot # {}
  BY BoundAssumption
<1>. QED  BY <1>1 DEF Init, TypeOK, Label, Status, Op

\* Every variable of the session life cycle keeps its type.
THEOREM TypeCorrect == Spec => []TypeOK
  BY TypeInit, TypeStep, PTL DEF Spec

-----------------------------------------------------------------------------
(* Control. *)

\* Every step keeps threads within their own code.
LEMMA ControlStep == TypeOK /\ ControlOK /\ [Next]_vars => ControlOK'
<1> SUFFICES ASSUME pc \in [Thread -> Label], again \in [Thread -> BOOLEAN],
                    ControlOK, [Next]_vars
             PROVE  ControlOK'
  BY DEF TypeOK
<1>. USE DEF ControlOK, Goto, At
<1>0. /\ Acceptor \in Thread
      /\ \A t \in Caller : t \in Thread /\ t # Acceptor
      /\ \A t \in IOThread : t \in Thread /\ t # Acceptor
  BY ThreadAssumption DEF Thread
<1>1. CASE Accept
  BY <1>0, <1>1 DEF Accept, PopSession, PopFails, PopGivesUp, InitId, InitFields, InitOpen, CountUp, Associate,
                    OnConnected, AcceptLabel, ReleaseLabel
<1>2. ASSUME NEW t \in Thread, TryReleaseSession(t) PROVE ControlOK'
  BY <1>0, <1>2 DEF TryReleaseSession, Decrement, ReadIdToReport, ReleaseCas, ReleaseClose,
        ReleaseClear, Push, CountDown, OnDisconnected, Return, AcceptLabel, ReleaseLabel
<1>3. ASSUME NEW t \in Thread, RecvPost(t) PROVE ControlOK'
  BY <1>0, <1>3 DEF RecvPost, RecvPostIncrement, RecvPostSocket, RecvPostWSARecv, PostFailed,
                    AcceptLabel, ReleaseLabel
<1>4. ASSUME NEW t \in Thread, SendPost(t) PROVE ControlOK'
  BY <1>0, <1>4 DEF SendPost, SendPostCas, SendPostDequeue, SendPostUnset, SendPostIncrement,
                    SendPostSocket, SendPostWSASend, PostFailed, AcceptLabel, ReleaseLabel
<1>5. ASSUME NEW t \in Thread, Cancel(t) PROVE ControlOK'
  BY <1>0, <1>5 DEF Cancel, CancelationIO, CancelIoEx, AcceptLabel, ReleaseLabel
<1>6. ASSUME NEW t \in Caller, Call(t) PROVE ControlOK'
  BY <1>0, <1>6 DEF Call, FindId, FindOpen, AcquireIncrement, AcquireCheckId,
                    AcquireCheckReleased, EnqueuePacket, ReleaseLabel
<1>7. ASSUME NEW t \in IOThread, Serve(t) PROVE ControlOK'
  BY <1>0, <1>7 DEF Serve, Completion, FinishSending, NetworkRecvCompleted, ReleaseLabel
<1>8. CASE Environment
  BY <1>8 DEF Environment, PeerLeaves, KernelCompletes, threadVars
<1>9. CASE UNCHANGED vars
  BY <1>9 DEF vars, threadVars
<1>. QED  BY <1>1, <1>2, <1>3, <1>4, <1>5, <1>6, <1>7, <1>8, <1>9 DEF Next, Step

-----------------------------------------------------------------------------
(* Cardinalities of the sets of references. *)

\* There are finitely many references of threads to a slot.
LEMMA RefsFinite == ASSUME NEW s PROVE IsFiniteSet(Refs(s)) /\ IsFiniteSet(Refs(s)')
<1>1. IsFiniteSet(Thread)
  <2>1. IsFiniteSet({Acceptor}) /\ IsFiniteSet(IOThread) /\ IsFiniteSet(Caller)
    BY FS_Singleton, ThreadAssumption
  <2>. QED  BY <2>1, FS_Union DEF Thread
<1>2. IsFiniteSet({"own", "post"})
  <2>1. IsFiniteSet({"own"})
    BY FS_Singleton
  <2>2. {"own", "post"} = {"own"} \cup {"post"}
    OBVIOUS
  <2>. QED  BY <2>1, <2>2, FS_AddElement
<1>3. IsFiniteSet(Thread \X {"own", "post"})
  BY <1>1, <1>2, FS_Product
<1>. QED  BY <1>3, FS_Subset DEF Refs

\* A set inside a finite set is not larger.
LEMMA CardKeep ==
  ASSUME NEW A, NEW B, IsFiniteSet(B), A \subseteq B
  PROVE  Cardinality(A) \in Nat /\ Cardinality(B) \in Nat /\ Cardinality(A) =< Cardinality(B)
  BY FS_Subset, FS_CardinalityType

\* One more element.
LEMMA CardAdd ==
  ASSUME NEW A, NEW B, IsFiniteSet(B), NEW x, A \subseteq B \cup {x}
  PROVE  Cardinality(A) \in Nat /\ Cardinality(B) \in Nat /\ Cardinality(A) =< Cardinality(B) + 1
<1>1. /\ IsFiniteSet(B \cup {x}) /\ Cardinality(B) \in Nat
      /\ Cardinality(B \cup {x}) =< Cardinality(B) + 1
  BY FS_AddElement, FS_CardinalityType
<1>. QED  BY <1>1, CardKeep

\* One element less.
LEMMA CardRemove ==
  ASSUME NEW A, NEW B, IsFiniteSet(B), NEW x \in B, A \subseteq B \ {x}
  PROVE  Cardinality(A) \in Nat /\ Cardinality(B) \in Nat /\ Cardinality(A) =< Cardinality(B) - 1
<1>1. /\ IsFiniteSet(B \ {x}) /\ Cardinality(B) \in Nat
      /\ Cardinality(B \ {x}) = Cardinality(B) - 1
  BY FS_RemoveElement, FS_CardinalityType
<1>. QED  BY <1>1, CardKeep

-----------------------------------------------------------------------------
(* How one thread's step changes the references. *)

\* The registers of the other threads stay as they are.
Others(t) ==
  \A u \in Thread \ {t} : pc'[u] = pc[u] /\ cur'[u] = cur[u] /\ again'[u] = again[u]

\* The step starts no operation and takes none.
FlightKept == \A s \in Slot : InFlight(s)' = InFlight(s)

\* t acquires no reference.
OwnKept(t)  == OwnRef(t)' => OwnRef(t) /\ cur'[t] = cur[t]
PostKept(t) == PostRef(t)' => PostRef(t) /\ cur'[t] = cur[t]

\* Operations that are left alone, or only change their status, stay as many.
LEMMA FlightSame ==
  (\A s \in Slot, op \in Op : InFlightOf(s, op)' = InFlightOf(s, op)) \/ overlapped' = overlapped
  => FlightKept
<1>1. CASE \A s \in Slot, op \in Op : InFlightOf(s, op)' = InFlightOf(s, op)
  BY <1>1 DEF FlightKept, InFlight, Op
<1>2. CASE overlapped' = overlapped
  BY <1>2 DEF FlightKept, InFlight, InFlightOf
<1>. QED  BY <1>1, <1>2

\* What t's step can add to the references of a slot: t's own two.
LEMMA RefsOfStep ==
  ASSUME NEW t \in Thread, Others(t), NEW s \in Slot, NEW r \in Refs(s)'
  PROVE  \/ r \in Refs(s)
         \/ r = <<t, "own">> /\ OwnRef(t)' /\ cur'[t] = s
         \/ r = <<t, "post">> /\ PostRef(t)' /\ cur'[t] = s
<1>1. /\ r \in Thread \X {"own", "post"} /\ cur'[r[1]] = s
      /\ r[2] = "own" => OwnRef(r[1])'
      /\ r[2] = "post" => PostRef(r[1])'
  BY DEF Refs
<1>2. r = <<r[1], r[2]>>
  BY <1>1
<1>3. CASE r[1] = t
  BY <1>1, <1>2, <1>3
<1>4. CASE r[1] # t
  <2>1. /\ cur[r[1]] = s
        /\ OwnRef(r[1])' => OwnRef(r[1])
        /\ PostRef(r[1])' => PostRef(r[1])
    BY <1>1, <1>4 DEF Others, OwnRef, PostRef
  <2>. QED  BY <1>1, <2>1 DEF Refs
<1>. QED  BY <1>3, <1>4

\* The references named by t's registers.
LEMMA OwnOf ==
  ASSUME NEW t \in Thread, NEW s \in Slot, cur[t] = s
  PROVE  /\ OwnRef(t) => <<t, "own">> \in Refs(s)
         /\ PostRef(t) => <<t, "post">> \in Refs(s)
  BY DEF Refs

\* A step that acquires nothing keeps the count sufficient.
LEMMA KeepRefs ==
  ASSUME CountCoversRefs, TypeOK, ioCount' = ioCount,
         NEW t \in Thread, Others(t), FlightKept, OwnKept(t), PostKept(t)
  PROVE  CountCoversRefs'
<1> SUFFICES ASSUME NEW s \in Slot PROVE ioCount'[s] >= Cardinality(Refs(s)') + InFlight(s)'
  BY DEF CountCoversRefs
<1>1. Refs(s)' \subseteq Refs(s)
  <2> SUFFICES ASSUME NEW r \in Refs(s)' PROVE r \in Refs(s)
    OBVIOUS
  <2>1. CASE r = <<t, "own">> /\ OwnRef(t)' /\ cur'[t] = s
    BY <2>1, OwnOf DEF OwnKept
  <2>2. CASE r = <<t, "post">> /\ PostRef(t)' /\ cur'[t] = s
    BY <2>2, OwnOf DEF PostKept
  <2>. QED  BY <2>1, <2>2, RefsOfStep
<1>2. Cardinality(Refs(s)') =< Cardinality(Refs(s)) /\ Cardinality(Refs(s)) \in Nat /\ Cardinality(Refs(s)') \in Nat
  BY <1>1, RefsFinite, CardKeep
<1>3. InFlight(s)' = InFlight(s) /\ InFlight(s) \in Nat /\ ioCount[s] \in Int
  BY FlightType DEF FlightKept, TypeOK, OpsType
<1>. QED  BY <1>2, <1>3 DEF CountCoversRefs

\* A step that acquires one reference and counts it.
LEMMA AddRef ==
  ASSUME CountCoversRefs, TypeOK,
         NEW t \in Thread, Others(t), FlightKept, cur' = cur,
         ioCount' = [ioCount EXCEPT ![cur[t]] = ioCount[cur[t]] + 1],
         OwnKept(t) \/ PostKept(t)
  PROVE  CountCoversRefs'
<1> SUFFICES ASSUME NEW s \in Slot PROVE ioCount'[s] >= Cardinality(Refs(s)') + InFlight(s)'
  BY DEF CountCoversRefs
<1>0. /\ InFlight(s)' = InFlight(s) /\ InFlight(s) \in Nat /\ ioCount[s] \in Int
      /\ ioCount \in [Slot -> Int] /\ cur[t] \in Slot
  BY FlightType DEF FlightKept, TypeOK, OpsType
<1>1. PICK k \in {"own", "post"} : (OwnKept(t) /\ k = "post") \/ (PostKept(t) /\ k = "own")
  OBVIOUS
<1>2. ASSUME NEW r \in Refs(s)' PROVE r \in Refs(s) \/ (r = <<t, k>> /\ cur[t] = s)
  <2>1. CASE r = <<t, "own">> /\ OwnRef(t)' /\ cur'[t] = s
    BY <1>1, <2>1, OwnOf DEF OwnKept
  <2>2. CASE r = <<t, "post">> /\ PostRef(t)' /\ cur'[t] = s
    BY <1>1, <2>2, OwnOf DEF PostKept
  <2>. QED  BY <1>2, <2>1, <2>2, RefsOfStep
<1>3. CASE cur[t] = s
  <2>1. Refs(s)' \subseteq Refs(s) \cup {<<t, k>>}
    BY <1>2
  <2>2. /\ Cardinality(Refs(s)) \in Nat /\ Cardinality(Refs(s)') \in Nat
        /\ Cardinality(Refs(s)') =< Cardinality(Refs(s)) + 1
    BY <2>1, RefsFinite, CardAdd
  <2>3. ioCount'[s] = ioCount[s] + 1
    BY <1>0, <1>3
  <2>. QED  BY <1>0, <2>2, <2>3 DEF CountCoversRefs
<1>4. CASE cur[t] # s
  <2>1. Refs(s)' \subseteq Refs(s)
    BY <1>2, <1>4
  <2>2. /\ Cardinality(Refs(s)) \in Nat /\ Cardinality(Refs(s)') \in Nat
        /\ Cardinality(Refs(s)') =< Cardinality(Refs(s))
    BY <2>1, RefsFinite, CardKeep
  <2>3. ioCount'[s] = ioCount[s]
    BY <1>0, <1>4
  <2>. QED  BY <1>0, <2>2, <2>3 DEF CountCoversRefs
<1>. QED  BY <1>3, <1>4

\* A step that posts an operation: t's reference becomes the operation's.
LEMMA PostOperation ==
  ASSUME CountCoversRefs, TypeOK, ioCount' = ioCount, cur' = cur,
         NEW t \in Thread, Others(t), NEW op \in Op, Posted(cur[t], op),
         OwnKept(t), PostRef(t), ~PostRef(t)'
  PROVE  CountCoversRefs'
<1> SUFFICES ASSUME NEW s \in Slot PROVE ioCount'[s] >= Cardinality(Refs(s)') + InFlight(s)'
  BY DEF CountCoversRefs
<1>0. overlapped \in OpsType /\ cur[t] \in Slot /\ ioCount[s] \in Int
  BY DEF TypeOK, OpsType
<1>1. /\ InFlightOf(cur[t], op)' = InFlightOf(cur[t], op) + 1
      /\ \A x \in Slot, o \in Op : x # cur[t] \/ o # op => InFlightOf(x, o)' = InFlightOf(x, o)
      /\ \A x \in Slot, o \in Op : InFlightOf(x, o) \in Nat
  BY <1>0, PostedOp, FlightType
<1>2. InFlight(s)' = IF s = cur[t] THEN InFlight(s) + 1 ELSE InFlight(s)
  BY <1>1 DEF InFlight, Op
<1>3. InFlight(s) \in Nat
  BY <1>0, FlightType
<1>4. ASSUME NEW r \in Refs(s)' PROVE r \in Refs(s) /\ r # <<t, "post">>
  <2>1. r # <<t, "post">>
    BY DEF Refs
  <2>2. CASE r = <<t, "own">> /\ OwnRef(t)' /\ cur'[t] = s
    BY <2>1, <2>2, OwnOf DEF OwnKept
  <2>. QED  BY <1>4, <2>1, <2>2, RefsOfStep
<1>5. CASE cur[t] = s
  <2>1. <<t, "post">> \in Refs(s) /\ Refs(s)' \subseteq Refs(s) \ {<<t, "post">>}
    BY <1>4, <1>5, OwnOf
  <2>2. /\ Cardinality(Refs(s)) \in Nat /\ Cardinality(Refs(s)') \in Nat
        /\ Cardinality(Refs(s)') =< Cardinality(Refs(s)) - 1
    <3>1. IsFiniteSet(Refs(s))
      BY RefsFinite
    <3>. QED  BY <2>1, <3>1, CardRemove
  <2>. QED  BY <1>0, <1>2, <1>3, <1>5, <2>2 DEF CountCoversRefs
<1>6. CASE cur[t] # s
  <2>1. Refs(s)' \subseteq Refs(s)
    BY <1>4
  <2>2. /\ Cardinality(Refs(s)) \in Nat /\ Cardinality(Refs(s)') \in Nat
        /\ Cardinality(Refs(s)') =< Cardinality(Refs(s))
    BY <2>1, RefsFinite, CardKeep
  <2>. QED  BY <1>0, <1>2, <1>3, <1>6, <2>2 DEF CountCoversRefs
<1>. QED  BY <1>5, <1>6

\* Completion: the operation's reference becomes t's, or is forgotten.
LEMMA TakeOver ==
  ASSUME TypeOK, ControlOK, CountCoversRefs, NEW t \in Thread, t # Acceptor,
         NEW c \in Slot, NEW op \in Op, NEW st \in Status, Completion(t, c, op, st)
  PROVE  CountCoversRefs'
<1>1. /\ ioCount \in [Slot -> Int] /\ cur \in [Thread -> Slot]
      /\ overlapped \in OpsType /\ pc \in [Thread -> Label]
  BY DEF TypeOK, OpsType
<1>2. /\ ioCount' = ioCount /\ again' = again /\ cur' = [cur EXCEPT ![t] = c]
      /\ overlapped' = [overlapped EXCEPT ![c][op][st] = overlapped[c][op][st] - 1]
      /\ overlapped[c][op][st] > 0 /\ pc[t] = "idle"
      /\ \E l \in Label : pc' = [pc EXCEPT ![t] = l]
      /\ pc'[t] \in {"dec", "cancel", "idle", "finish", "received"}
  BY <1>1 DEF Completion, At, Goto, sessionVars, Label
<1>3. Others(t)
  BY <1>1, <1>2 DEF Others
<1>4. ~PostRef(t)'
  BY <1>2 DEF PostRef, PostLabel, ControlOK, ReleaseLabel
<1> SUFFICES ASSUME NEW s \in Slot PROVE ioCount'[s] >= Cardinality(Refs(s)') + InFlight(s)'
  BY DEF CountCoversRefs
<1>5. /\ InFlightOf(c, op)' = InFlightOf(c, op) - 1
      /\ \A x \in Slot, o \in Op : x # c \/ o # op => InFlightOf(x, o)' = InFlightOf(x, o)
      /\ \A x \in Slot, o \in Op : InFlightOf(x, o) \in Nat
  BY <1>1, <1>2, TakenOp, FlightType
<1>6. InFlight(s)' = IF s = c THEN InFlight(s) - 1 ELSE InFlight(s)
  BY <1>5 DEF InFlight, Op
<1>7. InFlight(s) \in Nat /\ ioCount[s] \in Int
  BY <1>1, FlightType
<1>8. ASSUME NEW r \in Refs(s)' PROVE r \in Refs(s) \/ (r = <<t, "own">> /\ s = c)
  <2>1. CASE r = <<t, "own">> /\ cur'[t] = s
    BY <1>1, <1>2, <2>1
  <2>. QED  BY <1>3, <1>4, <1>8, <2>1, RefsOfStep
<1>9. CASE s = c
  <2>1. Refs(s)' \subseteq Refs(s) \cup {<<t, "own">>}
    BY <1>8
  <2>2. /\ Cardinality(Refs(s)) \in Nat /\ Cardinality(Refs(s)') \in Nat
        /\ Cardinality(Refs(s)') =< Cardinality(Refs(s)) + 1
    BY <2>1, RefsFinite, CardAdd
  <2>. QED  BY <1>2, <1>6, <1>7, <1>9, <2>2 DEF CountCoversRefs
<1>10. CASE s # c
  <2>1. Refs(s)' \subseteq Refs(s)
    BY <1>8, <1>10
  <2>2. /\ Cardinality(Refs(s)) \in Nat /\ Cardinality(Refs(s)') \in Nat
        /\ Cardinality(Refs(s)') =< Cardinality(Refs(s))
    BY <2>1, RefsFinite, CardKeep
  <2>. QED  BY <1>2, <1>6, <1>7, <1>10, <2>2 DEF CountCoversRefs
<1>. QED  BY <1>9, <1>10

\* Decrement: the reference that is dropped was held.
LEMMA DropRef ==
  ASSUME TypeOK, ControlOK, CountCoversRefs, NEW t \in Thread, Decrement(t)
  PROVE  CountCoversRefs'
<1>1. /\ ioCount \in [Slot -> Int] /\ cur \in [Thread -> Slot] /\ pc \in [Thread -> Label]
      /\ again \in [Thread -> BOOLEAN] /\ overlapped \in OpsType
  BY DEF TypeOK, OpsType
<1>2. /\ ioCount' = [ioCount EXCEPT ![cur[t]] = ioCount[cur[t]] - 1]
      /\ cur' = cur /\ overlapped' = overlapped /\ pc[t] = "dec"
      /\ \/ again' = again /\ pc' = [pc EXCEPT ![t] = "threw"]
         \/ again' = again /\ pc' = [pc EXCEPT ![t] = "release_id"]
         \/ /\ again' = [again EXCEPT ![t] = FALSE]
            /\ pc' = [pc EXCEPT ![t] = IF again[t] THEN "dec" ELSE "idle"]
  BY <1>1 DEF Decrement, At, Goto, Return, kernelVars
<1>3. Others(t)
  BY <1>1, <1>2 DEF Others
<1>4. ~PostRef(t)'
  BY <1>1, <1>2 DEF PostRef, PostLabel, ControlOK
<1>5. OwnRef(t)' => again[t]
  BY <1>1, <1>2 DEF OwnRef, UseLabel, ReleaseLabel
<1>6. PICK k \in {"own", "post"} :
        /\ (k = "own" /\ OwnRef(t)) \/ (k = "post" /\ PostRef(t))
        /\ k = "own" => ~OwnRef(t)'
  <2>1. CASE again[t] \/ t = Acceptor
    BY <1>2, <2>1 DEF PostRef
  <2>2. CASE ~again[t] /\ t # Acceptor
    BY <1>2, <1>5, <2>2 DEF OwnRef
  <2>. QED  BY <2>1, <2>2
<1>7. OwnKept(t)
  BY <1>1, <1>2, <1>5 DEF OwnKept, OwnRef
<1> SUFFICES ASSUME NEW s \in Slot PROVE ioCount'[s] >= Cardinality(Refs(s)') + InFlight(s)'
  BY DEF CountCoversRefs
<1>8. InFlight(s)' = InFlight(s) /\ InFlight(s) \in Nat /\ ioCount[s] \in Int
  BY <1>1, <1>2, FlightSame, FlightType DEF FlightKept
<1>9. ASSUME NEW r \in Refs(s)' PROVE r \in Refs(s) /\ r # <<t, k>>
  <2>1. r # <<t, k>>
    BY <1>4, <1>6 DEF Refs
  <2>2. CASE r = <<t, "own">> /\ OwnRef(t)' /\ cur'[t] = s
    BY <1>7, <2>1, <2>2, OwnOf DEF OwnKept
  <2>3. r \in Refs(s)
    BY <1>3, <1>4, <1>7, <1>9, <2>2, RefsOfStep
  <2>. QED  BY <2>1, <2>3
<1>10. CASE cur[t] = s
  <2>1. <<t, k>> \in Refs(s) /\ Refs(s)' \subseteq Refs(s) \ {<<t, k>>}
    BY <1>6, <1>9, <1>10, OwnOf
  <2>2. /\ Cardinality(Refs(s)) \in Nat /\ Cardinality(Refs(s)') \in Nat
        /\ Cardinality(Refs(s)') =< Cardinality(Refs(s)) - 1
    <3>1. IsFiniteSet(Refs(s))
      BY RefsFinite
    <3>. QED  BY <2>1, <3>1, CardRemove
  <2>3. ioCount'[s] = ioCount[s] - 1
    BY <1>1, <1>2, <1>10
  <2>. QED  BY <1>8, <2>2, <2>3 DEF CountCoversRefs
<1>11. CASE cur[t] # s
  <2>1. Refs(s)' \subseteq Refs(s)
    BY <1>9
  <2>2. /\ Cardinality(Refs(s)) \in Nat /\ Cardinality(Refs(s)') \in Nat
        /\ Cardinality(Refs(s)') =< Cardinality(Refs(s))
    BY <2>1, RefsFinite, CardKeep
  <2>3. ioCount'[s] = ioCount[s]
    BY <1>1, <1>2, <1>11
  <2>. QED  BY <1>8, <2>2, <2>3 DEF CountCoversRefs
<1>. QED  BY <1>10, <1>11

-----------------------------------------------------------------------------
(* Every step keeps the count sufficient. *)

\* Steps of TryReleaseSession after the decrement.
LEMMA ReleaseKeepsRefs ==
  ASSUME TypeOK, ControlOK, NEW t \in Thread, TryReleaseSession(t), ~Decrement(t)
  PROVE  ioCount' = ioCount /\ Others(t) /\ FlightKept /\ OwnKept(t) /\ PostKept(t)
<1>1. /\ pc \in [Thread -> Label] /\ again \in [Thread -> BOOLEAN]
      /\ overlapped \in OpsType /\ cur \in [Thread -> Slot]
  BY DEF TypeOK, OpsType
<1>2. ioCount' = ioCount /\ cur' = cur
  BY DEF TryReleaseSession, ReadIdToReport, ReleaseCas, ReleaseClose, ReleaseClear,
         Push, CountDown, OnDisconnected, sessionVars
<1>3. /\ pc[t] \in ReleaseLabel
      /\ \/ again' = again /\ \E l \in ReleaseLabel \cup {"refused"} : pc' = [pc EXCEPT ![t] = l]
         \/ /\ again' = [again EXCEPT ![t] = FALSE]
            /\ pc' = [pc EXCEPT ![t] = IF again[t] THEN "dec" ELSE "idle"]
  BY DEF TryReleaseSession, ReadIdToReport, ReleaseCas, ReleaseClose, ReleaseClear,
         Push, CountDown, OnDisconnected, Return, At, Goto, ReleaseLabel
<1>4. FlightKept
  <2>1. CASE ReleaseClose(t)
    BY <1>1, <2>1, AbortedOps, FlightSame DEF ReleaseClose
  <2>2. CASE ~ReleaseClose(t)
    BY <2>2, FlightSame DEF TryReleaseSession, ReadIdToReport, ReleaseCas, ReleaseClear, Push,
                CountDown, OnDisconnected, kernelVars
  <2>. QED  BY <2>1, <2>2
<1>5. Others(t)
  BY <1>1, <1>2, <1>3 DEF Others
<1>6. OwnKept(t)
  BY <1>1, <1>2, <1>3 DEF OwnKept, OwnRef, ReleaseLabel, UseLabel
<1>7. PostKept(t)
  BY <1>1, <1>2, <1>3 DEF PostKept, PostRef, ReleaseLabel, PostLabel, ControlOK
<1>. QED  BY <1>2, <1>4, <1>5, <1>6, <1>7

\* The same for a step that touches neither cur, again nor the operations and
\* goes from a label of a user to another.
LEMMA UseKeepsRefs ==
  ASSUME TypeOK, ControlOK, NEW t \in Thread, NEW l,
         ~again[t], cur' = cur, again' = again, overlapped' = overlapped,
         pc' = [pc EXCEPT ![t] = l],
         \/ t = Acceptor /\ l \notin PostLabel \cup {"dec"}
         \/ /\ t # Acceptor /\ l \notin PostLabel
            /\ pc[t] \in UseLabel \cup {"check_id", "check_released"}
  PROVE  Others(t) /\ FlightKept /\ OwnKept(t) /\ PostKept(t)
<1>1. pc \in [Thread -> Label] /\ again \in [Thread -> BOOLEAN]
  BY DEF TypeOK, OpsType
<1>2. Others(t) /\ FlightKept
  BY <1>1, FlightSame DEF Others
<1>3. OwnKept(t)
  BY <1>1 DEF OwnKept, OwnRef
<1>4. PostKept(t)
  BY <1>1 DEF PostKept, PostRef
<1>. QED  BY <1>2, <1>3, <1>4

\* The accept thread holds no reference while it opens a session.
LEMMA AcceptKeepsRefs ==
  ASSUME TypeOK, ControlOK, Accept
  PROVE  ioCount' = ioCount /\ Others(Acceptor) /\ FlightKept
         /\ OwnKept(Acceptor) /\ PostKept(Acceptor)
<1>1. /\ pc \in [Thread -> Label] /\ again \in [Thread -> BOOLEAN]
      /\ cur \in [Thread -> Slot] /\ Acceptor \in Thread
  BY DEF TypeOK, Thread
<1>2. /\ ioCount' = ioCount /\ overlapped' = overlapped /\ again' = again
      /\ cur' = cur \/ \E c \in Slot : cur' = [cur EXCEPT ![Acceptor] = c]
      /\ \E l \in {"init_id", "init_fields", "init_open", "count_up", "associate",
                    "on_connected", "release_cas", "recv_inc", "threw", "pop_failed", "idle"} :
           pc' = [pc EXCEPT ![Acceptor] = l]
  BY DEF Accept, PopSession, PopFails, PopGivesUp, InitId, InitFields, InitOpen, CountUp, Associate, OnConnected,
         sessionVars, kernelVars, Goto
<1>3. Others(Acceptor)
  BY <1>1, <1>2 DEF Others
<1>4. FlightKept /\ OwnKept(Acceptor)
  BY <1>2, FlightSame DEF OwnKept, OwnRef
<1>5. PostKept(Acceptor)
  BY <1>1, <1>2 DEF PostKept, PostRef, PostLabel, ControlOK
<1>. QED  BY <1>2, <1>3, <1>4, <1>5

\* RecvPost.
LEMMA RecvPostRefs ==
  ASSUME TypeOK, ControlOK, CountCoversRefs, NEW t \in Thread, RecvPost(t)
  PROVE  CountCoversRefs'
<1>1. /\ ioCount \in [Slot -> Int] /\ cur \in [Thread -> Slot] /\ pc \in [Thread -> Label]
      /\ again \in [Thread -> BOOLEAN] /\ overlapped \in OpsType
  BY DEF TypeOK, OpsType
<1>2. pc[t] \in {"recv_inc", "recv_socket", "recv_wsa"} /\ ~again[t]
  BY DEF RecvPost, RecvPostIncrement, RecvPostSocket, RecvPostWSARecv, At, ControlOK, ReleaseLabel
<1>3. CASE RecvPostIncrement(t)
  <2>1. /\ ioCount' = [ioCount EXCEPT ![cur[t]] = ioCount[cur[t]] + 1] /\ cur' = cur
        /\ again' = again /\ overlapped' = overlapped /\ pc[t] = "recv_inc"
        /\ pc' = [pc EXCEPT ![t] = "recv_socket"]
    BY <1>3 DEF RecvPostIncrement, IncrementIO, At, Goto, kernelVars
  <2>2. Others(t) /\ FlightKept
    BY <1>1, <2>1, FlightSame DEF Others
  <2>3. OwnKept(t)
    BY <1>1, <2>1 DEF OwnKept, OwnRef, UseLabel
  <2>. QED  BY <1>1, <2>1, <2>2, <2>3, AddRef
<1>4. ASSUME PostFailed(t), pc[t] \in PostLabel, UNCHANGED <<ioCount, cur, overlapped>>
      PROVE  CountCoversRefs'
  <2>1. Others(t) /\ FlightKept
    BY <1>1, <1>4, FlightSame DEF PostFailed, Goto, Others
  <2>2. OwnKept(t)
    BY <1>1, <1>4 DEF PostFailed, Goto, OwnKept, OwnRef, UseLabel, PostLabel
  <2>3. PostKept(t)
    BY <1>4 DEF PostKept, PostRef
  <2>. QED  BY <1>1, <1>4, <2>1, <2>2, <2>3, KeepRefs
<1>5. CASE RecvPostSocket(t)
  <2>1. pc[t] = "recv_socket" /\ UNCHANGED <<ioCount, cur, overlapped>>
    BY <1>5 DEF RecvPostSocket, At, sessionVars, kernelVars
  <2>2. CASE ~PostFailed(t)
    <3>1. pc' = [pc EXCEPT ![t] = "recv_wsa"] /\ again' = again
      BY <1>5, <2>2 DEF RecvPostSocket, Goto
    <3>2. Others(t) /\ FlightKept
      BY <1>1, <2>1, <3>1, FlightSame DEF Others
    <3>3. OwnKept(t) /\ PostKept(t)
      BY <1>1, <2>1, <3>1 DEF OwnKept, OwnRef, UseLabel, PostKept, PostRef, PostLabel
    <3>. QED  BY <1>1, <2>1, <3>2, <3>3, KeepRefs
  <2>. QED  BY <1>4, <2>1, <2>2 DEF PostLabel
<1>6. CASE RecvPostWSARecv(t)
  <2>1. pc[t] = "recv_wsa" /\ UNCHANGED <<ioCount, cur>>
    BY <1>6 DEF RecvPostWSARecv, At, sessionVars
  <2>2. CASE PostFailed(t) /\ UNCHANGED overlapped
    BY <1>4, <2>1, <2>2 DEF PostLabel
  <2>3. CASE ~(PostFailed(t) /\ UNCHANGED overlapped)
    <3>1. /\ Posted(cur[t], "recv")
          /\ pc' = [pc EXCEPT ![t] = IF t = Acceptor THEN "idle" ELSE "dec"]
          /\ again' = again
      BY <1>6, <2>3 DEF RecvPostWSARecv, Goto
    <3>2. Others(t)
      BY <1>1, <2>1, <3>1 DEF Others
    <3>3. OwnKept(t)
      BY <1>1, <2>1, <3>1 DEF OwnKept, OwnRef, UseLabel
    <3>4. PostRef(t) /\ ~PostRef(t)'
      BY <1>1, <1>2, <2>1, <3>1 DEF PostRef, PostLabel
    <3>5. "recv" \in Op
      BY DEF Op
    <3>. QED  BY <1>1, <2>1, <3>1, <3>2, <3>3, <3>4, <3>5, PostOperation
  <2>. QED  BY <2>2, <2>3
<1>. QED  BY <1>3, <1>5, <1>6 DEF RecvPost

\* SendPost.
LEMMA SendPostRefs ==
  ASSUME TypeOK, ControlOK, CountCoversRefs, NEW t \in Thread, SendPost(t)
  PROVE  CountCoversRefs'
<1>1. /\ ioCount \in [Slot -> Int] /\ cur \in [Thread -> Slot] /\ pc \in [Thread -> Label]
      /\ again \in [Thread -> BOOLEAN] /\ overlapped \in OpsType
  BY DEF TypeOK, OpsType
<1>2. /\ pc[t] \in {"send_cas", "send_size", "send_unset", "send_inc", "send_socket", "send_wsa"}
      /\ ~again[t] /\ t # Acceptor
  BY DEF SendPost, SendPostCas, SendPostDequeue, SendPostUnset, SendPostIncrement,
         SendPostSocket, SendPostWSASend, At, ControlOK, AcceptLabel, ReleaseLabel
<1>3. CASE SendPostCas(t) \/ SendPostDequeue(t) \/ SendPostUnset(t)
  <2>1. /\ UNCHANGED <<ioCount, cur, again, overlapped>>
        /\ \E l \in {"send_size", "send_unset", "send_inc", "threw", "dec"} :
             pc' = [pc EXCEPT ![t] = l]
    BY <1>3 DEF SendPostCas, SendPostDequeue, SendPostUnset, Goto, sessionVars, kernelVars
  <2>2. Others(t) /\ FlightKept /\ OwnKept(t) /\ PostKept(t)
    BY <1>2, <2>1, UseKeepsRefs DEF UseLabel, PostLabel
  <2>. QED  BY <1>1, <2>1, <2>2, KeepRefs
<1>4. CASE SendPostIncrement(t)
  <2>1. /\ ioCount' = [ioCount EXCEPT ![cur[t]] = ioCount[cur[t]] + 1] /\ cur' = cur
        /\ again' = again /\ overlapped' = overlapped /\ pc[t] = "send_inc"
        /\ pc' = [pc EXCEPT ![t] = "send_socket"]
    BY <1>4 DEF SendPostIncrement, IncrementIO, At, Goto, kernelVars
  <2>2. Others(t) /\ FlightKept
    BY <1>1, <2>1, FlightSame DEF Others
  <2>3. OwnKept(t)
    BY <1>1, <2>1 DEF OwnKept, OwnRef, UseLabel
  <2>. QED  BY <1>1, <2>1, <2>2, <2>3, AddRef
<1>5. ASSUME PostFailed(t), pc[t] \in PostLabel, UNCHANGED <<ioCount, cur, overlapped>>
      PROVE  CountCoversRefs'
  <2>1. Others(t) /\ FlightKept
    BY <1>1, <1>5, FlightSame DEF PostFailed, Goto, Others
  <2>2. OwnKept(t)
    BY <1>1, <1>5 DEF PostFailed, Goto, OwnKept, OwnRef, UseLabel, PostLabel
  <2>3. PostKept(t)
    BY <1>5 DEF PostKept, PostRef
  <2>. QED  BY <1>1, <1>5, <2>1, <2>2, <2>3, KeepRefs
<1>6. CASE SendPostSocket(t)
  <2>1. pc[t] = "send_socket" /\ UNCHANGED <<ioCount, cur, overlapped>>
    BY <1>6 DEF SendPostSocket, At, sessionVars, kernelVars
  <2>2. CASE ~PostFailed(t)
    <3>1. pc' = [pc EXCEPT ![t] = "send_wsa"] /\ again' = again
      BY <1>6, <2>2 DEF SendPostSocket, Goto
    <3>2. Others(t) /\ FlightKept
      BY <1>1, <2>1, <3>1, FlightSame DEF Others
    <3>3. OwnKept(t) /\ PostKept(t)
      BY <1>1, <2>1, <3>1 DEF OwnKept, OwnRef, UseLabel, PostKept, PostRef, PostLabel
    <3>. QED  BY <1>1, <2>1, <3>2, <3>3, KeepRefs
  <2>. QED  BY <1>5, <2>1, <2>2 DEF PostLabel
<1>7. CASE SendPostWSASend(t)
  <2>1. pc[t] = "send_wsa" /\ UNCHANGED <<ioCount, cur>>
    BY <1>7 DEF SendPostWSASend, At, sessionVars
  <2>2. CASE PostFailed(t) /\ UNCHANGED overlapped
    BY <1>5, <2>1, <2>2 DEF PostLabel
  <2>3. CASE ~(PostFailed(t) /\ UNCHANGED overlapped)
    <3>1. /\ Posted(cur[t], "send")
          /\ pc' = [pc EXCEPT ![t] = "dec"]
          /\ again' = again
      BY <1>7, <2>3 DEF SendPostWSASend, Goto
    <3>2. Others(t)
      BY <1>1, <2>1, <3>1 DEF Others
    <3>3. OwnKept(t)
      BY <1>1, <2>1, <3>1 DEF OwnKept, OwnRef, UseLabel
    <3>4. PostRef(t) /\ ~PostRef(t)'
      BY <1>1, <1>2, <2>1, <3>1 DEF PostRef, PostLabel
    <3>5. "send" \in Op
      BY DEF Op
    <3>. QED  BY <1>1, <2>1, <3>1, <3>2, <3>3, <3>4, <3>5, PostOperation
  <2>. QED  BY <2>2, <2>3
<1>. QED  BY <1>3, <1>4, <1>6, <1>7 DEF SendPost

\* SendPacket and Disconnect up to SendPost and CancelationIO.
LEMMA CallRefs ==
  ASSUME TypeOK, ControlOK, CountCoversRefs, NEW t \in Caller, Call(t)
  PROVE  CountCoversRefs'
<1>1. /\ ioCount \in [Slot -> Int] /\ cur \in [Thread -> Slot] /\ pc \in [Thread -> Label]
      /\ again \in [Thread -> BOOLEAN] /\ t \in Thread /\ t # Acceptor
  BY ThreadAssumption DEF TypeOK, Thread
<1>2. ~again[t]
  BY <1>1 DEF Call, FindId, FindOpen, AcquireIncrement, AcquireCheckId, AcquireCheckReleased,
              EnqueuePacket, At, ControlOK, ReleaseLabel
<1>3. ASSUME NEW op \in {"send", "disconnect"}, NEW s \in Slot, NEW u \in 1..MaxUid,
             FindId(t, op, s, u)
      PROVE  CountCoversRefs'
  <2>1. /\ UNCHANGED <<ioCount, again, overlapped>>
        /\ \/ cur' = [cur EXCEPT ![t] = s] /\ pc' = [pc EXCEPT ![t] = "find"]
           \/ cur' = cur /\ pc' = pc /\ pc[t] = "idle"
    BY <1>3 DEF FindId, At, Goto, sessionVars, kernelVars
  <2>2. Others(t) /\ FlightKept
    BY <1>1, <2>1, FlightSame DEF Others
  <2>3. OwnKept(t) /\ PostKept(t)
    BY <1>1, <2>1 DEF OwnKept, OwnRef, UseLabel, ReleaseLabel, PostKept, PostRef, PostLabel
  <2>. QED  BY <1>1, <2>1, <2>2, <2>3, KeepRefs
<1>0. CASE FindOpen(t)
  <2>1. /\ UNCHANGED <<ioCount, cur, again, overlapped>>
        /\ \E l \in {"idle", "inc"} : pc' = [pc EXCEPT ![t] = l]
    BY <1>0 DEF FindOpen, Goto, sessionVars, kernelVars
  <2>2. Others(t) /\ FlightKept
    BY <1>1, <2>1, FlightSame DEF Others
  <2>3. OwnKept(t) /\ PostKept(t)
    BY <1>1, <2>1 DEF OwnKept, OwnRef, UseLabel, ReleaseLabel, PostKept, PostRef, PostLabel
  <2>. QED  BY <1>1, <2>1, <2>2, <2>3, KeepRefs
<1>4. CASE AcquireIncrement(t)
  <2>1. /\ ioCount' = [ioCount EXCEPT ![cur[t]] = ioCount[cur[t]] + 1] /\ cur' = cur
        /\ again' = again /\ overlapped' = overlapped /\ pc[t] = "inc"
        /\ \E l \in {"dec", "check_id"} : pc' = [pc EXCEPT ![t] = l]
    BY <1>4 DEF AcquireIncrement, IncrementIO, At, Goto, kernelVars
  <2>2. Others(t) /\ FlightKept
    BY <1>1, <2>1, FlightSame DEF Others
  <2>3. PostKept(t)
    BY <1>1, <1>2, <2>1 DEF PostKept, PostRef, PostLabel
  <2>. QED  BY <1>1, <2>1, <2>2, <2>3, AddRef
<1>5. CASE AcquireCheckId(t) \/ AcquireCheckReleased(t) \/ EnqueuePacket(t)
  <2>1. /\ UNCHANGED <<ioCount, cur, again, overlapped>>
        /\ pc[t] \in {"check_id", "check_released", "enqueue"}
        /\ \E l \in {"dec", "check_released", "enqueue", "cancel", "send_cas"} :
             pc' = [pc EXCEPT ![t] = l]
    BY <1>5 DEF AcquireCheckId, AcquireCheckReleased, EnqueuePacket, At, Goto,
                sessionVars, kernelVars
  <2>2. Others(t) /\ FlightKept /\ OwnKept(t) /\ PostKept(t)
    BY <1>1, <1>2, <2>1, UseKeepsRefs DEF UseLabel, PostLabel
  <2>. QED  BY <1>1, <2>1, <2>2, KeepRefs
<1>. QED  BY <1>0, <1>3, <1>4, <1>5 DEF Call

\* CancelationIO, and the handling of a completion.
LEMMA HandleRefs ==
  ASSUME TypeOK, ControlOK, CountCoversRefs, NEW t \in Thread,
         Cancel(t) \/ (t \in IOThread /\ (FinishSending(t) \/ NetworkRecvCompleted(t)))
  PROVE  CountCoversRefs'
<1>1. /\ ioCount \in [Slot -> Int] /\ cur \in [Thread -> Slot] /\ pc \in [Thread -> Label]
      /\ again \in [Thread -> BOOLEAN] /\ overlapped \in OpsType
  BY DEF TypeOK, OpsType
<1>2. /\ UNCHANGED <<ioCount, cur, again>>
      /\ pc[t] \in {"cancel", "cancel_io", "finish", "received"}
      /\ \E l \in {"dec", "cancel_io", "send_cas", "recv_inc", "cancel"} :
           pc' = [pc EXCEPT ![t] = l]
  BY DEF Cancel, CancelationIO, CancelIoEx, FinishSending, NetworkRecvCompleted, At, Goto,
         sessionVars
<1>3. ~again[t] /\ t # Acceptor
  BY <1>2 DEF ControlOK, AcceptLabel, ReleaseLabel
<1>4. FlightKept
  <2>1. CASE CancelIoEx(t)
    BY <1>1, <2>1, AbortedOps, FlightSame DEF CancelIoEx
  <2>2. CASE ~CancelIoEx(t)
    BY <2>2, FlightSame DEF Cancel, CancelationIO, FinishSending, NetworkRecvCompleted, kernelVars
  <2>. QED  BY <2>1, <2>2
<1>5. Others(t)
  BY <1>1, <1>2 DEF Others
<1>6. OwnKept(t)
  BY <1>1, <1>2, <1>3 DEF OwnKept, OwnRef, UseLabel
<1>7. PostKept(t)
  BY <1>1, <1>2, <1>3 DEF PostKept, PostRef, PostLabel
<1>. QED  BY <1>1, <1>2, <1>4, <1>5, <1>6, <1>7, KeepRefs

\* Every step keeps ioCount sufficient.
LEMMA CountStep == TypeOK /\ ControlOK /\ CountCoversRefs /\ [Next]_vars => CountCoversRefs'
<1> SUFFICES ASSUME TypeOK, ControlOK, CountCoversRefs, [Next]_vars PROVE CountCoversRefs'
  OBVIOUS
<1>0. ioCount \in [Slot -> Int] /\ Acceptor \in Thread
  BY DEF TypeOK, Thread
<1>1. CASE Accept
  BY <1>0, <1>1, AcceptKeepsRefs, KeepRefs
<1>2. ASSUME NEW t \in Thread, TryReleaseSession(t) PROVE CountCoversRefs'
  BY <1>0, <1>2, DropRef, ReleaseKeepsRefs, KeepRefs
<1>3. ASSUME NEW t \in Thread, RecvPost(t) PROVE CountCoversRefs'
  BY <1>3, RecvPostRefs
<1>4. ASSUME NEW t \in Thread, SendPost(t) PROVE CountCoversRefs'
  BY <1>4, SendPostRefs
<1>5. ASSUME NEW t \in Thread, Cancel(t) PROVE CountCoversRefs'
  BY <1>5, HandleRefs
<1>6. ASSUME NEW t \in Caller, Call(t) PROVE CountCoversRefs'
  BY <1>6, CallRefs
<1>7. ASSUME NEW t \in IOThread, Serve(t) PROVE CountCoversRefs'
  <2>1. t \in Thread /\ t # Acceptor
    BY ThreadAssumption DEF Thread
  <2>2. CASE \E s \in Slot, op \in Op, st \in Status : Completion(t, s, op, st)
    BY <2>1, <2>2, TakeOver
  <2>3. CASE FinishSending(t) \/ NetworkRecvCompleted(t)
    BY <2>1, <2>3, HandleRefs
  <2>. QED  BY <1>7, <2>2, <2>3 DEF Serve
<1>8. CASE Environment \/ UNCHANGED vars
  <2>1. UNCHANGED <<ioCount, pc, cur, again>>
    BY <1>8 DEF Environment, PeerLeaves, KernelCompletes, vars, sessionVars, threadVars
  <2>2. FlightKept
    <3>1. ASSUME NEW s \in Slot, NEW op \in Op, KernelCompletes(s, op) PROVE FlightKept
      BY <3>1, CompletedOp, FlightSame DEF TypeOK, OpsType
    <3>2. CASE UNCHANGED overlapped
      BY <3>2, FlightSame
    <3>. QED  BY <1>8, <3>1, <3>2 DEF Environment, PeerLeaves, vars, kernelVars
  <2>3. Others(Acceptor) /\ OwnKept(Acceptor) /\ PostKept(Acceptor)
    BY <2>1 DEF Others, OwnKept, OwnRef, PostKept, PostRef
  <2>. QED  BY <1>0, <2>1, <2>2, <2>3, KeepRefs
<1>. QED  BY <1>1, <1>2, <1>3, <1>4, <1>5, <1>6, <1>7, <1>8 DEF Next, Step

\* Initially nobody holds a reference.
LEMMA CountInit == Init => ControlOK /\ CountCoversRefs
<1> SUFFICES ASSUME Init PROVE ControlOK /\ CountCoversRefs
  OBVIOUS
<1>1. ControlOK
  BY DEF Init, ControlOK, AcceptLabel, Thread
<1>2. ASSUME NEW s \in Slot PROVE Refs(s) = {} /\ InFlight(s) = 0
  BY <1>2 DEF Init, Refs, OwnRef, PostRef, UseLabel, ReleaseLabel, PostLabel, InFlight, InFlightOf,
              Op, Status
<1>3. ASSUME NEW s \in Slot PROVE ioCount[s] >= Cardinality(Refs(s)) + InFlight(s)
  <2>1. Cardinality(Refs(s)) = 0
    BY <1>2, FS_EmptySet
  <2>2. ioCount[s] = 0
    BY DEF Init
  <2>. QED  BY <1>2, <2>1, <2>2
<1>. QED  BY <1>1, <1>3 DEF CountCoversRefs

\* ioCount never falls behind the references that are held: whatever the
\* interleaving of the accept thread, the IO threads and the callers, whichever
\* posts fail, and however often the slot is reused.
THEOREM CountAlwaysCovers == Spec => []CountCoversRefs
<1>1. Init => TypeOK /\ ControlOK /\ CountCoversRefs
  BY TypeInit, CountInit
<1>2. TypeOK /\ ControlOK /\ CountCoversRefs /\ [Next]_vars
        => (TypeOK /\ ControlOK /\ CountCoversRefs)'
  BY TypeStep, ControlStep, CountStep
<1>. QED  BY <1>1, <1>2, PTL DEF Spec

-----------------------------------------------------------------------------
(* Nobody releases a session that is in use. *)

\* A session whose count is zero is not in use.
LEMMA NoUserAtZero ==
  ASSUME TypeOK, CountCoversRefs, NEW u \in Thread, OwnRef(u), ioCount[cur[u]] = 0
  PROVE  FALSE
<1>1. cur[u] \in Slot /\ overlapped \in OpsType
  BY DEF TypeOK, OpsType
<1>2. <<u, "own">> \in Refs(cur[u])
  BY <1>1, OwnOf
<1>3. Cardinality(Refs(cur[u])) # 0 /\ Cardinality(Refs(cur[u])) \in Nat
  BY <1>1, <1>2, RefsFinite, FS_EmptySet, FS_CardinalityType
<1>4. InFlight(cur[u]) \in Nat
  BY <1>1, FlightType
<1>. QED  BY <1>1, <1>3, <1>4 DEF CountCoversRefs

\* Only the accept thread and the release of a session change IsReleased, and
\* a session with a user is not released.
LEMMA ReleasedKept ==
  ASSUME TypeOK, CountCoversRefs, [Next]_vars,
         NEW u \in Thread, OwnRef(u), released'[cur[u]]
  PROVE  released[cur[u]]
<1>1. released \in [Slot -> BOOLEAN] /\ cur \in [Thread -> Slot]
  BY DEF TypeOK
<1>2. CASE InitOpen
  BY <1>1, <1>2 DEF InitOpen
<1>3. ASSUME NEW t \in Thread, ReleaseCas(t) PROVE released[cur[u]]
  <2>1. CASE cur[t] = cur[u]
    BY <1>3, <2>1, NoUserAtZero DEF ReleaseCas
  <2>2. CASE cur[t] # cur[u]
    BY <1>1, <1>3, <2>2 DEF ReleaseCas
  <2>. QED  BY <2>1, <2>2
<1>4. CASE UNCHANGED released
  BY <1>4
<1>. USE DEF sessionVars
<1>5. CASE Accept
  BY <1>2, <1>4, <1>5 DEF Accept, PopSession, PopFails, PopGivesUp, InitId, InitFields, CountUp, Associate, OnConnected
<1>6. ASSUME NEW t \in Thread, TryReleaseSession(t) PROVE released[cur[u]]
  BY <1>3, <1>4, <1>6 DEF TryReleaseSession, Decrement, ReadIdToReport, ReleaseClose,
                          ReleaseClear, Push, CountDown, OnDisconnected
<1>7. ASSUME NEW t \in Thread, RecvPost(t) \/ SendPost(t) \/ Cancel(t) PROVE released[cur[u]]
  BY <1>4, <1>7 DEF RecvPost, RecvPostIncrement, RecvPostSocket, RecvPostWSARecv,
     SendPost, SendPostCas, SendPostDequeue, SendPostUnset, SendPostIncrement,
     SendPostSocket, SendPostWSASend, Cancel, CancelationIO, CancelIoEx
<1>8. ASSUME NEW t \in Caller, Call(t) PROVE released[cur[u]]
  BY <1>4, <1>8 DEF Call, FindId, FindOpen, AcquireIncrement, AcquireCheckId,
                    AcquireCheckReleased, EnqueuePacket
<1>9. ASSUME NEW t \in IOThread, Serve(t) PROVE released[cur[u]]
  BY <1>4, <1>9 DEF Serve, Completion, FinishSending, NetworkRecvCompleted
<1>10. CASE Environment \/ UNCHANGED vars
  BY <1>4, <1>10 DEF Environment, PeerLeaves, KernelCompletes, vars
<1>. QED  BY <1>5, <1>6, <1>7, <1>8, <1>9, <1>10 DEF Next, Step

\* A thread comes to use a session only by finding it not released.
LEMMA BecomeUser ==
  ASSUME TypeOK, ControlOK, [Next]_vars, NEW u \in Thread \ {Acceptor}, pc'[u] \in UseLabel
  PROVE  \/ pc[u] \in UseLabel /\ cur'[u] = cur[u]
         \/ UNCHANGED released /\ ~released[cur'[u]]
<1>1. /\ cur \in [Thread -> Slot] /\ pc \in [Thread -> Label] /\ u # Acceptor
      /\ released \in [Slot -> BOOLEAN] /\ Acceptor \in Thread
  BY DEF TypeOK, Thread
<1>. DEFINE Goal == \/ pc[u] \in UseLabel /\ cur'[u] = cur[u]
                    \/ UNCHANGED released /\ ~released[cur'[u]]
<1>2. CASE pc'[u] = pc[u] /\ cur'[u] = cur[u]
  BY <1>2
<1>. USE DEF Goto, At, UseLabel
<1>3. CASE Accept
  <2>1. pc'[u] = pc[u] /\ cur'[u] = cur[u]
    BY <1>1, <1>3 DEF Accept, PopSession, PopFails, PopGivesUp, InitId, InitFields, InitOpen, CountUp,
                      Associate, OnConnected
  <2>. QED  BY <1>2, <2>1
<1>4. ASSUME NEW t \in Thread, TryReleaseSession(t) PROVE Goal
  <2>1. cur' = cur /\ (u # t => pc'[u] = pc[u]) /\ pc'[t] \notin UseLabel
    BY <1>1, <1>4 DEF TryReleaseSession, Decrement, ReadIdToReport, ReleaseCas, ReleaseClose,
                      ReleaseClear, Push, CountDown, OnDisconnected, Return
  <2>. QED  BY <1>2, <2>1
<1>5. ASSUME NEW t \in Thread, RecvPost(t) \/ SendPost(t) \/ Cancel(t) PROVE Goal
  <2>1. cur' = cur /\ (u # t => pc'[u] = pc[u]) /\ pc[t] \in UseLabel
    BY <1>1, <1>5 DEF RecvPost, RecvPostIncrement, RecvPostSocket, RecvPostWSARecv, PostFailed,
       SendPost, SendPostCas, SendPostDequeue, SendPostUnset, SendPostIncrement,
       SendPostSocket, SendPostWSASend, Cancel, CancelationIO, CancelIoEx
  <2>. QED  BY <1>2, <2>1
<1>6. ASSUME NEW t \in Caller, Call(t) PROVE Goal
  <2>1. CASE u # t
    BY <1>1, <1>2, <1>6, <2>1 DEF Call, FindId, FindOpen, AcquireIncrement, AcquireCheckId,
                                  AcquireCheckReleased, EnqueuePacket
  <2>2. CASE u = t
    <3>1. CASE AcquireCheckReleased(t)
      BY <1>1, <2>2, <3>1 DEF AcquireCheckReleased, sessionVars
    <3>2. CASE EnqueuePacket(t)
      BY <1>1, <2>2, <3>2 DEF EnqueuePacket
    <3>3. CASE ~AcquireCheckReleased(t) /\ ~EnqueuePacket(t)
      <4>1. pc'[t] \in {"idle", "find", "inc", "dec", "check_id", "check_released"}
        <5>1. t \in Thread
          BY DEF Thread
        <5>2. CASE \E op \in {"send", "disconnect"}, s \in Slot, w \in 1..MaxUid :
                     FindId(t, op, s, w)
          BY <1>1, <5>1, <5>2 DEF FindId
        <5>3. CASE FindOpen(t) \/ AcquireIncrement(t) \/ AcquireCheckId(t)
          BY <1>1, <5>1, <5>3 DEF FindOpen, AcquireIncrement, AcquireCheckId
        <5>. QED  BY <1>6, <3>3, <5>2, <5>3 DEF Call
      <4>. QED  BY <2>2, <4>1
    <3>. QED  BY <3>1, <3>2, <3>3
  <2>. QED  BY <2>1, <2>2
<1>7. ASSUME NEW t \in IOThread, Serve(t) PROVE Goal
  <2>1. CASE u # t
    BY <1>1, <1>2, <1>7, <2>1 DEF Serve, Completion, FinishSending, NetworkRecvCompleted
  <2>2. CASE u = t
    <3>1. ASSUME NEW s \in Slot, NEW op \in Op, NEW st \in Status,
                 Completion(t, s, op, st) PROVE Goal
      <4>1. /\ cur'[u] = s /\ released' = released
            /\ released[s] => pc'[u] \in {"dec", "idle"}
        BY <1>1, <2>2, <3>1 DEF Completion, sessionVars
      <4>. QED  BY <4>1
    <3>2. CASE FinishSending(t) \/ NetworkRecvCompleted(t)
      BY <1>1, <2>2, <3>2 DEF FinishSending, NetworkRecvCompleted
    <3>. QED  BY <1>7, <3>1, <3>2 DEF Serve
  <2>. QED  BY <2>1, <2>2
<1>8. CASE Environment \/ UNCHANGED vars
  BY <1>2, <1>8 DEF Environment, PeerLeaves, KernelCompletes, vars, threadVars
<1>. QED  BY <1>3, <1>4, <1>5, <1>6, <1>7, <1>8 DEF Next, Step

\* Every step keeps the sessions in use alive.
LEMMA UsersStep ==
  TypeOK /\ ControlOK /\ CountCoversRefs /\ UsersKeepItAlive /\ [Next]_vars => UsersKeepItAlive'
<1> SUFFICES ASSUME TypeOK, ControlOK, CountCoversRefs, UsersKeepItAlive, [Next]_vars,
                    NEW u \in Thread \ {Acceptor}, pc'[u] \in UseLabel, released'[cur'[u]]
             PROVE  FALSE
  BY DEF UsersKeepItAlive
<1>1. pc[u] \in UseLabel /\ cur'[u] = cur[u]
  BY BecomeUser
<1>2. OwnRef(u)
  BY <1>1 DEF OwnRef
<1>. QED  BY <1>1, <1>2, ReleasedKept DEF UsersKeepItAlive

\* A thread that acquired a session, or handles a completion of it, is never
\* left with a released one: AcquireSessionOrNull, SendPost, RecvPost and
\* NetworkRecvCompleted work on a live session to the end.
THEOREM UsersAlwaysKeepItAlive == Spec => []UsersKeepItAlive
<1>. DEFINE IInv == TypeOK /\ ControlOK /\ CountCoversRefs /\ UsersKeepItAlive
<1>1. Init => IInv
  <2>1. Init => UsersKeepItAlive
    BY DEF Init, UsersKeepItAlive, UseLabel
  <2>. QED  BY <2>1, TypeInit, CountInit
<1>2. IInv /\ [Next]_vars => IInv'
  BY TypeStep, ControlStep, CountStep, UsersStep
<1>. QED  BY <1>1, <1>2, PTL DEF Spec

-----------------------------------------------------------------------------
(* One owner. *)

\* Labels at which a thread owns its slot.
OwnerLabel ==
  {"release_close", "release_clear", "push", "refused", "init_id", "init_fields", "init_open"}

\* SlotHasOneOwner for one slot, as implications.
OneOwner(s) ==
  /\ \A t, u \in Thread : Releasing(t, s) /\ Releasing(u, s) => t = u
  /\ s \in unused => released[s] /\ ~Opening(s) /\ \A t \in Thread : ~Releasing(t, s)
  /\ Opening(s) => released[s] /\ s \notin unused /\ \A t \in Thread : ~Releasing(t, s)
  /\ \A t \in Thread : Releasing(t, s) => released[s] /\ s \notin unused /\ ~Opening(s)
  /\ released[s] => s \in unused \/ Opening(s) \/ \E t \in Thread : Releasing(t, s)

\* The two forms agree.
LEMMA OneOwnerForm == SlotHasOneOwner <=> \A s \in Slot : OneOwner(s)
<1>1. ASSUME SlotHasOneOwner, NEW s \in Slot PROVE OneOwner(s)
  BY <1>1 DEF SlotHasOneOwner, OneOwner
<1>2. ASSUME NEW s \in Slot, OneOwner(s)
      PROVE  LET releasers == {t \in Thread : Releasing(t, s)} IN
             /\ \A t, u \in releasers : t = u
             /\ ~released[s] => s \notin unused /\ ~Opening(s) /\ releasers = {}
             /\ released[s] =>
                  \/ s \in unused /\ ~Opening(s) /\ releasers = {}
                  \/ s \notin unused /\ Opening(s) /\ releasers = {}
                  \/ s \notin unused /\ ~Opening(s) /\ releasers # {}
  BY <1>2 DEF OneOwner
<1>. QED  BY <1>1, <1>2 DEF SlotHasOneOwner

\* The steps that move a slot.
MovesSlot ==
  \/ \E s \in Slot : PopSession(s)
  \/ InitId \/ InitFields \/ InitOpen
  \/ \E t \in Thread : ReleaseCas(t) \/ ReleaseClose(t) \/ ReleaseClear(t) \/ Push(t)

\* No other step changes who owns what.
LEMMA OtherStepsKeepSlots ==
  ASSUME TypeOK, [Next]_vars, ~MovesSlot
  PROVE  /\ unused' = unused /\ released' = released
         /\ \A u \in Thread :
              \/ pc'[u] = pc[u] /\ cur'[u] = cur[u]
              \/ pc[u] \notin OwnerLabel /\ pc'[u] \notin OwnerLabel
<1>1. cur \in [Thread -> Slot] /\ pc \in [Thread -> Label] /\ Acceptor \in Thread
  BY DEF TypeOK, Thread
<1>. DEFINE Goal == /\ unused' = unused /\ released' = released
                    /\ \A u \in Thread :
                         \/ pc'[u] = pc[u] /\ cur'[u] = cur[u]
                         \/ pc[u] \notin OwnerLabel /\ pc'[u] \notin OwnerLabel
<1>. USE DEF Goto, At, OwnerLabel, managerVars, sessionVars
<1>2. CASE Accept
  BY <1>1, <1>2 DEF Accept, MovesSlot, PopFails, PopGivesUp, CountUp, Associate, OnConnected
<1>3. ASSUME NEW t \in Thread, TryReleaseSession(t) PROVE Goal
  BY <1>1, <1>3 DEF TryReleaseSession, MovesSlot, Decrement, ReadIdToReport, CountDown,
                    OnDisconnected, Return
<1>4. ASSUME NEW t \in Thread, RecvPost(t) PROVE Goal
  BY <1>1, <1>4 DEF RecvPost, RecvPostIncrement, RecvPostSocket, RecvPostWSARecv, PostFailed
<1>5. ASSUME NEW t \in Thread, SendPost(t) PROVE Goal
  BY <1>1, <1>5 DEF SendPost, SendPostCas, SendPostDequeue, SendPostUnset,
                    SendPostIncrement, SendPostSocket, SendPostWSASend, PostFailed
<1>6. ASSUME NEW t \in Thread, Cancel(t) PROVE Goal
  BY <1>1, <1>6 DEF Cancel, CancelationIO, CancelIoEx
<1>7. ASSUME NEW t \in Caller, Call(t) PROVE Goal
  <2>1. t \in Thread
    BY DEF Thread
  <2>2. CASE \E op \in {"send", "disconnect"}, s \in Slot, w \in 1..MaxUid :
               FindId(t, op, s, w)
    BY <1>1, <2>1, <2>2 DEF FindId
  <2>3. CASE ~\E op \in {"send", "disconnect"}, s \in Slot, w \in 1..MaxUid :
                FindId(t, op, s, w)
    BY <1>1, <1>7, <2>1, <2>3 DEF Call, FindOpen, AcquireIncrement, AcquireCheckId,
                                  AcquireCheckReleased, EnqueuePacket
  <2>. QED  BY <2>2, <2>3
<1>8. ASSUME NEW t \in IOThread, Serve(t) PROVE Goal
  <2>1. t \in Thread
    BY DEF Thread
  <2>. QED  BY <1>1, <1>8, <2>1 DEF Serve, Completion, FinishSending, NetworkRecvCompleted
<1>9. CASE Environment \/ UNCHANGED vars
  BY <1>9 DEF Environment, PeerLeaves, KernelCompletes, vars, threadVars
<1>. QED  BY <1>2, <1>3, <1>4, <1>5, <1>6, <1>7, <1>8, <1>9 DEF Next, Step

\* Every step keeps the slots apart.
LEMMA SlotStep == TypeOK /\ ControlOK /\ SlotHasOneOwner /\ [Next]_vars => SlotHasOneOwner'
<1>0. SlotHasOneOwner' <=> (\A s \in Slot : OneOwner(s))'
  BY OneOwnerForm, PTL
<1> SUFFICES ASSUME TypeOK, ControlOK, \A s \in Slot : OneOwner(s), [Next]_vars, NEW s \in Slot
             PROVE  OneOwner(s)'
  BY <1>0, OneOwnerForm
<1>1. /\ cur \in [Thread -> Slot] /\ pc \in [Thread -> Label] /\ Acceptor \in Thread
      /\ released \in [Slot -> BOOLEAN] /\ unused \in SUBSET Slot
  BY DEF TypeOK, Thread
<1>2. OneOwner(s)
  OBVIOUS
<1>. USE DEF Releasing, Opening, Goto, At, sessionVars
<1>3. CASE ~MovesSlot
  <2>1. /\ unused' = unused /\ released' = released
        /\ \A u \in Thread : Releasing(u, s)' <=> Releasing(u, s)
        /\ Opening(s)' <=> Opening(s)
    BY <1>1, <1>3, OtherStepsKeepSlots DEF OwnerLabel
  <2>. HIDE DEF Releasing, Opening
  <2>. QED  BY <1>2, <2>1 DEF OneOwner
<1>4. ASSUME NEW p \in Slot, PopSession(p) PROVE OneOwner(s)'
  BY <1>1, <1>2, <1>4 DEF PopSession, OneOwner
<1>5. CASE InitId
  <2>1. OneOwner(cur[Acceptor])
    BY <1>1
  <2>2. released[cur[Acceptor]]
    BY <1>1, <1>5, <2>1 DEF InitId, OneOwner
  <2>. QED  BY <1>1, <1>2, <1>5, <2>2 DEF InitId, OneOwner, managerVars
<1>6. CASE InitFields
  BY <1>1, <1>2, <1>6 DEF InitFields, OneOwner, managerVars
<1>7. CASE InitOpen
  BY <1>1, <1>2, <1>7 DEF InitOpen, OneOwner, managerVars
<1>8. ASSUME NEW t \in Thread, ReleaseCas(t) PROVE OneOwner(s)'
  BY <1>1, <1>2, <1>8 DEF ReleaseCas, Return, OneOwner, managerVars
<1>9. ASSUME NEW t \in Thread, ReleaseClose(t) PROVE OneOwner(s)'
  BY <1>1, <1>2, <1>9 DEF ReleaseClose, OneOwner, managerVars
<1>10. ASSUME NEW t \in Thread, ReleaseClear(t) PROVE OneOwner(s)'
  BY <1>1, <1>2, <1>10 DEF ReleaseClear, OneOwner, managerVars
<1>11. ASSUME NEW t \in Thread, Push(t) PROVE OneOwner(s)'
  BY <1>1, <1>2, <1>11 DEF Push, OneOwner
<1>. QED  BY <1>3, <1>4, <1>5, <1>6, <1>7, <1>8, <1>9, <1>10, <1>11 DEF MovesSlot

\* A slot of the session pool is always in exactly one place: in the pool, with
\* the accept thread, live, or with exactly one releasing thread.  No session
\* is pushed twice, handed out twice or lost, whatever the pool size.
THEOREM SlotsAlwaysHaveOneOwner == Spec => []SlotHasOneOwner
<1>1. Init => TypeOK /\ ControlOK /\ SlotHasOneOwner
  <2>1. Init => SlotHasOneOwner
    BY DEF Init, SlotHasOneOwner, Releasing, Opening, Thread
  <2>. QED  BY <2>1, TypeInit, CountInit
<1>2. TypeOK /\ ControlOK /\ SlotHasOneOwner /\ [Next]_vars
        => (TypeOK /\ ControlOK /\ SlotHasOneOwner)'
  BY TypeStep, ControlStep, SlotStep
<1>. QED  BY <1>1, <1>2, PTL DEF Spec

-----------------------------------------------------------------------------
(* The counter of connected sessions. *)

\* Labels of a thread that has released a session and not yet counted it down.
CountLabel == {"release_close", "release_clear", "push", "refused", "count_down"}
Live == {s \in Slot : ~released[s]}
Counting == {t \in Thread : pc[t] \in CountLabel}

\* The sets the counter is compared with are finite.
LEMMA CountedFinite ==
  /\ IsFiniteSet(Live) /\ IsFiniteSet(Live')
  /\ IsFiniteSet(Counting) /\ IsFiniteSet(Counting')
<1>1. IsFiniteSet(Thread)
  BY ThreadAssumption, FS_Singleton, FS_Union DEF Thread
<1>2. Live \subseteq Slot /\ Live' \subseteq Slot /\ Counting \subseteq Thread /\ Counting' \subseteq Thread
  BY DEF Live, Counting
<1>. QED  BY <1>1, <1>2, BoundAssumption, FS_Subset

\* The steps that change the counter or what it counts.
Counts ==
  \/ InitOpen \/ CountUp
  \/ \E t \in Thread : ReleaseCas(t) \/ CountDown(t)

\* No other step does.
LEMMA OtherStepsKeepCount ==
  ASSUME TypeOK, [Next]_vars, ~Counts
  PROVE  /\ connected' = connected /\ released' = released
         /\ \A u \in Thread : /\ pc'[u] \in CountLabel <=> pc[u] \in CountLabel
                              /\ pc'[u] = "count_up" <=> pc[u] = "count_up"
<1>1. cur \in [Thread -> Slot] /\ pc \in [Thread -> Label] /\ Acceptor \in Thread
  BY DEF TypeOK, Thread
<1>. DEFINE Goal == /\ connected' = connected /\ released' = released
                    /\ \A u \in Thread : /\ pc'[u] \in CountLabel <=> pc[u] \in CountLabel
                                         /\ pc'[u] = "count_up" <=> pc[u] = "count_up"
<1>. USE DEF Goto, At, CountLabel, managerVars, sessionVars
<1>2. CASE Accept
  BY <1>1, <1>2 DEF Accept, Counts, PopSession, PopFails, PopGivesUp, InitId, InitFields, Associate, OnConnected
<1>3. ASSUME NEW t \in Thread, TryReleaseSession(t) PROVE Goal
  BY <1>1, <1>3 DEF TryReleaseSession, Counts, Decrement, ReadIdToReport, ReleaseClose,
                    ReleaseClear, Push, OnDisconnected, Return
<1>4. ASSUME NEW t \in Thread, RecvPost(t) PROVE Goal
  BY <1>1, <1>4 DEF RecvPost, RecvPostIncrement, RecvPostSocket, RecvPostWSARecv, PostFailed
<1>5. ASSUME NEW t \in Thread, SendPost(t) PROVE Goal
  BY <1>1, <1>5 DEF SendPost, SendPostCas, SendPostDequeue, SendPostUnset,
                    SendPostIncrement, SendPostSocket, SendPostWSASend, PostFailed
<1>6. ASSUME NEW t \in Thread, Cancel(t) PROVE Goal
  BY <1>1, <1>6 DEF Cancel, CancelationIO, CancelIoEx
<1>7. ASSUME NEW t \in Caller, Call(t) PROVE Goal
  <2>1. t \in Thread
    BY DEF Thread
  <2>2. CASE \E op \in {"send", "disconnect"}, s \in Slot, w \in 1..MaxUid :
               FindId(t, op, s, w)
    BY <1>1, <2>1, <2>2 DEF FindId
  <2>. QED  BY <1>1, <1>7, <2>1, <2>2 DEF Call, FindOpen, AcquireIncrement, AcquireCheckId,
                                          AcquireCheckReleased, EnqueuePacket
<1>8. ASSUME NEW t \in IOThread, Serve(t) PROVE Goal
  <2>1. t \in Thread
    BY DEF Thread
  <2>. QED  BY <1>1, <1>8, <2>1 DEF Serve, Completion, FinishSending, NetworkRecvCompleted
<1>9. CASE Environment \/ UNCHANGED vars
  BY <1>9 DEF Environment, PeerLeaves, KernelCompletes, vars, threadVars
<1>. QED  BY <1>2, <1>3, <1>4, <1>5, <1>6, <1>7, <1>8, <1>9 DEF Next, Step

\* Every step keeps the counter exact.
LEMMA ConnectedStep ==
  TypeOK /\ ControlOK /\ SlotHasOneOwner /\ ConnectedIsExact /\ [Next]_vars => ConnectedIsExact'
<1>. DEFINE up  == IF pc[Acceptor] = "count_up" THEN 1 ELSE 0
            upN == IF pc'[Acceptor] = "count_up" THEN 1 ELSE 0
<1> SUFFICES ASSUME TypeOK, ControlOK, SlotHasOneOwner, [Next]_vars,
                    connected = Cardinality(Live) + Cardinality(Counting) - up
             PROVE  connected' = Cardinality(Live') + Cardinality(Counting') - upN
  BY DEF ConnectedIsExact, Live, Counting, CountLabel
<1>1. /\ cur \in [Thread -> Slot] /\ pc \in [Thread -> Label] /\ Acceptor \in Thread
      /\ released \in [Slot -> BOOLEAN]
  BY DEF TypeOK, Thread
<1>2. /\ IsFiniteSet(Live) /\ IsFiniteSet(Live')
      /\ IsFiniteSet(Counting) /\ IsFiniteSet(Counting')
  BY CountedFinite
<1>3. /\ Cardinality(Live) \in Nat /\ Cardinality(Live') \in Nat
      /\ Cardinality(Counting) \in Nat /\ Cardinality(Counting') \in Nat
  BY <1>2, FS_CardinalityType
<1>4. CASE ~Counts
  <2>1. /\ connected' = connected /\ released' = released
        /\ \A u \in Thread : /\ pc'[u] \in CountLabel <=> pc[u] \in CountLabel
                             /\ pc'[u] = "count_up" <=> pc[u] = "count_up"
    BY <1>4, OtherStepsKeepCount
  <2>2. Live' = Live
    BY <2>1 DEF Live
  <2>3. Counting' = Counting
    BY <2>1 DEF Counting
  <2>4. upN = up
    BY <1>1, <2>1
  <2>. HIDE DEF up, upN
  <2>. QED  BY <2>1, <2>2, <2>3, <2>4
<1>. USE DEF Goto, At, CountLabel
<1>5. CASE InitOpen
  <2>1. PICK s \in Slot : s = cur[Acceptor]
    BY <1>1
  <2>2. Opening(s)
    BY <1>5, <2>1 DEF InitOpen, Opening
  <2>3. released[s]
    BY <2>2 DEF SlotHasOneOwner
  <2>4. s \notin Live /\ Live' = Live \cup {s}
    BY <1>1, <1>5, <2>1, <2>3 DEF InitOpen, Live
  <2>5. Cardinality(Live') = Cardinality(Live) + 1
    BY <1>2, <2>4, FS_AddElement
  <2>6. Counting' = Counting
    BY <1>1, <1>5 DEF InitOpen, Counting
  <2>7. connected' = connected /\ up = 0 /\ upN = 1
    BY <1>1, <1>5 DEF InitOpen, managerVars
  <2>. HIDE DEF up, upN
  <2>. QED  BY <1>3, <2>5, <2>6, <2>7
<1>6. CASE CountUp
  <2>1. Live' = Live /\ Counting' = Counting /\ connected' = connected + 1 /\ up = 1 /\ upN = 0
    BY <1>1, <1>6 DEF CountUp, Live, Counting, sessionVars
  <2>. HIDE DEF up, upN
  <2>. QED  BY <1>3, <2>1
<1>7. ASSUME NEW t \in Thread, ReleaseCas(t)
      PROVE  connected' = Cardinality(Live') + Cardinality(Counting') - upN
  <2>1. PICK s \in Slot : s = cur[t]
    BY <1>1
  <2>2. connected' = connected /\ upN = up /\ t \notin Counting
    BY <1>1, <1>7 DEF ReleaseCas, Return, Counting, managerVars
  <2>3. CASE released[s] \/ ioCount[s] # 0
    <3>1. Live' = Live /\ Counting' = Counting
      BY <1>1, <1>7, <2>1, <2>3 DEF ReleaseCas, Return, Live, Counting
    <3>. HIDE DEF up, upN
    <3>. QED  BY <2>2, <3>1
  <2>4. CASE ~released[s] /\ ioCount[s] = 0
    <3>1. s \in Live /\ Live' = Live \ {s}
      BY <1>1, <1>7, <2>1, <2>4 DEF ReleaseCas, Live
    <3>2. Cardinality(Live') = Cardinality(Live) - 1
      BY <1>2, <3>1, FS_RemoveElement
    <3>3. Counting' = Counting \cup {t}
      BY <1>1, <1>7, <2>1, <2>4 DEF ReleaseCas, Counting
    <3>4. Cardinality(Counting') = Cardinality(Counting) + 1
      BY <1>2, <2>2, <3>3, FS_AddElement
    <3>. HIDE DEF up, upN
    <3>5. up \in Int
      BY DEF up
    <3>. QED  BY <1>3, <2>2, <3>2, <3>4, <3>5
  <2>. QED  BY <2>3, <2>4
<1>8. ASSUME NEW t \in Thread, CountDown(t)
      PROVE  connected' = Cardinality(Live') + Cardinality(Counting') - upN
  <2>1. connected' = connected - 1 /\ upN = up /\ t \in Counting /\ Live' = Live
    BY <1>1, <1>8 DEF CountDown, Counting, Live, sessionVars
  <2>2. Counting' = Counting \ {t}
    BY <1>1, <1>8 DEF CountDown, Counting
  <2>3. Cardinality(Counting') = Cardinality(Counting) - 1
    BY <1>2, <2>1, <2>2, FS_RemoveElement
  <2>. HIDE DEF up, upN
  <2>4. up \in Int
    BY DEF up
  <2>. QED  BY <1>3, <2>1, <2>3, <2>4
<1>. QED  BY <1>4, <1>5, <1>6, <1>7, <1>8 DEF Counts

\* mConnectedSessionCount counts every session once: no failed association,
\* failed post or race of two releasing threads makes it drift, however many
\* slots and threads there are and however long the server runs.
THEOREM ConnectedIsAlwaysExact == Spec => []ConnectedIsExact
<1>. DEFINE IInv == TypeOK /\ ControlOK /\ SlotHasOneOwner /\ ConnectedIsExact
<1>1. Init => IInv
  <2> SUFFICES ASSUME Init PROVE SlotHasOneOwner /\ ConnectedIsExact
    BY TypeInit, CountInit
  <2>1. SlotHasOneOwner
    BY DEF Init, SlotHasOneOwner, Releasing, Opening, Thread
  <2>2. Live = {} /\ Counting = {} /\ pc[Acceptor] # "count_up" /\ connected = 0
    BY DEF Init, Thread, Live, Counting, CountLabel
  <2>3. Cardinality(Live) = 0 /\ Cardinality(Counting) = 0
    BY <2>2, FS_EmptySet
  <2>4. ConnectedIsExact <=> connected = Cardinality(Live) + Cardinality(Counting)
                                           - (IF pc[Acceptor] = "count_up" THEN 1 ELSE 0)
    BY DEF ConnectedIsExact, Live, Counting, CountLabel
  <2>5. ConnectedIsExact
    BY <2>2, <2>3, <2>4
  <2>. QED  BY <2>1, <2>5
<1>2. IInv /\ [Next]_vars => IInv'
  BY TypeStep, ControlStep, SlotStep, ConnectedStep
<1>. QED  BY <1>1, <1>2, PTL DEF Spec

-----------------------------------------------------------------------------
(* A slot is clean when it is reused. *)

Clean(s) ==
  /\ closed[s] /\ ~socket[s] /\ sessionID[s] = 0
  /\ sendQueue[s] = <<>> /\ sending[s] = <<>> /\ isSending[s] = 0

\* The slot has been released and not yet given a new id.
Stored(s) ==
  \/ s \in unused
  \/ cur[Acceptor] = s /\ pc[Acceptor] = "init_id"
  \/ \E t \in Thread : cur[t] = s /\ pc[t] = "push"

\* A flag of 1 belongs to a thread inside ReadySending.
FlagHasHolder(s) ==
  Running /\ isSending[s] = 1 =>
    \E t \in Thread \ {Acceptor} : cur[t] = s /\ pc[t] \in {"send_size", "send_unset"}

CleanInv ==
  \A s \in Slot :
    /\ Stored(s) => Clean(s)
    /\ \A t \in Thread : cur[t] = s /\ pc[t] = "release_clear" => closed[s] /\ ~socket[s]
    /\ FlagHasHolder(s)

\* Nobody writes to a released slot, but the threads that own it.
LEMMA CleanKept ==
  ASSUME TypeOK, ControlOK, UsersKeepItAlive, [Next]_vars,
         NEW s \in Slot, released[s], Clean(s), cur[Acceptor] = s => ~InitId /\ ~InitFields
  PROVE  Clean(s)'
<1>1. /\ cur \in [Thread -> Slot] /\ Acceptor \in Thread /\ closed \in [Slot -> BOOLEAN]
      /\ socket \in [Slot -> BOOLEAN] /\ sessionID \in [Slot -> Nat]
      /\ sendQueue \in [Slot -> Seq(Nat)] /\ sending \in [Slot -> Seq(Nat)]
      /\ isSending \in [Slot -> {0, 1, 2}]
  BY DEF TypeOK, Thread
<1>2. ASSUME NEW t \in Thread, t # Acceptor, pc[t] \in UseLabel PROVE cur[t] # s
  BY <1>2 DEF UsersKeepItAlive
<1>3. CASE UNCHANGED <<closed, socket, sessionID, sendQueue, sending, isSending>>
  BY <1>3 DEF Clean
<1>. USE DEF At, sessionVars, sendVars
<1>4. CASE Accept
  <2>1. CASE InitId
    BY <1>1, <2>1 DEF InitId, Clean
  <2>2. CASE InitFields
    BY <1>1, <2>2 DEF InitFields, Clean
  <2>. QED  BY <1>3, <1>4, <2>1, <2>2 DEF Accept, PopSession, PopFails, PopGivesUp, InitOpen, CountUp, Associate, OnConnected
<1>5. ASSUME NEW t \in Thread, TryReleaseSession(t) PROVE Clean(s)'
  <2>1. CASE ReleaseClose(t)
    BY <1>1, <2>1 DEF ReleaseClose, Clean
  <2>2. CASE ReleaseClear(t)
    BY <1>1, <2>2 DEF ReleaseClear, Clean
  <2>. QED  BY <1>3, <1>5, <2>1, <2>2 DEF TryReleaseSession, Decrement, ReadIdToReport,
                                          ReleaseCas, Push, CountDown, OnDisconnected
<1>6. ASSUME NEW t \in Thread, RecvPost(t) PROVE Clean(s)'
  BY <1>3, <1>6 DEF RecvPost, RecvPostIncrement, RecvPostSocket, RecvPostWSARecv
<1>7. ASSUME NEW t \in Thread, SendPost(t) PROVE Clean(s)'
  <2>1. t # Acceptor /\ pc[t] \in UseLabel
    BY <1>7 DEF SendPost, SendPostCas, SendPostDequeue, SendPostUnset, SendPostIncrement,
                SendPostSocket, SendPostWSASend, ControlOK, AcceptLabel, ReleaseLabel, UseLabel
  <2>2. cur[t] # s
    BY <1>2, <2>1
  <2>3. CASE SendPostCas(t) \/ SendPostUnset(t)
    BY <1>1, <2>2, <2>3 DEF SendPostCas, SendPostUnset, Clean
  <2>4. CASE SendPostDequeue(t)
    BY <1>1, <2>2, <2>4 DEF SendPostDequeue, Clean
  <2>. QED  BY <1>3, <1>7, <2>3, <2>4 DEF SendPost, SendPostIncrement, SendPostSocket, SendPostWSASend
<1>8. ASSUME NEW t \in Thread, Cancel(t) PROVE Clean(s)'
  <2>1. CASE CancelationIO(t)
    BY <1>1, <2>1 DEF CancelationIO, Clean
  <2>. QED  BY <1>3, <1>8, <2>1 DEF Cancel, CancelIoEx
<1>9. ASSUME NEW t \in Caller, Call(t) PROVE Clean(s)'
  <2>1. CASE EnqueuePacket(t)
    <3>1. cur[t] # s
      BY <1>2, <2>1, ThreadAssumption DEF EnqueuePacket, UseLabel, Thread
    <3>. QED  BY <1>1, <2>1, <3>1 DEF EnqueuePacket, Clean
  <2>. QED  BY <1>3, <1>9, <2>1 DEF Call, FindId, FindOpen, AcquireIncrement, AcquireCheckId,
                                    AcquireCheckReleased
<1>10. ASSUME NEW t \in IOThread, Serve(t) PROVE Clean(s)'
  <2>1. CASE FinishSending(t)
    <3>1. cur[t] # s
      BY <1>2, <2>1, ThreadAssumption DEF FinishSending, UseLabel, Thread
    <3>. QED  BY <1>1, <2>1, <3>1 DEF FinishSending, Clean
  <2>. QED  BY <1>3, <1>10, <2>1 DEF Serve, Completion, NetworkRecvCompleted
<1>11. CASE Environment \/ UNCHANGED vars
  BY <1>3, <1>11 DEF Environment, PeerLeaves, KernelCompletes, vars
<1>. QED  BY <1>4, <1>5, <1>6, <1>7, <1>8, <1>9, <1>10, <1>11 DEF Next, Step

\* A slot becomes stored only when its releaser has cleared it.
LEMMA StoredFrom ==
  ASSUME TypeOK, ControlOK, [Next]_vars, NEW s \in Slot, OneOwner(s), Stored(s)'
  PROVE  \/ Stored(s) /\ (cur[Acceptor] = s => ~InitId /\ ~InitFields)
         \/ \E t \in Thread : ReleaseClear(t) /\ cur[t] = s
<1>1. /\ cur \in [Thread -> Slot] /\ pc \in [Thread -> Label] /\ Acceptor \in Thread
      /\ unused \in SUBSET Slot
  BY DEF TypeOK, Thread
<1>. USE DEF Stored, Goto, At
<1>2. CASE ~MovesSlot
  <2>1. Stored(s)
    BY <1>1, <1>2, OtherStepsKeepSlots DEF OwnerLabel
  <2>. QED  BY <1>2, <2>1 DEF MovesSlot
<1>3. ASSUME NEW p \in Slot, PopSession(p)
      PROVE  Stored(s) /\ ~InitId /\ ~InitFields
  BY <1>1, <1>3 DEF PopSession, PopFails, PopGivesUp, InitId, InitFields
<1>4. CASE InitId \/ InitFields
  <2>1. cur[Acceptor] # s
    BY <1>1, <1>4 DEF InitId, InitFields, OneOwner, Opening, Releasing, managerVars
  <2>. QED  BY <1>1, <1>4, <2>1 DEF InitId, InitFields, managerVars
<1>5. CASE InitOpen
  BY <1>1, <1>5 DEF InitOpen, InitId, InitFields, managerVars
<1>6. ASSUME NEW t \in Thread, ReleaseCas(t) \/ ReleaseClose(t) \/ ReleaseClear(t) \/ Push(t)
      PROVE  \/ Stored(s) /\ (cur[Acceptor] = s => ~InitId /\ ~InitFields)
             \/ ReleaseClear(t) /\ cur[t] = s
  <2>1. ~InitId /\ ~InitFields
    <3>1. CASE t = Acceptor
      BY <1>6, <3>1 DEF ReleaseCas, ReleaseClose, ReleaseClear, Push, InitId, InitFields
    <3>2. CASE t # Acceptor
      BY <1>1, <1>6, <3>2 DEF ReleaseCas, ReleaseClose, ReleaseClear, Push, InitId, InitFields, Return
    <3>. QED  BY <3>1, <3>2
  <2>2. CASE ReleaseCas(t)
    BY <1>1, <2>1, <2>2 DEF ReleaseCas, Return, managerVars
  <2>3. CASE ReleaseClose(t)
    BY <1>1, <2>1, <2>3 DEF ReleaseClose, managerVars
  <2>4. CASE ReleaseClear(t)
    BY <1>1, <2>1, <2>4 DEF ReleaseClear, managerVars
  <2>5. CASE Push(t)
    BY <1>1, <2>1, <2>5 DEF Push
  <2>. QED  BY <1>6, <2>2, <2>3, <2>4, <2>5
<1>. QED  BY <1>2, <1>3, <1>4, <1>5, <1>6 DEF MovesSlot

\* Who takes the IsSending flag to 1 is inside ReadySending, and does not leave
\* without changing it.
LEMMA FlagStep ==
  ASSUME TypeOK, ControlOK, [Next]_vars, NEW s \in Slot, FlagHasHolder(s)
  PROVE  FlagHasHolder(s)'
<1>1. /\ cur \in [Thread -> Slot] /\ pc \in [Thread -> Label] /\ Acceptor \in Thread
      /\ isSending \in [Slot -> {0, 1, 2}]
  BY DEF TypeOK, Thread
<1> SUFFICES ASSUME Running', isSending'[s] = 1
             PROVE  \E t \in Thread \ {Acceptor} :
                       cur'[t] = s /\ pc'[t] \in {"send_size", "send_unset"}
  BY DEF FlagHasHolder
<1>. DEFINE Holder(t) == cur[t] = s /\ pc[t] \in {"send_size", "send_unset"}
<1>2. ASSUME Running, isSending[s] = 1,
             \A t \in Thread : Holder(t) => cur'[t] = s /\ pc'[t] \in {"send_size", "send_unset"}
      PROVE  \E t \in Thread \ {Acceptor} :
                cur'[t] = s /\ pc'[t] \in {"send_size", "send_unset"}
  BY <1>2 DEF FlagHasHolder
<1>. USE DEF Goto, At, sendVars, Running
<1>3. CASE Accept
  BY <1>1, <1>2, <1>3 DEF Accept, PopSession, PopFails, PopGivesUp, InitId, InitFields, InitOpen, CountUp, Associate, OnConnected
<1>4. ASSUME NEW t \in Thread, TryReleaseSession(t)
      PROVE  \E u \in Thread \ {Acceptor} :
                cur'[u] = s /\ pc'[u] \in {"send_size", "send_unset"}
  BY <1>1, <1>2, <1>4 DEF TryReleaseSession, Decrement, ReadIdToReport, ReleaseCas, ReleaseClose,
                          ReleaseClear, Push, CountDown, OnDisconnected, Return
<1>5. ASSUME NEW t \in Thread, RecvPost(t) \/ Cancel(t)
      PROVE  \E u \in Thread \ {Acceptor} :
                cur'[u] = s /\ pc'[u] \in {"send_size", "send_unset"}
  BY <1>1, <1>2, <1>5 DEF RecvPost, RecvPostIncrement, RecvPostSocket, RecvPostWSARecv,
                          PostFailed, Cancel, CancelationIO, CancelIoEx
<1>6. ASSUME NEW t \in Thread, SendPost(t)
      PROVE  \E u \in Thread \ {Acceptor} :
                cur'[u] = s /\ pc'[u] \in {"send_size", "send_unset"}
  <2>1. t # Acceptor
    BY <1>6 DEF SendPost, SendPostCas, SendPostDequeue, SendPostUnset, SendPostIncrement,
                SendPostSocket, SendPostWSASend, ControlOK, AcceptLabel, ReleaseLabel
  <2>2. CASE SendPostCas(t)
    <3>1. CASE isSending[cur[t]] = 0
      <4>1. CASE cur[t] = s
        BY <1>1, <2>1, <2>2, <3>1, <4>1 DEF SendPostCas
      <4>2. CASE cur[t] # s
        BY <1>1, <1>2, <2>2, <3>1, <4>2 DEF SendPostCas
      <4>. QED  BY <4>1, <4>2
    <3>2. CASE isSending[cur[t]] # 0
      BY <1>1, <1>2, <2>2, <3>2 DEF SendPostCas
    <3>. QED  BY <3>1, <3>2
  <2>3. CASE SendPostDequeue(t)
    <3>1. pc[t] = "send_size" /\ cur' = cur /\ Running /\ pc'[t] # "threw"
      BY <1>1, <2>3 DEF SendPostDequeue
    <3>2. \/ pc' = [pc EXCEPT ![t] = "send_unset"] /\ isSending' = isSending
          \/ /\ isSending' = [isSending EXCEPT ![cur[t]] = 2]
             /\ pc' = [pc EXCEPT ![t] = "send_inc"]
      BY <1>1, <2>3, <3>1 DEF SendPostDequeue
    <3>. QED  BY <1>1, <1>2, <3>1, <3>2
  <2>4. CASE SendPostUnset(t)
    BY <1>1, <1>2, <2>4 DEF SendPostUnset
  <2>5. CASE SendPostIncrement(t) \/ SendPostSocket(t) \/ SendPostWSASend(t)
    BY <1>1, <1>2, <2>5 DEF SendPostIncrement, SendPostSocket, SendPostWSASend, PostFailed
  <2>. QED  BY <1>6, <2>2, <2>3, <2>4, <2>5 DEF SendPost
<1>7. ASSUME NEW t \in Caller, Call(t)
      PROVE  \E u \in Thread \ {Acceptor} :
                cur'[u] = s /\ pc'[u] \in {"send_size", "send_unset"}
  <2>1. t \in Thread
    BY DEF Thread
  <2>2. CASE \E op \in {"send", "disconnect"}, c \in Slot, w \in 1..MaxUid :
               FindId(t, op, c, w)
    BY <1>1, <1>2, <2>1, <2>2 DEF FindId
  <2>. QED  BY <1>1, <1>2, <1>7, <2>1, <2>2 DEF Call, FindOpen, AcquireIncrement, AcquireCheckId,
                                                AcquireCheckReleased, EnqueuePacket
<1>8. ASSUME NEW t \in IOThread, Serve(t)
      PROVE  \E u \in Thread \ {Acceptor} :
                cur'[u] = s /\ pc'[u] \in {"send_size", "send_unset"}
  <2>1. t \in Thread
    BY DEF Thread
  <2>2. CASE FinishSending(t)
    BY <1>1, <1>2, <2>1, <2>2 DEF FinishSending
  <2>. QED  BY <1>1, <1>2, <1>8, <2>1, <2>2 DEF Serve, Completion, NetworkRecvCompleted
<1>9. CASE Environment \/ UNCHANGED vars
  BY <1>1, <1>2, <1>9 DEF Environment, PeerLeaves, KernelCompletes, vars, threadVars
<1>. QED  BY <1>3, <1>4, <1>5, <1>6, <1>7, <1>8, <1>9 DEF Next, Step

\* Steps that move no slot open and close no socket; Disconnect and failed
\* operations only mark a session closed (CancelationIO).
LEMMA OtherStepsKeepSockets ==
  ASSUME TypeOK, [Next]_vars, ~MovesSlot
  PROVE  /\ socket' = socket
         /\ closed' = closed \/ \E c \in Slot : closed' = [closed EXCEPT ![c] = TRUE]
<1>1. cur \in [Thread -> Slot]
  BY DEF TypeOK
<1>. DEFINE Goal == /\ socket' = socket
                    /\ \/ closed' = closed
                       \/ \E c \in Slot : closed' = [closed EXCEPT ![c] = TRUE]
<1>. USE DEF sessionVars
<1>2. CASE Accept
  BY <1>2 DEF Accept, MovesSlot, PopFails, PopGivesUp, CountUp, Associate, OnConnected
<1>3. ASSUME NEW t \in Thread, TryReleaseSession(t) PROVE Goal
  BY <1>3 DEF TryReleaseSession, MovesSlot, Decrement, ReadIdToReport, CountDown, OnDisconnected
<1>4. ASSUME NEW t \in Thread, RecvPost(t) PROVE Goal
  BY <1>4 DEF RecvPost, RecvPostIncrement, RecvPostSocket, RecvPostWSARecv
<1>5. ASSUME NEW t \in Thread, SendPost(t) PROVE Goal
  BY <1>5 DEF SendPost, SendPostCas, SendPostDequeue, SendPostUnset,
              SendPostIncrement, SendPostSocket, SendPostWSASend
<1>6. ASSUME NEW t \in Thread, Cancel(t) PROVE Goal
  BY <1>1, <1>6 DEF Cancel, CancelationIO, CancelIoEx
<1>7. ASSUME NEW t \in Caller, Call(t) PROVE Goal
  BY <1>7 DEF Call, FindId, FindOpen, AcquireIncrement, AcquireCheckId, AcquireCheckReleased,
              EnqueuePacket
<1>8. ASSUME NEW t \in IOThread, Serve(t) PROVE Goal
  <2>1. cur'[t] \in Slot
    BY TypeStep DEF TypeOK, Thread
  <2>. QED  BY <1>1, <1>8, <2>1 DEF Serve, Completion, FinishSending, NetworkRecvCompleted, Thread
<1>9. CASE Environment \/ UNCHANGED vars
  BY <1>9 DEF Environment, PeerLeaves, KernelCompletes, vars
<1>. QED  BY <1>2, <1>3, <1>4, <1>5, <1>6, <1>7, <1>8, <1>9 DEF Next, Step

\* Every step keeps stored slots clean.
LEMMA CleanStep ==
  TypeOK /\ ControlOK /\ UsersKeepItAlive /\ SlotHasOneOwner /\ CleanInv /\ [Next]_vars
    => CleanInv'
<1> SUFFICES ASSUME TypeOK, ControlOK, UsersKeepItAlive, \A s \in Slot : OneOwner(s),
                    CleanInv, [Next]_vars, NEW s \in Slot
             PROVE  /\ Stored(s)' => Clean(s)'
                    /\ \A t \in Thread : cur'[t] = s /\ pc'[t] = "release_clear"
                                          => closed'[s] /\ ~socket'[s]
                    /\ FlagHasHolder(s)'
  BY OneOwnerForm DEF CleanInv
<1>0. /\ cur \in [Thread -> Slot] /\ pc \in [Thread -> Label] /\ Acceptor \in Thread
      /\ closed \in [Slot -> BOOLEAN] /\ socket \in [Slot -> BOOLEAN]
      /\ isSending \in [Slot -> {0, 1, 2}] /\ sessionID \in [Slot -> Nat]
      /\ sendQueue \in [Slot -> Seq(Nat)] /\ sending \in [Slot -> Seq(Nat)]
  BY DEF TypeOK, Thread
<1>1. FlagHasHolder(s)'
  BY FlagStep DEF CleanInv
<1>2. ASSUME Stored(s)' PROVE Clean(s)'
  <2>1. OneOwner(s)
    OBVIOUS
  <2>2. CASE Stored(s) /\ (cur[Acceptor] = s => ~InitId /\ ~InitFields)
    <3>1. released[s]
      BY <2>1, <2>2 DEF Stored, OneOwner, Opening, Releasing
    <3>2. Clean(s)
      BY <2>2 DEF CleanInv
    <3>. QED  BY <2>2, <3>1, <3>2, CleanKept
  <2>3. ASSUME NEW t \in Thread, ReleaseClear(t), cur[t] = s PROVE Clean(s)'
    <3>1. closed[s] /\ ~socket[s] /\ released[s] /\ Running
      BY <2>1, <2>3 DEF CleanInv, ReleaseClear, At, OneOwner, Releasing
    <3>2. isSending[s] # 1
      BY <3>1 DEF CleanInv, FlagHasHolder, UsersKeepItAlive, UseLabel
    <3>. QED  BY <1>0, <2>3, <3>1, <3>2 DEF ReleaseClear, Clean
  <2>. QED  BY <1>2, <2>1, <2>2, <2>3, StoredFrom
<1>3. ASSUME NEW t \in Thread, cur'[t] = s, pc'[t] = "release_clear"
      PROVE  closed'[s] /\ ~socket'[s]
  <2>1. CASE ~MovesSlot
    <3>1. cur[t] = s /\ pc[t] = "release_clear"
      BY <1>3, <2>1, OtherStepsKeepSlots DEF OwnerLabel
    <3>2. closed[s] /\ ~socket[s]
      BY <3>1 DEF CleanInv
    <3>3. /\ socket' = socket
          /\ closed' = closed \/ \E c \in Slot : closed' = [closed EXCEPT ![c] = TRUE]
      BY <2>1, OtherStepsKeepSockets
    <3>. QED  BY <1>0, <3>2, <3>3
  <2>2. CASE \E p \in Slot : PopSession(p)
    BY <1>0, <1>3, <2>2 DEF CleanInv, PopSession, sessionVars, Goto, At
  <2>3. CASE InitId \/ InitFields \/ InitOpen
    <3>1. t # Acceptor /\ cur[t] = s /\ pc[t] = "release_clear"
      BY <1>0, <1>3, <2>3 DEF InitId, InitFields, InitOpen, Goto, At
    <3>2. cur[Acceptor] # s
      BY <2>3, <3>1 DEF InitId, InitFields, InitOpen, OneOwner, Opening, Releasing, At
    <3>. QED  BY <1>0, <2>3, <3>1, <3>2 DEF CleanInv, InitId, InitFields, InitOpen, sessionVars
  <2>4. ASSUME NEW u \in Thread, ReleaseCas(u) \/ ReleaseClose(u) \/ ReleaseClear(u) \/ Push(u)
        PROVE  closed'[s] /\ ~socket'[s]
    <3>1. CASE ReleaseClose(u)
      BY <1>0, <1>3, <3>1 DEF CleanInv, ReleaseClose, Goto
    <3>2. CASE ~ReleaseClose(u)
      BY <1>0, <1>3, <2>4, <3>2 DEF CleanInv, ReleaseCas, ReleaseClear, Push, Return,
                                    Goto, sessionVars
    <3>. QED  BY <3>1, <3>2
  <2>. QED  BY <2>1, <2>2, <2>3, <2>4 DEF MovesSlot
<1>. QED  BY <1>1, <1>2, <1>3

\* The slot NetSession::Init is given satisfies what it asserts: released,
\* closed, its socket closed, no packet queued or being sent and the IsSending
\* flag clear, although callers with an old id may still be running.
THEOREM SlotsAreCleanWhenReused == Spec => []CleanWhenReused
<1>. DEFINE IInv == /\ TypeOK /\ ControlOK /\ CountCoversRefs /\ UsersKeepItAlive
                    /\ SlotHasOneOwner /\ CleanInv
<1>1. Init => IInv
  <2> SUFFICES ASSUME Init PROVE UsersKeepItAlive /\ SlotHasOneOwner /\ CleanInv
    BY TypeInit, CountInit
  <2>1. UsersKeepItAlive
    BY DEF Init, UsersKeepItAlive, UseLabel
  <2>2. SlotHasOneOwner
    BY DEF Init, SlotHasOneOwner, Releasing, Opening, Thread
  <2>3. CleanInv
    BY DEF Init, CleanInv, Clean, FlagHasHolder
  <2>. QED  BY <2>1, <2>2, <2>3
<1>2. IInv /\ [Next]_vars => IInv'
  BY TypeStep, ControlStep, CountStep, UsersStep, SlotStep, CleanStep
<1>3. IInv => CleanWhenReused
  <2> SUFFICES ASSUME IInv, pc[Acceptor] = "init_id"
               PROVE  released[cur[Acceptor]] /\ Clean(cur[Acceptor])
    BY DEF CleanWhenReused, Clean
  <2>1. cur[Acceptor] \in Slot
    BY DEF TypeOK, Thread
  <2>2. OneOwner(cur[Acceptor]) /\ Opening(cur[Acceptor])
    BY <2>1, OneOwnerForm DEF Opening
  <2>. QED  BY <2>1, <2>2 DEF CleanInv, Stored, OneOwner
<1>. QED  BY <1>1, <1>2, <1>3, PTL DEF Spec

-----------------------------------------------------------------------------
(* One send at a time. *)

\* From the flag to FinishSending.
SendLabel == {"send_size", "send_unset", "send_inc", "send_socket", "send_wsa", "finish"}
Sender(t, s) == cur[t] = s /\ pc[t] \in SendLabel
FlagAt(l) == IF l \in {"send_size", "send_unset"} THEN 1 ELSE 2
Sends(s) == InFlightOf(s, "send")

\* The flag is up while a thread or the kernel has the send, and one of them
\* has it.
SendOK(s) ==
  /\ \A t, u \in Thread : Sender(t, s) /\ Sender(u, s) => t = u
  /\ \A t \in Thread : Sender(t, s) => Sends(s) = 0 /\ isSending[s] = FlagAt(pc[t])
  /\ Sends(s) # 0 => isSending[s] = 2 /\ ~released[s]
  /\ Sends(s) \in {0, 1}

SendInv == \A s \in Slot : SendOK(s)

\* A step that neither gives nor takes the send of slot s.
SendKept(s) ==
  /\ \A u \in Thread : Sender(u, s)' => Sender(u, s) /\ FlagAt(pc'[u]) = FlagAt(pc[u])
  /\ isSending'[s] = isSending[s]
  /\ Sends(s)' = Sends(s)
  /\ released'[s] => released[s] \/ Sends(s) = 0

\* Operations that are left alone stay as many.
LEMMA SendsSame == overlapped' = overlapped => \A s \in Slot : Sends(s)' = Sends(s)
  BY DEF Sends, InFlightOf

\* Such a step keeps the send in one place.
LEMMA KeptIsOK ==
  ASSUME NEW s \in Slot, SendOK(s), SendKept(s)
  PROVE  SendOK(s)'
<1>1. \A t, u \in Thread : Sender(t, s)' /\ Sender(u, s)' => t = u
  BY DEF SendOK, SendKept
<1>2. \A t \in Thread : Sender(t, s)' => Sends(s)' = 0 /\ isSending'[s] = FlagAt(pc'[t])
  BY DEF SendOK, SendKept
<1>3. Sends(s)' \in {0, 1} /\ (Sends(s)' # 0 => isSending'[s] = 2 /\ ~released'[s])
  BY DEF SendOK, SendKept
<1>. QED  BY <1>1, <1>2, <1>3 DEF SendOK

\* The kernel has no operation of a session whose count is zero.
LEMMA NoSendAtZero ==
  ASSUME TypeOK, CountCoversRefs, NEW s \in Slot, ioCount[s] = 0
  PROVE  Sends(s) = 0
<1>1. overlapped \in OpsType
  BY DEF TypeOK, OpsType
<1>2. /\ InFlightOf(s, "recv") \in Nat /\ InFlightOf(s, "send") \in Nat
      /\ InFlight(s) = InFlightOf(s, "recv") + InFlightOf(s, "send")
  BY <1>1, FlightType DEF Op
<1>3. Cardinality(Refs(s)) \in Nat
  BY RefsFinite, FS_CardinalityType
<1>4. 0 >= Cardinality(Refs(s)) + InFlight(s)
  BY DEF CountCoversRefs
<1>. QED  BY <1>2, <1>3, <1>4 DEF Sends

\* A released session has no send.
LEMMA ReleasedHasNoSend ==
  ASSUME ControlOK, UsersKeepItAlive, NEW s \in Slot, SendOK(s), released[s]
  PROVE  Sends(s) = 0 /\ \A t \in Thread : ~Sender(t, s)
  BY DEF SendOK, Sender, SendLabel, ControlOK, AcceptLabel, ReleaseLabel, UsersKeepItAlive, UseLabel

\* Steps of the accept thread and of releases: they work on released slots, and
\* only a session without references is released.
LEMMA ReleaseKeepsSend ==
  ASSUME TypeOK, ControlOK, CountCoversRefs, UsersKeepItAlive, \A s \in Slot : OneOwner(s),
         NEW s \in Slot, SendOK(s),
         Accept \/ \E t \in Thread : TryReleaseSession(t)
  PROVE  SendOK(s)'
<1>1. /\ cur \in [Thread -> Slot] /\ pc \in [Thread -> Label] /\ Acceptor \in Thread
      /\ isSending \in [Slot -> {0, 1, 2}] /\ released \in [Slot -> BOOLEAN]
      /\ overlapped \in OpsType
  BY DEF TypeOK, Thread, OpsType
<1>2. ASSUME released[s], Sends(s)' = 0, \A t \in Thread : ~Sender(t, s)' PROVE SendOK(s)'
  BY <1>2 DEF SendOK
<1>. USE DEF Goto, At, Sender, SendLabel
<1>3. CASE InitFields
  <2>1. \A u \in Thread : Sender(u, s)' => Sender(u, s) /\ pc'[u] = pc[u]
    BY <1>1, <1>3 DEF InitFields
  <2>2. Sends(s)' = Sends(s)
    BY <1>3, SendsSame DEF InitFields
  <2>3. CASE cur[Acceptor] = s
    <3>1. released[s]
      BY <1>3, <2>3 DEF InitFields, OneOwner, Opening
    <3>. QED  BY <1>2, <2>1, <2>2, <3>1, ReleasedHasNoSend
  <2>4. CASE cur[Acceptor] # s
    <3>1. isSending'[s] = isSending[s] /\ released' = released
      BY <1>1, <1>3, <2>4 DEF InitFields
    <3>. QED  BY <2>1, <2>2, <3>1, KeptIsOK DEF SendKept
  <2>. QED  BY <2>3, <2>4
<1>4. CASE Accept /\ ~InitFields
  <2>1. \A u \in Thread : Sender(u, s)' => Sender(u, s) /\ pc'[u] = pc[u]
    BY <1>1, <1>4 DEF Accept, PopSession, PopFails, PopGivesUp, InitId, InitOpen, CountUp, Associate, OnConnected
  <2>2. isSending' = isSending /\ overlapped' = overlapped
    BY <1>4 DEF Accept, PopSession, PopFails, PopGivesUp, InitId, InitOpen, CountUp, Associate, OnConnected,
                sendVars, kernelVars
  <2>3. released'[s] => released[s]
    BY <1>1, <1>4 DEF Accept, PopSession, PopFails, PopGivesUp, InitId, InitOpen, CountUp, Associate, OnConnected,
                      sessionVars
  <2>. QED  BY <2>1, <2>2, <2>3, SendsSame, KeptIsOK DEF SendKept
<1>5. ASSUME NEW t \in Thread, ReleaseClear(t) PROVE SendOK(s)'
  <2>1. \A u \in Thread : Sender(u, s)' => Sender(u, s) /\ pc'[u] = pc[u]
    BY <1>1, <1>5 DEF ReleaseClear
  <2>2. Sends(s)' = Sends(s)
    BY <1>5, SendsSame DEF ReleaseClear, kernelVars
  <2>3. CASE cur[t] = s
    <3>1. released[s]
      BY <1>5, <2>3 DEF ReleaseClear, OneOwner, Releasing
    <3>. QED  BY <1>2, <2>1, <2>2, <3>1, ReleasedHasNoSend
  <2>4. CASE cur[t] # s
    <3>1. isSending'[s] = isSending[s] /\ released' = released
      BY <1>1, <1>5, <2>4 DEF ReleaseClear
    <3>. QED  BY <2>1, <2>2, <3>1, KeptIsOK DEF SendKept
  <2>. QED  BY <2>3, <2>4
<1>6. ASSUME NEW t \in Thread, ReleaseCas(t) PROVE SendOK(s)'
  <2>1. \A u \in Thread : Sender(u, s)' => Sender(u, s) /\ pc'[u] = pc[u]
    BY <1>1, <1>6 DEF ReleaseCas, Return
  <2>2. isSending' = isSending /\ overlapped' = overlapped
    BY <1>6 DEF ReleaseCas, sendVars, kernelVars
  <2>3. released'[s] => released[s] \/ ioCount[s] = 0
    BY <1>1, <1>6 DEF ReleaseCas
  <2>. QED  BY <2>1, <2>2, <2>3, SendsSame, NoSendAtZero, KeptIsOK DEF SendKept
<1>7. ASSUME NEW t \in Thread, ReleaseClose(t) PROVE SendOK(s)'
  <2>1. \A u \in Thread : Sender(u, s)' => Sender(u, s) /\ pc'[u] = pc[u]
    BY <1>1, <1>7 DEF ReleaseClose
  <2>2. isSending' = isSending /\ released' = released
    BY <1>7 DEF ReleaseClose, sendVars
  <2>3. Sends(s)' = Sends(s)
    BY <1>1, <1>7, AbortedOps DEF ReleaseClose, Sends, Op
  <2>. QED  BY <2>1, <2>2, <2>3, KeptIsOK DEF SendKept
<1>8. ASSUME NEW t \in Thread,
             Decrement(t) \/ ReadIdToReport(t) \/ Push(t) \/ CountDown(t) \/ OnDisconnected(t)
      PROVE  SendOK(s)'
  <2>1. \A u \in Thread : Sender(u, s)' => Sender(u, s) /\ pc'[u] = pc[u]
    BY <1>1, <1>8 DEF Decrement, ReadIdToReport, Push, CountDown, OnDisconnected, Return
  <2>2. isSending' = isSending /\ overlapped' = overlapped /\ released' = released
    BY <1>8 DEF Decrement, ReadIdToReport, Push, CountDown, OnDisconnected,
                sendVars, kernelVars, sessionVars
  <2>. QED  BY <2>1, <2>2, SendsSame, KeptIsOK DEF SendKept
<1>. QED  BY <1>3, <1>4, <1>5, <1>6, <1>7, <1>8 DEF TryReleaseSession

\* The steps of a send.
LEMMA SendPostKeepsOne ==
  ASSUME TypeOK, ControlOK, UsersKeepItAlive, NEW s \in Slot, SendOK(s),
         NEW t \in Thread, SendPost(t)
  PROVE  SendOK(s)'
<1>1. /\ cur \in [Thread -> Slot] /\ pc \in [Thread -> Label]
      /\ isSending \in [Slot -> {0, 1, 2}] /\ released \in [Slot -> BOOLEAN]
      /\ overlapped \in OpsType
  BY DEF TypeOK, OpsType
<1>2. /\ cur' = cur /\ released' = released
      /\ \A u \in Thread \ {t} : pc'[u] = pc[u]
  BY <1>1 DEF SendPost, SendPostCas, SendPostDequeue, SendPostUnset, SendPostIncrement,
              SendPostSocket, SendPostWSASend, PostFailed, Goto, sessionVars
<1>3. t # Acceptor /\ pc[t] \in UseLabel
  BY DEF SendPost, SendPostCas, SendPostDequeue, SendPostUnset, SendPostIncrement, At,
         SendPostSocket, SendPostWSASend, ControlOK, AcceptLabel, ReleaseLabel, UseLabel
<1>4. \A u \in Thread \ {t} : Sender(u, s)' <=> Sender(u, s)
  BY <1>2 DEF Sender
<1>5. CASE cur[t] # s
  <2>1. ~Sender(t, s)'
    BY <1>2, <1>5 DEF Sender
  <2>2. isSending'[s] = isSending[s]
    BY <1>1, <1>5 DEF SendPost, SendPostCas, SendPostDequeue, SendPostUnset, SendPostIncrement,
                      SendPostSocket, SendPostWSASend, sendVars
  <2>3. Sends(s)' = Sends(s)
    <3>1. CASE Posted(cur[t], "send")
      BY <1>1, <1>5, <3>1, PostedOp DEF Sends, Op
    <3>2. CASE overlapped' = overlapped
      BY <3>2, SendsSame
    <3>. QED  BY <3>1, <3>2 DEF SendPost, SendPostCas, SendPostDequeue, SendPostUnset, SendPostIncrement,
                                SendPostSocket, SendPostWSASend, kernelVars
  <2>. QED  BY <1>2, <1>4, <2>1, <2>2, <2>3, KeptIsOK DEF SendKept
<1>6. CASE cur[t] = s
  <2>1. ~released[s]
    BY <1>3, <1>6 DEF UsersKeepItAlive
  <2>2. CASE SendPostCas(t)
    <3>1. Sends(s)' = Sends(s)
      BY <2>2, SendsSame DEF SendPostCas, kernelVars
    <3>2. CASE isSending[s] = 0
      <4>1. Sends(s) = 0 /\ \A u \in Thread : ~Sender(u, s)
        BY <3>2 DEF SendOK, FlagAt
      <4>2. isSending'[s] = 1 /\ pc'[t] = "send_size"
        BY <1>1, <1>6, <2>2, <3>2 DEF SendPostCas, Goto
      <4>. QED  BY <1>4, <3>1, <4>1, <4>2 DEF SendOK, FlagAt
    <3>3. CASE isSending[s] # 0
      <4>1. isSending' = isSending /\ pc'[t] = "dec"
        BY <1>1, <1>6, <2>2, <3>3 DEF SendPostCas, Goto
      <4>. QED  BY <1>2, <1>4, <3>1, <4>1, KeptIsOK DEF SendKept, Sender, SendLabel
    <3>. QED  BY <3>2, <3>3
  <2>3. CASE SendPostDequeue(t) \/ SendPostUnset(t)
    <3>1. pc[t] \in {"send_size", "send_unset"} /\ Sends(s)' = Sends(s)
      BY <2>3, SendsSame DEF SendPostDequeue, SendPostUnset, kernelVars, At
    <3>2. Sender(t, s) /\ Sends(s) = 0 /\ \A u \in Thread \ {t} : ~Sender(u, s)
      BY <1>6, <3>1 DEF SendOK, Sender, SendLabel
    <3>3. isSending[s] = 1
      BY <3>1, <3>2 DEF SendOK, FlagAt
    <3>4. \/ pc'[t] \notin SendLabel
          \/ pc'[t] = "send_unset" /\ isSending'[s] = 1
          \/ pc'[t] = "send_inc" /\ isSending'[s] = 2
      BY <1>1, <1>6, <2>3, <3>3 DEF SendPostDequeue, SendPostUnset, sendVars, Goto, SendLabel
    <3>. QED  BY <1>4, <3>1, <3>2, <3>4 DEF SendOK, FlagAt, Sender
  <2>4. CASE SendPostIncrement(t) \/ SendPostSocket(t)
    <3>1. /\ pc[t] \in {"send_inc", "send_socket"} /\ Sends(s)' = Sends(s)
          /\ isSending' = isSending
          /\ pc'[t] \in {"send_socket", "send_wsa", "dec"}
      BY <1>1, <2>4, SendsSame DEF SendPostIncrement, SendPostSocket, PostFailed, kernelVars, sendVars, At, Goto
    <3>. QED  BY <1>2, <1>4, <1>6, <3>1, KeptIsOK DEF SendKept, Sender, SendLabel, FlagAt
  <2>5. CASE SendPostWSASend(t)
    <3>1. Sender(t, s) /\ Sends(s) = 0 /\ \A u \in Thread \ {t} : ~Sender(u, s)
      BY <1>6, <2>5 DEF SendPostWSASend, At, SendOK, Sender, SendLabel
    <3>2. isSending[s] = 2
      BY <2>5, <3>1 DEF SendPostWSASend, At, SendOK, FlagAt
    <3>3. isSending' = isSending /\ pc'[t] = "dec"
      BY <1>1, <2>5 DEF SendPostWSASend, PostFailed, sendVars, Goto
    <3>4. ~Sender(t, s)'
      BY <3>3 DEF Sender, SendLabel
    <3>5. Sends(s)' \in {0, 1}
      <4>1. CASE Posted(s, "send")
        BY <1>1, <3>1, <4>1, PostedOp DEF Sends, Op
      <4>2. CASE overlapped' = overlapped
        BY <3>1, <4>2, SendsSame
      <4>. QED  BY <1>6, <2>5, <4>1, <4>2 DEF SendPostWSASend
    <3>. QED  BY <1>2, <1>4, <2>1, <3>1, <3>2, <3>3, <3>4, <3>5 DEF SendOK
  <2>. QED  BY <2>2, <2>3, <2>4, <2>5 DEF SendPost
<1>. QED  BY <1>5, <1>6

\* A completion, and FinishSending.
LEMMA ServeKeepsOne ==
  ASSUME TypeOK, UsersKeepItAlive, NEW s \in Slot, SendOK(s), NEW t \in IOThread, Serve(t)
  PROVE  SendOK(s)'
<1>1. /\ cur \in [Thread -> Slot] /\ pc \in [Thread -> Label] /\ t \in Thread
      /\ isSending \in [Slot -> {0, 1, 2}] /\ released \in [Slot -> BOOLEAN]
      /\ overlapped \in OpsType
  BY DEF TypeOK, Thread, OpsType
<1>2. /\ released' = released
      /\ \A u \in Thread \ {t} : pc'[u] = pc[u] /\ cur'[u] = cur[u]
  BY <1>1 DEF Serve, Completion, FinishSending, NetworkRecvCompleted, Goto, sessionVars
<1>3. \A u \in Thread \ {t} : Sender(u, s)' <=> Sender(u, s)
  BY <1>2 DEF Sender
<1>4. ASSUME NEW c \in Slot, NEW op \in Op, NEW st \in Status, Completion(t, c, op, st)
      PROVE  SendOK(s)'
  <2>1. /\ pc[t] = "idle" /\ isSending' = isSending /\ cur'[t] = c
        /\ overlapped[c][op][st] > 0
        /\ overlapped' = [overlapped EXCEPT ![c][op][st] = overlapped[c][op][st] - 1]
        /\ pc'[t] = "finish" \/ pc'[t] \notin SendLabel
        /\ pc'[t] = "finish" => op = "send"
    BY <1>1, <1>4 DEF Completion, At, Goto, sendVars, SendLabel
  <2>0. /\ InFlightOf(c, op)' = InFlightOf(c, op) - 1
        /\ \A x \in Slot, o \in Op : x # c \/ o # op => InFlightOf(x, o)' = InFlightOf(x, o)
        /\ InFlightOf(c, op)' \in Nat
    <3>1. /\ \A m \in Status : overlapped[c][op][m] \in Nat
          /\ InFlightOf(c, op) \in Nat
      BY <1>1, FlightType
    <3>2. InFlightOf(c, op) > 0
      BY <2>1, <3>1 DEF InFlightOf, Status
    <3>3. /\ InFlightOf(c, op)' = InFlightOf(c, op) - 1
          /\ \A x \in Slot, o \in Op : x # c \/ o # op => InFlightOf(x, o)' = InFlightOf(x, o)
      BY <1>1, <2>1, TakenOp
    <3>. QED  BY <3>1, <3>2, <3>3
  <2>2. CASE c = s /\ op = "send"
    <3>1. Sends(s) = 1 /\ Sends(s)' = 0
      BY <2>0, <2>2 DEF Sends, SendOK
    <3>2. isSending[s] = 2 /\ \A u \in Thread : ~Sender(u, s)
      BY <3>1 DEF SendOK
    <3>3. \A u \in Thread : Sender(u, s)' => u = t /\ FlagAt(pc'[u]) = 2
      BY <1>3, <2>1, <3>2 DEF Sender, FlagAt
    <3>. QED  BY <2>1, <3>1, <3>2, <3>3 DEF SendOK
  <2>3. CASE ~(c = s /\ op = "send")
    <3>1. Sends(s)' = Sends(s)
      BY <2>0, <2>3 DEF Sends, Op
    <3>2. ~Sender(t, s)'
      BY <2>1, <2>3 DEF Sender
    <3>3. \A u \in Thread : Sender(u, s)' => Sender(u, s) /\ FlagAt(pc'[u]) = FlagAt(pc[u])
      BY <1>2, <1>3, <3>2
    <3>. QED  BY <1>2, <2>1, <3>1, <3>3, KeptIsOK DEF SendKept
  <2>. QED  BY <2>2, <2>3
<1>5. CASE FinishSending(t)
  <2>1. /\ pc[t] = "finish" /\ pc'[t] = "send_cas" /\ cur' = cur /\ Sends(s)' = Sends(s)
        /\ cur[t] # s => isSending'[s] = isSending[s]
    BY <1>1, <1>5, SendsSame DEF FinishSending, At, Goto, kernelVars
  <2>2. ~Sender(t, s)'
    BY <2>1 DEF Sender, SendLabel
  <2>3. CASE cur[t] = s
    <3>1. Sender(t, s)
      BY <2>1, <2>3 DEF Sender, SendLabel
    <3>2. Sends(s) = 0 /\ \A u \in Thread \ {t} : ~Sender(u, s)
      BY <1>1, <3>1 DEF SendOK
    <3>. QED  BY <1>3, <2>1, <2>2, <3>2 DEF SendOK
  <2>4. CASE cur[t] # s
    <3>1. \A u \in Thread : Sender(u, s)' => Sender(u, s) /\ FlagAt(pc'[u]) = FlagAt(pc[u])
      BY <1>2, <1>3, <2>2
    <3>. QED  BY <1>2, <2>1, <2>2, <2>4, <3>1, KeptIsOK DEF SendKept
  <2>. QED  BY <2>3, <2>4
<1>6. CASE NetworkRecvCompleted(t)
  <2>1. /\ pc'[t] \in {"recv_inc", "cancel"} /\ Sends(s)' = Sends(s)
        /\ isSending' = isSending
    BY <1>1, <1>6, SendsSame DEF NetworkRecvCompleted, Goto, kernelVars, sendVars
  <2>2. ~Sender(t, s)'
    BY <2>1 DEF Sender, SendLabel
  <2>3. \A u \in Thread : Sender(u, s)' => Sender(u, s) /\ FlagAt(pc'[u]) = FlagAt(pc[u])
    BY <1>2, <1>3, <2>2
  <2>. QED  BY <1>2, <2>1, <2>3, KeptIsOK DEF SendKept
<1>. QED  BY <1>4, <1>5, <1>6 DEF Serve

\* The other steps have nothing to do with sends.
LEMMA OthersKeepSend ==
  ASSUME TypeOK, NEW s \in Slot,
         \/ \E t \in Thread : RecvPost(t) \/ Cancel(t)
         \/ \E t \in Caller : Call(t)
         \/ Environment \/ UNCHANGED vars
  PROVE  SendKept(s)
<1>1. /\ cur \in [Thread -> Slot] /\ pc \in [Thread -> Label] /\ Caller \subseteq Thread
      /\ overlapped \in OpsType
  BY DEF TypeOK, Thread, OpsType
<1>2. isSending' = isSending /\ released' = released
  BY DEF RecvPost, RecvPostIncrement, RecvPostSocket, RecvPostWSARecv, Cancel, CancelationIO,
         CancelIoEx, Call, FindId, FindOpen, AcquireIncrement, AcquireCheckId, AcquireCheckReleased,
         EnqueuePacket, Environment, PeerLeaves, KernelCompletes, vars, sendVars, sessionVars
<1>. USE DEF Sender, SendLabel, Goto, At
<1>3. ASSUME NEW t \in Thread, RecvPost(t) \/ Cancel(t) PROVE SendKept(s)
  <2>1. \A u \in Thread : Sender(u, s)' => Sender(u, s) /\ pc'[u] = pc[u]
    BY <1>1, <1>3 DEF RecvPost, RecvPostIncrement, RecvPostSocket, RecvPostWSARecv, PostFailed,
                      Cancel, CancelationIO, CancelIoEx
  <2>2. Sends(s)' = Sends(s)
    <3>1. CASE CancelIoEx(t)
      BY <1>1, <3>1, AbortedOps DEF CancelIoEx, Sends, Op
    <3>2. CASE RecvPostWSARecv(t) /\ Posted(cur[t], "recv")
      BY <1>1, <3>2, PostedOp DEF Sends, Op
    <3>3. CASE overlapped' = overlapped
      BY <3>3, SendsSame
    <3>. QED  BY <1>3, <3>1, <3>2, <3>3 DEF RecvPost, RecvPostIncrement, RecvPostSocket, RecvPostWSARecv,
                                            Cancel, CancelationIO, kernelVars
  <2>. QED  BY <1>2, <2>1, <2>2 DEF SendKept
<1>4. ASSUME NEW t \in Caller, Call(t) PROVE SendKept(s)
  <2>1. Sends(s)' = Sends(s)
    BY <1>4, SendsSame DEF Call, FindId, FindOpen, AcquireIncrement, AcquireCheckId, AcquireCheckReleased,
                EnqueuePacket, kernelVars
  <2>2. CASE \E op \in {"send", "disconnect"}, c \in Slot, w \in 1..MaxUid : FindId(t, op, c, w)
    <3>1. \A u \in Thread : Sender(u, s)' => Sender(u, s) /\ pc'[u] = pc[u]
      BY <1>1, <2>2 DEF FindId
    <3>. QED  BY <1>2, <2>1, <3>1 DEF SendKept
  <2>3. CASE ~\E op \in {"send", "disconnect"}, c \in Slot, w \in 1..MaxUid : FindId(t, op, c, w)
    <3>1. \A u \in Thread : Sender(u, s)' => Sender(u, s) /\ pc'[u] = pc[u]
      BY <1>1, <1>4, <2>3 DEF Call, FindOpen, AcquireIncrement, AcquireCheckId, AcquireCheckReleased, EnqueuePacket
    <3>. QED  BY <1>2, <2>1, <3>1 DEF SendKept
  <2>. QED  BY <2>2, <2>3
<1>5. CASE Environment \/ UNCHANGED vars
  <2>1. pc' = pc /\ cur' = cur
    BY <1>5 DEF Environment, PeerLeaves, KernelCompletes, vars, threadVars
  <2>2. Sends(s)' = Sends(s)
    <3>1. ASSUME NEW c \in Slot, NEW op \in Op, KernelCompletes(c, op) PROVE Sends(s)' = Sends(s)
      BY <1>1, <3>1, CompletedOp DEF Sends, Op
    <3>2. CASE overlapped' = overlapped
      BY <3>2, SendsSame
    <3>. QED  BY <1>5, <3>1, <3>2 DEF Environment, PeerLeaves, vars, kernelVars
  <2>. QED  BY <1>2, <2>1, <2>2 DEF SendKept
<1>. QED  BY <1>3, <1>4, <1>5

\* Every step keeps the send in one place.
LEMMA SendStep ==
  TypeOK /\ ControlOK /\ CountCoversRefs /\ UsersKeepItAlive /\ SlotHasOneOwner /\ SendInv
    /\ [Next]_vars => SendInv'
<1> SUFFICES ASSUME TypeOK, ControlOK, CountCoversRefs, UsersKeepItAlive,
                    \A s \in Slot : OneOwner(s), SendInv, [Next]_vars, NEW s \in Slot
             PROVE  SendOK(s)'
  BY OneOwnerForm DEF SendInv
<1>1. SendOK(s)
  BY DEF SendInv
<1>2. CASE Accept \/ \E t \in Thread : TryReleaseSession(t)
  BY <1>1, <1>2, ReleaseKeepsSend
<1>3. ASSUME NEW t \in Thread, SendPost(t) PROVE SendOK(s)'
  BY <1>1, <1>3, SendPostKeepsOne
<1>4. ASSUME NEW t \in IOThread, Serve(t) PROVE SendOK(s)'
  BY <1>1, <1>4, ServeKeepsOne
<1>5. CASE \/ \E t \in Thread : RecvPost(t) \/ Cancel(t)
           \/ \E t \in Caller : Call(t)
           \/ Environment \/ UNCHANGED vars
  <2>1. SendKept(s)
    BY <1>5, OthersKeepSend
  <2>. QED  BY <1>1, <2>1, KeptIsOK
<1>. QED  BY <1>2, <1>3, <1>4, <1>5 DEF Next, Step

\* A session has one send at a time, with one thread or with the kernel, and
\* none once it is released: for any number of threads, callers with old ids and
\* reuses of the slot, the send OVERLAPPED and PacketBuffer have one user.
THEOREM SendsHaveTheirOverlapped == Spec => []OneSendPerOverlapped
<1>. DEFINE IInv == /\ TypeOK /\ ControlOK /\ CountCoversRefs /\ UsersKeepItAlive
                    /\ SlotHasOneOwner /\ SendInv
<1>1. Init => IInv
  <2> SUFFICES ASSUME Init PROVE UsersKeepItAlive /\ SlotHasOneOwner /\ SendInv
    BY TypeInit, CountInit
  <2>1. UsersKeepItAlive
    BY DEF Init, UsersKeepItAlive, UseLabel
  <2>2. SlotHasOneOwner
    BY DEF Init, SlotHasOneOwner, Releasing, Opening, Thread
  <2>3. SendInv
    BY DEF Init, SendInv, SendOK, Sender, SendLabel, Sends, InFlightOf, Op, Status
  <2>. QED  BY <2>1, <2>2, <2>3
<1>2. IInv /\ [Next]_vars => IInv'
  BY TypeStep, ControlStep, CountStep, UsersStep, SlotStep, SendStep
<1>3. IInv => OneSendPerOverlapped
  <2> SUFFICES ASSUME IInv, NEW s \in Slot
               PROVE  LET p == Posting(s, SendLabel)
                      IN  /\ \A t, u \in p : t = u
                          /\ p # {} \/ released[s] => InFlightOf(s, "send") = 0
                          /\ InFlightOf(s, "send") <= 1
    BY DEF OneSendPerOverlapped, SendLabel
  <2>. QED  BY DEF SendInv, SendOK, Posting, Sender, Sends
<1>. QED  BY <1>1, <1>2, <1>3, PTL DEF Spec

-----------------------------------------------------------------------------
(* Session ids: what a slot is called, and what the application was told.   *)

\* The accept thread has a session with a new id.
NewLabel == {"init_fields", "init_open", "count_up", "associate", "on_connected"}
IsNew(s) == cur[Acceptor] = s /\ pc[Acceptor] \in NewLabel

\* The id is INVALID or the slot's newest, and the newest of a live session;
\* the application is told of no id that has not been given.
IdOK(s) ==
  /\ sessionID[s] \in {0, uidAcc[s]} /\ uidAcc[s] <= MaxUid
  /\ ~released[s] \/ (cur[Acceptor] = s /\ pc[Acceptor] \in {"init_fields", "init_open"}) =>
       sessionID[s] = uidAcc[s] /\ uidAcc[s] # 0
  /\ cur[Acceptor] = s /\ pc[Acceptor] = "init_id" => uidAcc[s] < MaxUid
  /\ \A u \in Nat : <<s, u>> \in joined => u <= uidAcc[s]
  /\ IsNew(s) => <<s, uidAcc[s]>> \notin joined

\* Who changes the ids of a slot.
LEMMA IdFrom ==
  ASSUME TypeOK, [Next]_vars, NEW s \in Slot
  PROVE  \/ sessionID'[s] = sessionID[s] /\ uidAcc'[s] = uidAcc[s]
         \/ /\ InitId /\ cur[Acceptor] = s
            /\ uidAcc'[s] = uidAcc[s] + 1 /\ sessionID'[s] = uidAcc'[s]
         \/ /\ uidAcc'[s] = uidAcc[s] /\ sessionID'[s] = 0
            /\ \E t \in Thread : ReleaseClear(t) /\ cur[t] = s
<1>1. /\ cur \in [Thread -> Slot] /\ sessionID \in [Slot -> Nat] /\ uidAcc \in [Slot -> Nat]
      /\ Acceptor \in Thread
  BY DEF TypeOK, Thread
<1>2. CASE UNCHANGED <<sessionID, uidAcc>>
  BY <1>2
<1>3. CASE InitId
  BY <1>1, <1>3 DEF InitId, appVars
<1>4. ASSUME NEW t \in Thread, ReleaseClear(t)
      PROVE  \/ sessionID'[s] = sessionID[s] /\ uidAcc'[s] = uidAcc[s]
             \/ uidAcc'[s] = uidAcc[s] /\ sessionID'[s] = 0 /\ cur[t] = s
  BY <1>1, <1>4 DEF ReleaseClear
<1>5. CASE ~InitId /\ ~\E t \in Thread : ReleaseClear(t)
  <2>. USE DEF sessionVars
  <2>1. CASE Accept
    BY <1>5, <2>1 DEF Accept, PopSession, PopFails, PopGivesUp, InitFields, InitOpen, CountUp, Associate, OnConnected
  <2>2. ASSUME NEW t \in Thread, TryReleaseSession(t) PROVE UNCHANGED <<sessionID, uidAcc>>
    BY <1>5, <2>2 DEF TryReleaseSession, Decrement, ReadIdToReport, ReleaseCas, ReleaseClose,
       Push, CountDown, OnDisconnected
  <2>3. ASSUME NEW t \in Thread, RecvPost(t) \/ SendPost(t) \/ Cancel(t)
        PROVE  UNCHANGED <<sessionID, uidAcc>>
    BY <2>3 DEF RecvPost, RecvPostIncrement, RecvPostSocket, RecvPostWSARecv,
       SendPost, SendPostCas, SendPostDequeue, SendPostUnset, SendPostIncrement, SendPostSocket,
       SendPostWSASend, Cancel, CancelationIO, CancelIoEx
  <2>4. ASSUME NEW t \in Caller, Call(t) PROVE UNCHANGED <<sessionID, uidAcc>>
    BY <2>4 DEF Call, FindId, FindOpen, AcquireIncrement, AcquireCheckId, AcquireCheckReleased,
       EnqueuePacket
  <2>5. ASSUME NEW t \in IOThread, Serve(t) PROVE UNCHANGED <<sessionID, uidAcc>>
    BY <2>5 DEF Serve, Completion, FinishSending, NetworkRecvCompleted
  <2>6. CASE Environment \/ UNCHANGED vars
    BY <2>6 DEF Environment, PeerLeaves, KernelCompletes, vars
  <2>. QED  BY <1>2, <2>1, <2>2, <2>3, <2>4, <2>5, <2>6 DEF Next, Step
<1>. QED  BY <1>3, <1>4, <1>5

\* Who changes IsReleased.
LEMMA ReleasedFrom ==
  ASSUME TypeOK, [Next]_vars, NEW s \in Slot, released'[s] # released[s]
  PROVE  \/ /\ InitOpen /\ cur[Acceptor] = s /\ ~released'[s]
            /\ UNCHANGED <<sendVars, sessionID>>
         \/ \E t \in Thread : ReleaseCas(t) /\ cur[t] = s /\ ioCount[s] = 0 /\ released'[s]
<1>1. released \in [Slot -> BOOLEAN] /\ cur \in [Thread -> Slot]
  BY DEF TypeOK
<1>2. CASE InitOpen
  BY <1>1, <1>2 DEF InitOpen
<1>3. ASSUME NEW t \in Thread, ReleaseCas(t) PROVE cur[t] = s /\ ioCount[s] = 0 /\ released'[s]
  BY <1>1, <1>3 DEF ReleaseCas
<1>4. CASE ~InitOpen /\ ~\E t \in Thread : ReleaseCas(t)
  <2>1. ~MovesSlot \/ UNCHANGED released
    BY <1>4 DEF MovesSlot, PopSession, PopFails, PopGivesUp, InitId, InitFields, ReleaseClose, ReleaseClear,
       Push, sessionVars
  <2>. QED  BY <2>1, OtherStepsKeepSlots
<1>. QED  BY <1>2, <1>3, <1>4

\* Who calls OnConnected and OnDisconnected.
LEMMA JoinedFrom ==
  ASSUME [Next]_vars
  PROVE  /\ joined' = joined \/ OnConnected
         /\ left' = left \/ \E t \in Thread : OnDisconnected(t) /\ did[t] # 0
<1>. USE DEF appVars
<1>1. CASE Accept
  BY <1>1 DEF Accept, PopSession, PopFails, PopGivesUp, InitId, InitFields, InitOpen, CountUp, Associate,
     OnConnected
<1>2. ASSUME NEW t \in Thread, TryReleaseSession(t)
      PROVE  joined' = joined /\ (left' = left \/ (OnDisconnected(t) /\ did[t] # 0))
  <2>1. CASE OnDisconnected(t)
    <3>1. joined' = joined /\ (did[t] = 0 => left' = left)
      BY <2>1 DEF OnDisconnected
    <3>. QED  BY <2>1, <3>1
  <2>2. CASE ~OnDisconnected(t)
    BY <1>2, <2>2 DEF TryReleaseSession, Decrement, ReadIdToReport, ReleaseCas, ReleaseClose,
       ReleaseClear, Push, CountDown
  <2>. QED  BY <2>1, <2>2
<1>3. ASSUME NEW t \in Thread, RecvPost(t) \/ SendPost(t) \/ Cancel(t)
      PROVE  joined' = joined /\ left' = left
  BY <1>3 DEF RecvPost, RecvPostIncrement, RecvPostSocket, RecvPostWSARecv, SendPost,
     SendPostCas, SendPostDequeue, SendPostUnset, SendPostIncrement, SendPostSocket,
     SendPostWSASend, Cancel, CancelationIO, CancelIoEx
<1>4. ASSUME NEW t \in Caller, Call(t) PROVE joined' = joined /\ left' = left
  BY <1>4 DEF Call, FindId, FindOpen, AcquireIncrement, AcquireCheckId, AcquireCheckReleased,
     EnqueuePacket
<1>5. ASSUME NEW t \in IOThread, Serve(t) PROVE joined' = joined /\ left' = left
  BY <1>5 DEF Serve, Completion, FinishSending, NetworkRecvCompleted
<1>6. CASE Environment \/ UNCHANGED vars
  BY <1>6 DEF Environment, PeerLeaves, KernelCompletes, vars
<1>. QED  BY <1>1, <1>2, <1>3, <1>4, <1>5, <1>6 DEF Next, Step

\* How the accept thread comes to take a slot and to give it a new id.
LEMMA NewFrom ==
  ASSUME TypeOK, ControlOK, [Next]_vars, NEW s \in Slot, cur'[Acceptor] = s
  PROVE  /\ pc'[Acceptor] = "init_id" =>
              PopSession(s) \/ (cur[Acceptor] = s /\ pc[Acceptor] = "init_id" /\ ~InitId)
         /\ pc'[Acceptor] \in NewLabel =>
              cur[Acceptor] = s /\ (InitId \/ (pc[Acceptor] \in NewLabel /\ ~OnConnected))
<1>1. /\ cur \in [Thread -> Slot] /\ pc \in [Thread -> Label] /\ Acceptor \in Thread
      /\ Caller \subseteq Thread /\ IOThread \subseteq Thread
      /\ Acceptor \notin Caller /\ Acceptor \notin IOThread
  BY ThreadAssumption DEF TypeOK, Thread
<1>. DEFINE Old == cur[Acceptor] = s /\ pc[Acceptor] = pc'[Acceptor]
            New == pc'[Acceptor] \notin {"init_id"} \cup NewLabel
<1>. USE DEF Goto, At, NewLabel
<1>2. ASSUME Old PROVE ~InitId /\ ~OnConnected
  BY <1>1, <1>2 DEF InitId, OnConnected
<1>3. CASE Accept
  BY <1>1, <1>3 DEF Accept, PopSession, PopFails, PopGivesUp, InitId, InitFields, InitOpen, CountUp,
     Associate, OnConnected
<1>4. ASSUME NEW t \in Thread, TryReleaseSession(t) PROVE Old \/ New
  BY <1>1, <1>4 DEF TryReleaseSession, Decrement, ReadIdToReport, ReleaseCas, ReleaseClose,
     ReleaseClear, Push, CountDown, OnDisconnected, Return
<1>5. ASSUME NEW t \in Thread, RecvPost(t) \/ SendPost(t) \/ Cancel(t) PROVE Old \/ New
  BY <1>1, <1>5 DEF RecvPost, RecvPostIncrement, RecvPostSocket, RecvPostWSARecv,
     PostFailed, SendPost, SendPostCas, SendPostDequeue, SendPostUnset, SendPostIncrement,
     SendPostSocket, SendPostWSASend, Cancel, CancelationIO, CancelIoEx
<1>6. ASSUME NEW t \in Caller, Call(t) PROVE Old
  BY <1>1, <1>6 DEF Call, FindId, FindOpen, AcquireIncrement, AcquireCheckId,
     AcquireCheckReleased, EnqueuePacket
<1>7. ASSUME NEW t \in IOThread, Serve(t) PROVE Old
  BY <1>1, <1>7 DEF Serve, Completion, FinishSending, NetworkRecvCompleted
<1>8. ASSUME Environment \/ UNCHANGED vars PROVE Old
  BY <1>8 DEF Environment, PeerLeaves, KernelCompletes, vars, threadVars
<1>9. Accept \/ Old \/ New
  BY <1>4, <1>5, <1>6, <1>7, <1>8 DEF Next, Step
<1>. QED  BY <1>2, <1>3, <1>9

\* No other step moves the accept thread from there.
LEMMA OthersLeaveNew ==
  ASSUME TypeOK, [Next]_vars, ~Accept, pc[Acceptor] \in NewLabel
  PROVE  pc'[Acceptor] = pc[Acceptor] /\ cur'[Acceptor] = cur[Acceptor]
<1>1. /\ cur \in [Thread -> Slot] /\ pc \in [Thread -> Label] /\ Acceptor \in Thread
      /\ Caller \subseteq Thread /\ IOThread \subseteq Thread
      /\ Acceptor \notin Caller /\ Acceptor \notin IOThread
  BY ThreadAssumption DEF TypeOK, Thread
<1>. DEFINE Same == pc'[Acceptor] = pc[Acceptor] /\ cur'[Acceptor] = cur[Acceptor]
<1>. USE DEF Goto, At, NewLabel
<1>4. ASSUME NEW t \in Thread, TryReleaseSession(t) PROVE Same
  BY <1>1, <1>4 DEF TryReleaseSession, Decrement, ReadIdToReport, ReleaseCas, ReleaseClose,
     ReleaseClear, Push, CountDown, OnDisconnected, Return
<1>5. ASSUME NEW t \in Thread, RecvPost(t) \/ SendPost(t) \/ Cancel(t) PROVE Same
  BY <1>1, <1>5 DEF RecvPost, RecvPostIncrement, RecvPostSocket, RecvPostWSARecv,
     PostFailed, SendPost, SendPostCas, SendPostDequeue, SendPostUnset, SendPostIncrement,
     SendPostSocket, SendPostWSASend, Cancel, CancelationIO, CancelIoEx
<1>6. ASSUME NEW t \in Caller, Call(t) PROVE Same
  BY <1>1, <1>6 DEF Call, FindId, FindOpen, AcquireIncrement, AcquireCheckId,
     AcquireCheckReleased, EnqueuePacket
<1>7. ASSUME NEW t \in IOThread, Serve(t) PROVE Same
  BY <1>1, <1>7 DEF Serve, Completion, FinishSending, NetworkRecvCompleted
<1>8. ASSUME Environment \/ UNCHANGED vars PROVE Same
  BY <1>8 DEF Environment, PeerLeaves, KernelCompletes, vars, threadVars
<1>. QED  BY <1>4, <1>5, <1>6, <1>7, <1>8 DEF Next, Step

\* How it comes to the rest of NetSession::Init.
LEMMA OpeningFrom ==
  ASSUME TypeOK, ControlOK, [Next]_vars, NEW s \in Slot, cur'[Acceptor] = s,
         pc'[Acceptor] \in {"init_fields", "init_open"}
  PROVE  cur[Acceptor] = s /\ (InitId \/ pc[Acceptor] \in {"init_fields", "init_open"})
<1>1. /\ pc \in [Thread -> Label] /\ Acceptor \in Thread
      /\ cur[Acceptor] = s /\ (InitId \/ (pc[Acceptor] \in NewLabel /\ ~OnConnected))
  BY NewFrom DEF TypeOK, Thread, NewLabel
<1>2. CASE Accept
  BY <1>1, <1>2 DEF Accept, PopSession, PopFails, PopGivesUp, InitFields, InitOpen, CountUp,
     Associate, NewLabel, Goto, At
<1>3. CASE ~Accept
  <2>1. ~InitId
    BY <1>3 DEF Accept
  <2>2. pc[Acceptor] \in NewLabel
    BY <1>1, <2>1
  <2>3. pc'[Acceptor] = pc[Acceptor]
    BY <1>1, <1>3, <2>2, OthersLeaveNew
  <2>. QED  BY <1>1, <2>3
<1>. QED  BY <1>2, <1>3

\* A slot that gets a new id is released.
LEMMA NewIdIsReleased ==
  ASSUME TypeOK, NEW s \in Slot, cur[Acceptor] = s, OneOwner(s), InitId \/ InitFields \/ InitOpen
  PROVE  released[s]
BY DEF InitId, InitFields, InitOpen, At, OneOwner, Opening

\* Every step keeps the ids in order.
LEMMA IdStep ==
  ASSUME TypeOK, ControlOK, [Next]_vars, NEW s \in Slot, OneOwner(s), IdOK(s)
  PROVE  IdOK(s)'
<1>1. /\ cur \in [Thread -> Slot] /\ pc \in [Thread -> Label] /\ Acceptor \in Thread
      /\ uidAcc \in [Slot -> Nat] /\ sessionID \in [Slot -> Nat] /\ released \in [Slot -> BOOLEAN]
      /\ MaxUid \in Nat
  BY BoundAssumption DEF TypeOK, Thread
<1>2. CASE OnConnected /\ cur[Acceptor] = s
  <2>1. /\ pc'[Acceptor] = "recv_inc" /\ UNCHANGED <<sessionID, uidAcc, released>>
        /\ \A u \in Nat : <<s, u>> \in joined' => <<s, u>> \in joined \/ (u = sessionID[s] /\ u # 0)
    BY <1>1, <1>2 DEF OnConnected, Goto, sessionVars
  <2>2. \A u \in Nat : <<s, u>> \in joined' => u <= uidAcc'[s]
    BY <1>1, <2>1 DEF IdOK
  <2>. QED  BY <2>1, <2>2 DEF IdOK, IsNew, NewLabel
<1>3. CASE ~(OnConnected /\ cur[Acceptor] = s)
  <2>1. \A u \in Nat : <<s, u>> \in joined' <=> <<s, u>> \in joined
    BY <1>1, <1>3, JoinedFrom DEF OnConnected
  <2>2. CASE InitId /\ cur[Acceptor] = s
    <3>1. released[s] /\ uidAcc[s] < MaxUid /\ pc[Acceptor] = "init_id"
      BY <2>2, NewIdIsReleased DEF IdOK, InitId, At
    <3>2. uidAcc'[s] = uidAcc[s] + 1 /\ sessionID'[s] = uidAcc'[s] /\ released'[s]
          /\ pc'[Acceptor] = "init_fields"
      BY <1>1, <2>2, <3>1 DEF InitId, Goto
    <3>3. \A u \in Nat : <<s, u>> \in joined' => u <= uidAcc[s]
      BY <2>1 DEF IdOK
    <3>4. <<s, uidAcc'[s]>> \notin joined' /\ uidAcc'[s] # 0 /\ uidAcc'[s] <= MaxUid
      BY <1>1, <3>1, <3>2, <3>3
    <3>5. \A u \in Nat : <<s, u>> \in joined' => u <= uidAcc'[s]
      BY <1>1, <3>2, <3>3
    <3>. QED  BY <3>2, <3>4, <3>5 DEF IdOK
  <2>3. CASE ~(InitId /\ cur[Acceptor] = s)
    <3>1. uidAcc'[s] = uidAcc[s]
      BY <2>3, IdFrom
    <3>2. sessionID'[s] = sessionID[s] \/ (sessionID'[s] = 0 /\ \E t \in Thread : Releasing(t, s) /\ ReleaseClear(t))
      BY <2>3, IdFrom DEF Releasing, ReleaseClear, At
    <3>3. sessionID'[s] \in {0, uidAcc'[s]}
      BY <3>1, <3>2 DEF IdOK
    <3>4. cur'[Acceptor] = s /\ pc'[Acceptor] = "init_id" => uidAcc'[s] < MaxUid
      BY <3>1, NewFrom DEF PopSession, IdOK
    <3>5. cur'[Acceptor] = s /\ pc'[Acceptor] \in NewLabel => IsNew(s)
      BY <2>3, NewFrom DEF IsNew
    <3>6. IsNew(s)' => <<s, uidAcc'[s]>> \notin joined'
      BY <1>1, <2>1, <3>1, <3>5 DEF IsNew, IdOK
    <3>7. ASSUME ~released'[s] \/ (cur'[Acceptor] = s /\ pc'[Acceptor] \in {"init_fields", "init_open"})
          PROVE  sessionID'[s] = uidAcc'[s] /\ uidAcc'[s] # 0
      <4>1. ~released[s] \/ (cur[Acceptor] = s /\ pc[Acceptor] \in {"init_fields", "init_open"})
        <5>1. CASE ~released'[s]
          BY <1>1, <5>1, ReleasedFrom DEF InitOpen, At
        <5>2. CASE cur'[Acceptor] = s /\ pc'[Acceptor] \in {"init_fields", "init_open"}
          BY <2>3, <5>2, OpeningFrom
        <5>. QED  BY <3>7, <5>1, <5>2
      <4>2. \A t \in Thread : ~Releasing(t, s)
        BY <4>1 DEF OneOwner, Opening
      <4>. QED  BY <3>1, <3>2, <4>1, <4>2 DEF IdOK
    <3>. QED  BY <2>1, <3>1, <3>3, <3>4, <3>6, <3>7 DEF IdOK
  <2>. QED  BY <2>2, <2>3
<1>. QED  BY <1>2, <1>3

\* All that the rest needs.
CoreInv == /\ TypeOK /\ ControlOK /\ CountCoversRefs /\ UsersKeepItAlive
           /\ \A s \in Slot : OneOwner(s) /\ IdOK(s)

\* It holds before the first step, and every step keeps it.
LEMMA CoreInit == Init => CoreInv
<1> SUFFICES ASSUME Init PROVE CoreInv
  OBVIOUS
<1>1. UsersKeepItAlive /\ SlotHasOneOwner
  BY DEF Init, UsersKeepItAlive, UseLabel, SlotHasOneOwner, Releasing, Opening, Thread
<1>2. \A s \in Slot : IdOK(s)
  BY BoundAssumption DEF Init, IdOK, IsNew, NewLabel, Thread
<1>. QED  BY <1>1, <1>2, TypeInit, CountInit, OneOwnerForm DEF CoreInv

LEMMA CoreStep == CoreInv /\ [Next]_vars => CoreInv'
<1> SUFFICES ASSUME CoreInv, [Next]_vars PROVE CoreInv'
  OBVIOUS
<1>1. /\ TypeOK /\ ControlOK /\ CountCoversRefs /\ UsersKeepItAlive /\ SlotHasOneOwner
      /\ \A s \in Slot : OneOwner(s) /\ IdOK(s)
  BY OneOwnerForm DEF CoreInv
<1>2. (TypeOK /\ ControlOK /\ CountCoversRefs /\ UsersKeepItAlive /\ SlotHasOneOwner)'
  BY <1>1, TypeStep, ControlStep, CountStep, UsersStep, SlotStep
<1>3. SlotHasOneOwner' <=> (\A s \in Slot : OneOwner(s))'
  BY OneOwnerForm, PTL
<1>4. \A s \in Slot : IdOK(s)'
  BY <1>1, IdStep
<1>. QED  BY <1>2, <1>3, <1>4 DEF CoreInv

-----------------------------------------------------------------------------
(* A session ends for a cause. *)

\* A receive of the session is with the kernel, or has come back with data.
Arriving(s) == overlapped[s]["recv"]["pending"] > 0 \/ overlapped[s]["recv"]["ok"] > 0

\* The labels on the way from one receive to the next, or to CancelationIO.
TokenLabel == {"received", "recv_inc", "recv_socket", "recv_wsa", "cancel"}

\* A live session that nobody has closed and whose client is there is being
\* received from, or about to be closed.
TokenOK(s) ==
  /\ ~socket[s] => closed[s]
  /\ \A t \in Thread : cur[t] = s /\ pc[t] = "cancel_io" => closed[s]
  /\ ~released[s] /\ ~closed[s] /\ peer[s] /\ ~Starting(s) =>
       Arriving(s) \/ \E t \in Thread : cur[t] = s /\ pc[t] \in TokenLabel

\* A session is opened by NetSession::Init only, and its socket goes with it.
LEMMA SocketFrom ==
  ASSUME TypeOK, [Next]_vars, NEW s \in Slot
  PROVE  /\ closed[s] /\ ~closed'[s] => InitFields /\ cur[Acceptor] = s
         /\ ~socket'[s] => ~socket[s] \/ closed'[s]
         /\ peer'[s] => peer[s] \/ (InitFields /\ cur[Acceptor] = s)
<1>1. /\ cur \in [Thread -> Slot] /\ Acceptor \in Thread /\ peer \in [Slot -> BOOLEAN]
      /\ closed \in [Slot -> BOOLEAN] /\ socket \in [Slot -> BOOLEAN]
  BY DEF TypeOK, Thread
<1>2. CASE InitFields
  <2>1. CASE cur[Acceptor] = s
    <3>1. socket'[s]
      BY <1>1, <1>2, <2>1 DEF InitFields
    <3>. QED  BY <1>2, <2>1, <3>1
  <2>2. CASE cur[Acceptor] # s
    <3>1. socket'[s] = socket[s] /\ closed'[s] = closed[s] /\ peer'[s] = peer[s]
      BY <1>1, <1>2, <2>2 DEF InitFields
    <3>. QED  BY <3>1
  <2>. QED  BY <2>1, <2>2
<1>3. ASSUME ~InitFields PROVE peer'[s] => peer[s]
  <2>. USE DEF kernelVars
  <2>1. CASE Accept
    BY <1>1, <1>3, <2>1 DEF Accept, PopSession, PopFails, PopGivesUp, InitId, InitOpen, CountUp, Associate,
       OnConnected
  <2>2. ASSUME NEW t \in Thread, TryReleaseSession(t) PROVE peer'[s] => peer[s]
    BY <2>2 DEF TryReleaseSession, Decrement, ReadIdToReport, ReleaseCas, ReleaseClose,
       ReleaseClear, Push, CountDown, OnDisconnected
  <2>3. ASSUME NEW t \in Thread, RecvPost(t) \/ SendPost(t) \/ Cancel(t)
        PROVE  peer'[s] => peer[s]
    BY <2>3 DEF RecvPost, SendPost, Cancel, RecvPostIncrement, RecvPostSocket, RecvPostWSARecv,
       SendPostCas, SendPostDequeue, SendPostUnset, SendPostIncrement, SendPostSocket,
       SendPostWSASend, CancelationIO, CancelIoEx
  <2>4. ASSUME NEW t \in Caller, Call(t) PROVE peer'[s] => peer[s]
    BY <2>4 DEF Call, FindId, FindOpen, AcquireIncrement, AcquireCheckId, AcquireCheckReleased,
       EnqueuePacket
  <2>5. ASSUME NEW t \in IOThread, Serve(t) PROVE peer'[s] => peer[s]
    BY <2>5 DEF Serve, Completion, FinishSending, NetworkRecvCompleted
  <2>6. CASE Environment \/ UNCHANGED vars
    BY <1>1, <1>3, <2>6 DEF Environment, PeerLeaves, KernelCompletes, vars
  <2>. QED  BY <2>1, <2>2, <2>3, <2>4, <2>5, <2>6 DEF Next, Step
<1>4. ASSUME NEW t \in Thread, ReleaseClose(t)
      PROVE  (closed[s] => closed'[s]) /\ (~socket'[s] => ~socket[s] \/ closed'[s])
  BY <1>1, <1>4 DEF ReleaseClose
<1>5. CASE ~MovesSlot
  <2>1. ~InitFields
    BY <1>5 DEF MovesSlot
  <2>2. socket' = socket /\ (closed' = closed \/ \E c \in Slot : closed' = [closed EXCEPT ![c] = TRUE])
    BY <1>5, OtherStepsKeepSockets
  <2>3. closed[s] => closed'[s]
    BY <1>1, <2>2
  <2>4. peer'[s] => peer[s]
    BY <1>3, <2>1
  <2>. QED  BY <2>2, <2>3, <2>4
<1>6. CASE MovesSlot /\ ~InitFields /\ ~\E t \in Thread : ReleaseClose(t)
  <2>1. closed' = closed /\ socket' = socket
    BY <1>6 DEF MovesSlot, PopSession, PopFails, PopGivesUp, InitId, InitOpen, ReleaseCas, ReleaseClear, Push,
       sessionVars
  <2>2. peer'[s] => peer[s]
    BY <1>3, <1>6
  <2>. QED  BY <2>1, <2>2
<1>7. CASE ~InitFields /\ \E t \in Thread : ReleaseClose(t)
  <2>1. (closed[s] => closed'[s]) /\ (~socket'[s] => ~socket[s] \/ closed'[s])
    BY <1>4, <1>7
  <2>2. peer'[s] => peer[s]
    BY <1>3, <1>7
  <2>. QED  BY <2>1, <2>2
<1>. QED  BY <1>2, <1>5, <1>6, <1>7

\* A thread gets to CancelIoEx by closing the session.
LEMMA CancellingFrom ==
  ASSUME TypeOK, [Next]_vars, NEW u \in Thread, pc'[u] = "cancel_io"
  PROVE  (pc[u] = "cancel_io" /\ cur'[u] = cur[u]) \/ closed'[cur'[u]]
<1>1. /\ cur \in [Thread -> Slot] /\ pc \in [Thread -> Label] /\ closed \in [Slot -> BOOLEAN]
      /\ Caller \subseteq Thread /\ IOThread \subseteq Thread /\ Acceptor \in Thread
  BY DEF TypeOK, Thread
<1>. DEFINE Goal == (pc[u] = "cancel_io" /\ cur'[u] = cur[u]) \/ closed'[cur'[u]]
<1>. USE DEF Goto, At
<1>2. CASE Accept
  BY <1>1, <1>2 DEF Accept, PopSession, PopFails, PopGivesUp, InitId, InitFields, InitOpen, CountUp, Associate,
     OnConnected
<1>3. ASSUME NEW t \in Thread, TryReleaseSession(t) PROVE Goal
  BY <1>1, <1>3 DEF TryReleaseSession, Decrement, ReadIdToReport, ReleaseCas, ReleaseClose,
                    ReleaseClear, Push, CountDown, OnDisconnected, Return
<1>4. ASSUME NEW t \in Thread, RecvPost(t) \/ SendPost(t) \/ Cancel(t) PROVE Goal
  BY <1>1, <1>4 DEF RecvPost, RecvPostIncrement, RecvPostSocket, RecvPostWSARecv,
     PostFailed,
     SendPost, SendPostCas, SendPostDequeue, SendPostUnset, SendPostIncrement,
     SendPostSocket, SendPostWSASend, Cancel, CancelationIO, CancelIoEx
<1>5. ASSUME NEW t \in Caller, Call(t) PROVE Goal
  <2>1. CASE \E op \in {"send", "disconnect"}, c \in Slot, w \in 1..MaxUid : FindId(t, op, c, w)
    BY <1>1, <2>1 DEF FindId
  <2>2. CASE ~\E op \in {"send", "disconnect"}, c \in Slot, w \in 1..MaxUid : FindId(t, op, c, w)
    BY <1>1, <1>5, <2>2 DEF Call, FindOpen, AcquireIncrement, AcquireCheckId, AcquireCheckReleased,
       EnqueuePacket
  <2>. QED  BY <2>1, <2>2
<1>6. ASSUME NEW t \in IOThread, Serve(t) PROVE Goal
  BY <1>1, <1>6 DEF Serve, Completion, FinishSending, NetworkRecvCompleted
<1>7. CASE Environment \/ UNCHANGED vars
  BY <1>7 DEF Environment, PeerLeaves, KernelCompletes, vars, threadVars
<1>. QED  BY <1>2, <1>3, <1>4, <1>5, <1>6, <1>7 DEF Next, Step

\* A thread that has the receive of a healthy session posts the next one, or
\* closes the session.
LEMMA ThreadKeepsToken ==
  ASSUME TypeOK, [Next]_vars, NEW s \in Slot, ~closed[s], socket[s], peer[s],
         NEW u \in Thread, cur[u] = s, pc[u] \in TokenLabel
  PROVE  \/ cur'[u] = s /\ pc'[u] \in TokenLabel
         \/ Arriving(s)'
         \/ closed'[s]
<1>1. /\ cur \in [Thread -> Slot] /\ pc \in [Thread -> Label] /\ closed \in [Slot -> BOOLEAN]
      /\ Caller \subseteq Thread /\ IOThread \subseteq Thread /\ Acceptor \in Thread
      /\ overlapped \in OpsType
  BY DEF TypeOK, Thread, OpsType
<1>. DEFINE Goal == \/ cur'[u] = s /\ pc'[u] \in TokenLabel
                    \/ Arriving(s)'
                    \/ closed'[s]
<1>. USE DEF Goto, At, TokenLabel
<1>2. CASE Accept
  BY <1>1, <1>2 DEF Accept, PopSession, PopFails, PopGivesUp, InitId, InitFields, InitOpen, CountUp, Associate,
     OnConnected
<1>3. ASSUME NEW t \in Thread, TryReleaseSession(t) PROVE Goal
  BY <1>1, <1>3 DEF TryReleaseSession, Decrement, ReadIdToReport, ReleaseCas, ReleaseClose,
                    ReleaseClear, Push, CountDown, OnDisconnected, Return
<1>4. ASSUME NEW t \in Thread, RecvPost(t) PROVE Goal
  <2>1. CASE t # u
    BY <1>1, <1>4, <2>1 DEF RecvPost, RecvPostIncrement, RecvPostSocket, RecvPostWSARecv,
       PostFailed
  <2>2. CASE t = u /\ ~RecvPostWSARecv(t)
    BY <1>1, <1>4, <2>2 DEF RecvPost, RecvPostIncrement, RecvPostSocket
  <2>3. CASE t = u /\ RecvPostWSARecv(t)
    <3>1. Posted(s, "recv")
      BY <1>1, <2>3 DEF RecvPostWSARecv
    <3>. QED  BY <1>1, <3>1, PostedOp DEF Arriving, Op
  <2>. QED  BY <2>1, <2>2, <2>3
<1>5. ASSUME NEW t \in Thread, SendPost(t) \/ Cancel(t) PROVE Goal
  BY <1>1, <1>5 DEF SendPost, SendPostCas, SendPostDequeue, SendPostUnset,
     SendPostIncrement,
     SendPostSocket, SendPostWSASend, PostFailed, Cancel, CancelationIO, CancelIoEx
<1>6. ASSUME NEW t \in Caller, Call(t) PROVE Goal
  BY <1>1, <1>6 DEF Call, FindId, FindOpen, AcquireIncrement, AcquireCheckId,
     AcquireCheckReleased,
                    EnqueuePacket
<1>7. ASSUME NEW t \in IOThread, Serve(t) PROVE Goal
  BY <1>1, <1>7 DEF Serve, Completion, FinishSending, NetworkRecvCompleted
<1>8. CASE Environment \/ UNCHANGED vars
  BY <1>8 DEF Environment, PeerLeaves, KernelCompletes, vars, threadVars
<1>. QED  BY <1>2, <1>3, <1>4, <1>5, <1>6, <1>7, <1>8 DEF Next, Step

\* A receive of a healthy session is completed with data and handed to an IO
\* thread.
LEMMA KernelKeepsToken ==
  ASSUME TypeOK, [Next]_vars, NEW s \in Slot, ~closed[s], peer[s], ~released[s],
         \A t \in Thread : cur[t] = s => pc[t] \notin {"cancel_io", "release_close"},
         Arriving(s)
  PROVE  Arriving(s)' \/ \E t \in Thread : cur'[t] = s /\ pc'[t] \in TokenLabel
<1>1. /\ cur \in [Thread -> Slot] /\ pc \in [Thread -> Label]
      /\ Caller \subseteq Thread /\ IOThread \subseteq Thread
      /\ overlapped \in OpsType /\ "recv" \in Op /\ {"pending", "ok"} \subseteq Status
  BY DEF TypeOK, Thread, OpsType, Op, Status
<1>. DEFINE Goal == Arriving(s)' \/ \E t \in Thread : cur'[t] = s /\ pc'[t] \in TokenLabel
<1>2. CASE overlapped'[s]["recv"] = overlapped[s]["recv"]
  BY <1>2 DEF Arriving
<1>3. ASSUME NEW t \in Thread, ReleaseClose(t) \/ CancelIoEx(t) PROVE Goal
  <2>1. cur[t] \in Slot \ {s} /\ Abort(cur[t])
    BY <1>1, <1>3 DEF ReleaseClose, CancelIoEx, At
  <2>. QED  BY <1>1, <1>2, <2>1, AbortedOps
<1>4. ASSUME NEW c \in Slot, NEW op \in Op, Posted(c, op) PROVE Goal
  <2>1. \A m \in Status : overlapped[s]["recv"][m] \in Nat /\ overlapped'[s]["recv"][m] >= overlapped[s]["recv"][m]
    BY <1>1, <1>4, PostedOp, FlightType
  <2>2. overlapped' \in OpsType
    BY <1>1, <1>4, PostedOp
  <2>3. \A m \in Status : overlapped'[s]["recv"][m] \in Nat
    BY <1>1, <2>2 DEF OpsType
  <2>. QED  BY <1>1, <2>1, <2>3 DEF Arriving
<1>5. ASSUME NEW t \in Thread, RecvPostWSARecv(t) \/ SendPostWSASend(t) PROVE Goal
  <2>1. CASE overlapped' = overlapped
    BY <1>2, <2>1
  <2>2. CASE Posted(cur[t], "recv") \/ Posted(cur[t], "send")
    BY <1>1, <1>4, <2>2 DEF Op
  <2>. QED  BY <1>5, <2>1, <2>2 DEF RecvPostWSARecv, SendPostWSASend
<1>6. ASSUME NEW t \in IOThread, NEW c \in Slot, NEW op \in Op, NEW st \in Status, Completion(t, c, op, st)
      PROVE  Goal
  <2>1. CASE c = s /\ op = "recv" /\ st = "ok"
    BY <1>1, <1>6, <2>1 DEF Completion, Goto, TokenLabel
  <2>2. CASE ~(c = s /\ op = "recv" /\ st = "ok")
    <3>1. /\ overlapped' = [overlapped EXCEPT ![c][op][st] = overlapped[c][op][st] - 1]
          /\ overlapped[c][op][st] > 0 /\ st # "pending"
      BY <1>6 DEF Completion
    <3>2. \A m \in {"pending", "ok"} : overlapped'[s]["recv"][m] = overlapped[s]["recv"][m]
      BY <1>1, <2>2, <3>1, TakenOp
    <3>. QED  BY <3>2 DEF Arriving
  <2>. QED  BY <2>1, <2>2
<1>7. ASSUME NEW c \in Slot, NEW op \in Op, KernelCompletes(c, op) PROVE Goal
  <2>1. CASE c = s /\ op = "recv"
    BY <1>1, <1>7, <2>1, CompletedOp DEF Arriving
  <2>2. CASE ~(c = s /\ op = "recv")
    BY <1>1, <1>2, <1>7, <2>2, CompletedOp
  <2>. QED  BY <2>1, <2>2
<1>8. CASE /\ ~\E t \in Thread : \/ ReleaseClose(t) \/ CancelIoEx(t)
                                 \/ RecvPostWSARecv(t) \/ SendPostWSASend(t)
           /\ ~\E t \in IOThread, c \in Slot, op \in Op, st \in Status : Completion(t, c, op, st)
           /\ ~\E c \in Slot, op \in Op : KernelCompletes(c, op)
  <2>1. overlapped' = overlapped
    <3>. USE DEF kernelVars
    <3>1. CASE Accept
      BY <3>1 DEF Accept, PopSession, PopFails, PopGivesUp, InitId, InitFields, InitOpen, CountUp, Associate,
         OnConnected
    <3>2. ASSUME NEW t \in Thread, TryReleaseSession(t) PROVE overlapped' = overlapped
      BY <1>8, <3>2 DEF TryReleaseSession, Decrement, ReadIdToReport, ReleaseCas, ReleaseClear,
         Push, CountDown, OnDisconnected
    <3>3. ASSUME NEW t \in Thread, RecvPost(t) \/ SendPost(t) \/ Cancel(t)
          PROVE  overlapped' = overlapped
      BY <1>8, <3>3 DEF RecvPost, SendPost, Cancel, RecvPostIncrement, RecvPostSocket,
         SendPostCas, SendPostDequeue, SendPostUnset, SendPostIncrement, SendPostSocket,
         CancelationIO
    <3>4. ASSUME NEW t \in Caller, Call(t) PROVE overlapped' = overlapped
      BY <3>4 DEF Call, FindId, FindOpen, AcquireIncrement, AcquireCheckId, AcquireCheckReleased,
         EnqueuePacket
    <3>5. ASSUME NEW t \in IOThread, Serve(t) PROVE overlapped' = overlapped
      BY <1>8, <3>5 DEF Serve, FinishSending, NetworkRecvCompleted
    <3>6. CASE Environment \/ UNCHANGED vars
      BY <1>8, <3>6 DEF Environment, PeerLeaves, vars
    <3>. QED  BY <3>1, <3>2, <3>3, <3>4, <3>5, <3>6 DEF Next, Step
  <2>. QED  BY <1>2, <2>1
<1>. QED  BY <1>3, <1>5, <1>6, <1>7, <1>8

\* The accept thread ends the start of a live session by posting its first
\* receive.
LEMMA StartingTo ==
  ASSUME TypeOK, ControlOK, [Next]_vars, NEW s \in Slot, OneOwner(s), ~released[s],
         Starting(s), ~Starting(s)'
  PROVE  cur[Acceptor] = s /\ pc[Acceptor] = "recv_inc"
<1> SUFFICES ASSUME <<s, uidAcc[s]>> \notin joined PROVE FALSE
  BY DEF Starting
<1>1. /\ cur \in [Thread -> Slot] /\ pc \in [Thread -> Label] /\ Acceptor \in Thread
      /\ uidAcc \in [Slot -> Nat]
  BY DEF TypeOK, Thread
<1>2. <<s, uidAcc'[s]>> \in joined'
  BY DEF Starting
<1>3. ~(InitId /\ cur[Acceptor] = s)
  BY NewIdIsReleased
<1>4. uidAcc'[s] = uidAcc[s]
  BY <1>3, IdFrom
<1>5. OnConnected /\ cur[Acceptor] = s
  BY <1>1, <1>2, <1>4, JoinedFrom DEF OnConnected
<1>6. cur'[Acceptor] = s /\ pc'[Acceptor] = "recv_inc"
  BY <1>1, <1>5 DEF OnConnected, Goto
<1>. QED  BY <1>6 DEF Starting

\* Every step keeps a healthy session received from.
LEMMA TokenStep ==
  ASSUME TypeOK, ControlOK, UsersKeepItAlive, [Next]_vars, NEW s \in Slot,
         OneOwner(s), IdOK(s), TokenOK(s)
  PROVE  TokenOK(s)'
<1>1. /\ cur \in [Thread -> Slot] /\ pc \in [Thread -> Label] /\ Acceptor \in Thread
      /\ released \in [Slot -> BOOLEAN] /\ released' \in [Slot -> BOOLEAN]
      /\ closed \in [Slot -> BOOLEAN] /\ closed' \in [Slot -> BOOLEAN]
      /\ socket \in [Slot -> BOOLEAN] /\ socket' \in [Slot -> BOOLEAN]
      /\ peer \in [Slot -> BOOLEAN] /\ peer' \in [Slot -> BOOLEAN]
  BY TypeStep DEF TypeOK, Thread
<1>2. ~socket'[s] => closed'[s]
  <2>1. CASE InitFields /\ cur[Acceptor] = s
    BY <1>1, <2>1 DEF InitFields
  <2>2. CASE ~(InitFields /\ cur[Acceptor] = s)
    BY <1>1, <2>2, SocketFrom DEF TokenOK
  <2>. QED  BY <2>1, <2>2
<1>3. ASSUME NEW t \in Thread, cur'[t] = s, pc'[t] = "cancel_io", ~closed'[s] PROVE FALSE
  <2>1. pc[t] = "cancel_io" /\ cur[t] = s
    BY <1>3, CancellingFrom
  <2>2. closed[s] /\ ~released[s]
    BY <2>1 DEF TokenOK, UsersKeepItAlive, UseLabel, ControlOK, AcceptLabel, ReleaseLabel
  <2>3. InitFields /\ cur[Acceptor] = s
    BY <1>3, <2>2, SocketFrom
  <2>. QED  BY <2>2, <2>3 DEF InitFields, At, OneOwner, Opening
<1>4. ASSUME ~released'[s], ~closed'[s], peer'[s], ~Starting(s)'
      PROVE  Arriving(s)' \/ \E t \in Thread : cur'[t] = s /\ pc'[t] \in TokenLabel
  <2>1. ~(InitFields /\ cur[Acceptor] = s)
    BY <1>1, <1>4, NewIdIsReleased DEF InitFields
  <2>2. ~(InitOpen /\ cur[Acceptor] = s)
    <3> SUFFICES ASSUME InitOpen, cur[Acceptor] = s PROVE FALSE
      OBVIOUS
    <3>1. cur'[Acceptor] = s /\ pc'[Acceptor] = "count_up"
      BY <1>1 DEF InitOpen, Goto
    <3>2. <<s, uidAcc'[s]>> \notin joined'
      BY <3>1, IdStep DEF IdOK, IsNew, NewLabel
    <3>. QED  BY <1>4, <3>2 DEF Starting
  <2>3. ~released[s]
    BY <1>1, <1>4, <2>2, ReleasedFrom
  <2>4. ~closed[s] /\ peer[s] /\ socket[s]
    BY <1>1, <1>4, <2>1, SocketFrom DEF TokenOK
  <2>5. \A t \in Thread : cur[t] = s => pc[t] \notin {"cancel_io", "release_close"}
    BY <2>3, <2>4 DEF TokenOK, OneOwner, Releasing
  <2>6. ASSUME NEW t \in Thread, cur[t] = s, pc[t] \in TokenLabel
        PROVE  Arriving(s)' \/ \E u \in Thread : cur'[u] = s /\ pc'[u] \in TokenLabel
    BY <1>4, <2>3, <2>4, <2>6, ThreadKeepsToken
  <2>7. CASE Starting(s)
    BY <1>1, <1>4, <2>3, <2>6, <2>7, StartingTo DEF TokenLabel
  <2>8. CASE ~Starting(s)
    <3>1. Arriving(s) \/ \E t \in Thread : cur[t] = s /\ pc[t] \in TokenLabel
      BY <2>3, <2>4, <2>8 DEF TokenOK
    <3>2. CASE Arriving(s)
      BY <2>3, <2>4, <2>5, <3>2, KernelKeepsToken
    <3>. QED  BY <2>6, <3>1, <3>2
  <2>. QED  BY <2>7, <2>8
<1>. QED  BY <1>2, <1>3, <1>4 DEF TokenOK

\* Who takes the count to zero leaves neither a receive nor a thread that has one.
LEMMA NoTokenAtZero ==
  ASSUME TypeOK, ControlOK, CountCoversRefs, NEW s \in Slot, TokenOK(s), ioCount[s] = 0,
         ~released[s], ~closed[s], peer[s]
  PROVE  Starting(s)
<1> SUFFICES ASSUME ~Starting(s) PROVE FALSE
  OBVIOUS
<1>1. overlapped \in OpsType /\ Cardinality(Refs(s)) \in Nat
  BY RefsFinite, FS_CardinalityType DEF TypeOK, OpsType
<1>2. InFlight(s) \in Nat /\ Cardinality(Refs(s)) = 0 /\ InFlight(s) = 0
  <2>1. InFlight(s) \in Nat
    BY <1>1, FlightType
  <2>2. 0 >= Cardinality(Refs(s)) + InFlight(s)
    BY DEF CountCoversRefs
  <2>. QED  BY <1>1, <2>1, <2>2
<1>3. CASE Arriving(s)
  <2>1. \A op \in Op : InFlightOf(s, op) \in Nat /\ \A st \in Status : overlapped[s][op][st] \in Nat
    BY <1>1, FlightType
  <2>2. InFlight(s) = InFlightOf(s, "recv") + InFlightOf(s, "send")
    BY DEF InFlight
  <2>3. InFlightOf(s, "recv") = 0
    BY <1>2, <2>1, <2>2 DEF Op
  <2>4. overlapped[s]["recv"]["pending"] = 0 /\ overlapped[s]["recv"]["ok"] = 0
    <3>1. ASSUME NEW a \in Nat, NEW b \in Nat, NEW c \in Nat, NEW d \in Nat, a + b + c + d = 0
          PROVE  a = 0 /\ b = 0
      BY <3>1
    <3>2. \A st \in {"pending", "ok", "zero", "fail"} : overlapped[s]["recv"][st] \in Nat
      BY <2>1 DEF Op, Status
    <3>. QED  BY <2>3, <3>1, <3>2 DEF InFlightOf
  <2>. QED  BY <1>3, <2>4 DEF Arriving
<1>4. ASSUME NEW t \in Thread, cur[t] = s, pc[t] \in TokenLabel PROVE FALSE
  <2>1. OwnRef(t) \/ PostRef(t)
    BY <1>4 DEF OwnRef, PostRef, UseLabel, PostLabel, TokenLabel, ControlOK, AcceptLabel,
                ReleaseLabel, Starting
  <2>2. Refs(s) # {}
    BY <1>4, <2>1, OwnOf
  <2>. QED  BY <1>2, <2>2, RefsFinite, FS_EmptySet
<1>. QED  BY <1>3, <1>4 DEF TokenOK

\* A session ends because it was closed, because its client has gone, or because
\* the accept thread is not done with it: for every pool, every number of threads
\* and every use of old ids.  No early return and no error path of NetCore loses
\* the receive of a healthy session, and no caller takes its count to zero.
THEOREM SessionsEndForACause == Spec => ReleasedForCause
<1>. DEFINE IInv == CoreInv /\ \A s \in Slot : TokenOK(s)
<1>1. Init => IInv
  <2>1. Init => \A s \in Slot : TokenOK(s)
    BY DEF Init, TokenOK, Thread
  <2>. QED  BY <2>1, CoreInit
<1>2. IInv /\ [Next]_vars => IInv'
  <2> SUFFICES ASSUME IInv, [Next]_vars PROVE IInv'
    OBVIOUS
  <2>1. \A s \in Slot : TokenOK(s)'
    BY TokenStep DEF CoreInv
  <2>. QED  BY <2>1, CoreStep
<1>3. IInv /\ [Next]_vars
        => [\A s \in Slot : released'[s] /\ ~released[s] =>
              closed[s] \/ ~peer[s] \/ Starting(s)]_vars
  <2> SUFFICES ASSUME IInv, [Next]_vars, NEW s \in Slot, released'[s], ~released[s],
                      ~closed[s], peer[s]
               PROVE  Starting(s)
    OBVIOUS
  <2>1. TypeOK /\ ControlOK /\ CountCoversRefs
    BY DEF CoreInv
  <2>2. ioCount[s] = 0
    BY <2>1, ReleasedFrom
  <2>. QED  BY <2>1, <2>2, NoTokenAtZero
<1>. QED  BY <1>1, <1>2, <1>3, PTL DEF Spec, ReleasedForCause

-----------------------------------------------------------------------------
(* Which exceptions are possible. *)

\* A thread that is about to decrement the count has a reference.
LEMMA CountAtDecrement ==
  ASSUME TypeOK, CountCoversRefs, NEW t \in Thread, pc[t] = "dec"
  PROVE  ioCount[cur[t]] >= 1
<1>1. cur[t] \in Slot /\ ioCount[cur[t]] \in Int /\ overlapped \in OpsType
  BY DEF TypeOK, OpsType
<1>2. OwnRef(t) \/ PostRef(t)
  BY DEF OwnRef, PostRef
<1>3. Cardinality(Refs(cur[t])) # 0 /\ Cardinality(Refs(cur[t])) \in Nat
  BY <1>1, <1>2, OwnOf, RefsFinite, FS_EmptySet, FS_CardinalityType
<1>4. InFlight(cur[t]) \in Nat
  BY <1>1, FlightType
<1>5. ioCount[cur[t]] >= Cardinality(Refs(cur[t])) + InFlight(cur[t])
  BY <1>1 DEF CountCoversRefs
<1>. QED  BY <1>1, <1>3, <1>4, <1>5

\* Once an exception has left a thread nothing of the process moves.
LEMMA StoppedSteps ==
  ASSUME [Next]_vars, ~Running
  PROVE  UNCHANGED <<pc, cur, sendQueue, released, unused>>
<1>. DEFINE Goal == UNCHANGED <<pc, cur, sendQueue, released, unused>>
<1>1. ASSUME NEW t, NEW l, At(t, l) PROVE FALSE
  BY <1>1 DEF At
<1>2. ~Accept
  BY <1>1 DEF Accept, PopSession, PopFails, PopGivesUp, InitId, InitFields, InitOpen, CountUp, Associate,
     OnConnected
<1>3. ASSUME NEW t \in Thread, Step(t) PROVE FALSE
  BY <1>1, <1>3 DEF Step, TryReleaseSession, Decrement, ReadIdToReport, ReleaseCas, ReleaseClose,
     ReleaseClear, Push, CountDown, OnDisconnected, RecvPost, RecvPostIncrement, RecvPostSocket,
     RecvPostWSARecv, SendPost, SendPostCas, SendPostDequeue, SendPostUnset, SendPostIncrement,
     SendPostSocket, SendPostWSASend, Cancel, CancelationIO, CancelIoEx
<1>4. ASSUME NEW t \in Caller, Call(t) PROVE FALSE
  BY <1>1, <1>4 DEF Call, FindId, FindOpen, AcquireIncrement, AcquireCheckId, AcquireCheckReleased,
     EnqueuePacket
<1>5. ASSUME NEW t \in IOThread, Serve(t) PROVE FALSE
  BY <1>1, <1>5 DEF Serve, Completion, FinishSending, NetworkRecvCompleted
<1>6. CASE Environment \/ UNCHANGED vars
  BY <1>6 DEF Environment, PeerLeaves, KernelCompletes, vars, threadVars, managerVars, sessionVars, sendVars
<1>. QED  BY <1>2, <1>3, <1>4, <1>5, <1>6 DEF Next

\* DecrementIO does not take the count below zero and NetSession::Init finds the
\* session released: ReadySending throws, and NetSessionManager::TryReleaseSession.
LEMMA ThrowFrom ==
  ASSUME TypeOK, ControlOK, CountCoversRefs, SlotHasOneOwner, [Next]_vars, Running,
         NEW u \in Thread
  PROVE  /\ pc'[u] = "threw" =>
              /\ pc[u] = "send_size" /\ Len(sendQueue[cur[u]]) > MaxPerSend
              /\ UNCHANGED <<sendQueue, cur>>
         /\ pc'[u] = "refused" =>
              /\ u # Acceptor /\ pc[u] = "push"
              /\ pc[Acceptor] = "pop_failed" /\ pc' = [pc EXCEPT ![u] = "refused"]
              /\ released[cur[u]] /\ NoneCounted /\ UNCHANGED <<cur, released, unused>>
<1>1. /\ cur \in [Thread -> Slot] /\ pc \in [Thread -> Label] /\ Acceptor \in Thread
      /\ Caller \subseteq Thread /\ IOThread \subseteq Thread
      /\ pc[u] \notin {"threw", "refused"}
  BY DEF TypeOK, Thread, Running
<1>. DEFINE Neither == pc'[u] \notin {"threw", "refused"}
            Overflow == pc'[u] = "threw" => /\ pc[u] = "send_size" /\ Len(sendQueue[cur[u]]) > MaxPerSend
                                            /\ UNCHANGED <<sendQueue, cur>>
            Refusal == pc'[u] = "refused" =>
              /\ u # Acceptor /\ pc[u] = "push"
              /\ pc[Acceptor] = "pop_failed" /\ pc' = [pc EXCEPT ![u] = "refused"]
              /\ released[cur[u]] /\ NoneCounted /\ UNCHANGED <<cur, released, unused>>
<1>. USE DEF Goto, At
<1>2. ASSUME InitId PROVE Neither
  <2>1. cur[Acceptor] \in Slot /\ Opening(cur[Acceptor])
    BY <1>1, <1>2 DEF InitId, Opening
  <2>2. OneOwner(cur[Acceptor])
    BY <2>1, OneOwnerForm
  <2>3. released[cur[Acceptor]]
    BY <2>1, <2>2 DEF OneOwner
  <2>. QED  BY <1>1, <1>2, <2>3 DEF InitId
<1>3. ASSUME NEW t \in Thread, Decrement(t) PROVE Neither
  <2>1. ioCount[cur[t]] >= 1 /\ ioCount[cur[t]] \in Int
    BY <1>1, <1>3, CountAtDecrement DEF Decrement, TypeOK
  <2>2. pc'[t] \notin {"threw", "refused"}
    BY <1>1, <1>3, <2>1 DEF Decrement, Return
  <2>. QED  BY <1>1, <1>3, <2>2 DEF Decrement, Return
<1>4. ASSUME NEW t \in Thread, SendPostDequeue(t) PROVE Overflow /\ pc'[u] # "refused"
  BY <1>1, <1>4 DEF SendPostDequeue, sendVars
<1>5. ASSUME NEW t \in Thread, Push(t) PROVE Refusal /\ pc'[u] # "threw"
  <2>1. CASE u # t
    BY <1>1, <1>5, <2>1 DEF Push
  <2>2. CASE u = t
    <3>1. cur[u] \in Slot /\ Releasing(u, cur[u])
      BY <1>1, <1>5, <2>2 DEF Push, Releasing
    <3>2. OneOwner(cur[u])
      BY <3>1, OneOwnerForm
    <3>3. released[cur[u]]
      BY <3>1, <3>2 DEF OneOwner
    <3>. QED  BY <1>1, <1>5, <2>2, <3>3 DEF Push, sessionVars
  <2>. QED  BY <2>1, <2>2
<1>6. ASSUME Accept, ~InitId PROVE Neither
  BY <1>1, <1>6 DEF Accept, PopSession, PopFails, PopGivesUp, InitFields, InitOpen, CountUp, Associate,
     OnConnected
<1>7. ASSUME NEW t \in Thread, TryReleaseSession(t), ~Decrement(t), ~Push(t) PROVE Neither
  BY <1>1, <1>7 DEF TryReleaseSession, ReadIdToReport, ReleaseCas, ReleaseClose,
                    ReleaseClear, CountDown, OnDisconnected, Return
<1>8. ASSUME NEW t \in Thread, RecvPost(t) \/ SendPost(t) \/ Cancel(t), ~SendPostDequeue(t)
      PROVE  Neither
  BY <1>1, <1>8 DEF RecvPost, RecvPostIncrement, RecvPostSocket, RecvPostWSARecv,
     PostFailed,
     SendPost, SendPostCas, SendPostUnset, SendPostIncrement,
     SendPostSocket, SendPostWSASend, Cancel, CancelationIO, CancelIoEx
<1>9. ASSUME NEW t \in Caller, Call(t) PROVE Neither
  BY <1>1, <1>9 DEF Call, FindId, FindOpen, AcquireIncrement, AcquireCheckId,
     AcquireCheckReleased, EnqueuePacket
<1>10. ASSUME NEW t \in IOThread, Serve(t) PROVE Neither
  BY <1>1, <1>10 DEF Serve, Completion, FinishSending, NetworkRecvCompleted
<1>11. ASSUME Environment \/ UNCHANGED vars PROVE Neither
  BY <1>1, <1>11 DEF Environment, PeerLeaves, KernelCompletes, vars, threadVars
<1>. QED
  <2>. HIDE DEF Neither, Overflow, Refusal
  <2>1. Neither \/ (Overflow /\ pc'[u] # "refused") \/ (Refusal /\ pc'[u] # "threw")
    BY <1>2, <1>3, <1>4, <1>5, <1>6, <1>7, <1>8, <1>9, <1>10, <1>11 DEF Next, Step
  <2>. QED  BY <2>1 DEF Neither, Overflow, Refusal

\* Every step keeps the causes.
LEMMA ThrowStep ==
  TypeOK /\ ControlOK /\ CountCoversRefs /\ SlotHasOneOwner /\ ThrowsForCause /\ [Next]_vars
    => ThrowsForCause'
<1> SUFFICES ASSUME TypeOK, ControlOK, CountCoversRefs, SlotHasOneOwner, ThrowsForCause, [Next]_vars,
                    NEW t \in Thread
             PROVE  /\ pc'[t] = "threw" => Len(sendQueue'[cur'[t]]) > MaxPerSend
                    /\ pc'[t] = "refused" =>
                         pc'[Acceptor] = "pop_failed" /\ released'[cur'[t]] /\ NoneCounted'
  BY DEF ThrowsForCause
<1>1. CASE ~Running
  BY <1>1, StoppedSteps DEF ThrowsForCause, NoneCounted
<1>2. CASE Running
  <2>1. pc \in [Thread -> Label] /\ Acceptor \in Thread
    BY DEF TypeOK, Thread
  <2>2. pc'[t] = "refused" => NoneCounted'
    <3> SUFFICES ASSUME pc'[t] = "refused" PROVE NoneCounted'
      OBVIOUS
    <3>1. /\ NoneCounted /\ pc' = [pc EXCEPT ![t] = "refused"] /\ pc[t] # "count_down"
          /\ UNCHANGED <<cur, unused>>
      BY <1>2, <2>1, ThrowFrom
    <3>. QED  BY <2>1, <3>1 DEF NoneCounted
  <2>. QED  BY <1>2, <2>1, <2>2, ThrowFrom
<1>. QED  BY <1>1, <1>2

\* What it needs.
ThrowInv == TypeOK /\ ControlOK /\ CountCoversRefs /\ SlotHasOneOwner /\ ThrowsForCause

LEMMA ThrowInit == Init => ThrowInv
<1>1. Init => SlotHasOneOwner /\ ThrowsForCause
  BY DEF Init, SlotHasOneOwner, Releasing, Opening, Thread, ThrowsForCause
<1>. QED  BY <1>1, TypeInit, CountInit DEF ThrowInv

LEMMA ThrowInvStep == ThrowInv /\ [Next]_vars => ThrowInv'
  BY TypeStep, ControlStep, CountStep, SlotStep, ThrowStep DEF ThrowInv

\* An exception that has ended the process was ReadySending's, which found more
\* packets than PacketBuffer holds, or that of a refused Push: a session released
\* while nothing counted is in the pool and the accept thread within a TryPop that
\* fails.
\* DecrementIO never takes the count below zero, NetSession::Init always finds the
\* session released.
THEOREM ExceptionsHaveACause == Spec => []ThrowsForCause
<1>1. ThrowInv => ThrowsForCause
  BY DEF ThrowInv
<1>. QED  BY <1>1, ThrowInit, ThrowInvStep, PTL DEF Spec

\* The callers that are going to append a packet.
AddressLabel == {"find", "inc", "check_id", "check_released", "enqueue"}
Appending == {t \in Caller : pc[t] \in AddressLabel}

\* Each call that found its session has a packet queued, or is on the way.
QueuesBounded == \A s \in Slot : Len(sendQueue[s]) + Cardinality(Appending) =< calls

\* How a step changes the packets that are queued and the callers on the way.
LEMMA AppendingFrom ==
  ASSUME TypeOK, [Next]_vars
  PROVE  \/ \E t \in Caller : EnqueuePacket(t)
         \/ /\ sendQueue' = sendQueue
            /\ calls' = calls + 1
            /\ \E t \in Caller : Appending' \subseteq Appending \cup {t}
         \/ /\ \A s \in Slot : sendQueue'[s] \in {<<>>, sendQueue[s]}
            /\ calls' = calls
            /\ Appending' \subseteq Appending
<1>1. /\ cur \in [Thread -> Slot] /\ pc \in [Thread -> Label]
      /\ sendQueue \in [Slot -> Seq(Nat)]
      /\ Caller \subseteq Thread /\ IOThread \subseteq Thread /\ Acceptor \in Thread
      /\ Acceptor \notin Caller /\ IOThread \cap Caller = {}
  BY ThreadAssumption DEF TypeOK, Thread
<1>. DEFINE Goal == /\ \A s \in Slot : sendQueue'[s] \in {<<>>, sendQueue[s]}
                    /\ calls' = calls
                    /\ Appending' \subseteq Appending
<1>. USE DEF Goto, At, Appending, AddressLabel, appVars, sendVars
<1>2. CASE Accept
  <2>1. \A t \in Caller : pc'[t] = pc[t]
    BY <1>1, <1>2 DEF Accept, PopSession, PopFails, PopGivesUp, InitId, InitFields, InitOpen, CountUp, Associate,
       OnConnected
  <2>2. calls' = calls
    BY <1>2 DEF Accept, PopSession, PopFails, PopGivesUp, InitId, InitFields, InitOpen, CountUp, Associate,
       OnConnected
  <2>3. sendQueue' = sendQueue \/ InitFields
    BY <1>2 DEF Accept, PopSession, PopFails, PopGivesUp, InitId, InitOpen, CountUp, Associate, OnConnected
  <2>4. \A s \in Slot : sendQueue'[s] \in {<<>>, sendQueue[s]}
    BY <1>1, <2>3 DEF InitFields
  <2>. QED  BY <2>1, <2>2, <2>4
<1>3. ASSUME NEW t \in Thread, TryReleaseSession(t) PROVE Goal
  <2>1. /\ calls' = calls
        /\ \A u \in Thread : pc'[u] \in AddressLabel => pc[u] \in AddressLabel
    BY <1>1, <1>3 DEF TryReleaseSession, Decrement, ReadIdToReport, ReleaseCas, ReleaseClose,
       ReleaseClear, Push, CountDown, OnDisconnected, Return
  <2>2. sendQueue' = sendQueue \/ ReleaseClear(t)
    BY <1>3 DEF TryReleaseSession, Decrement, ReadIdToReport, ReleaseCas, ReleaseClose,
       Push, CountDown, OnDisconnected
  <2>3. \A s \in Slot : sendQueue'[s] \in {<<>>, sendQueue[s]}
    BY <1>1, <2>2 DEF ReleaseClear
  <2>. QED  BY <1>1, <2>1, <2>3
<1>4. ASSUME NEW t \in Thread, RecvPost(t) \/ SendPost(t) \/ Cancel(t) PROVE Goal
  <2>1. /\ calls' = calls
        /\ \A u \in Thread : pc'[u] \in AddressLabel => pc[u] \in AddressLabel
    BY <1>1, <1>4 DEF RecvPost, RecvPostIncrement, RecvPostSocket, RecvPostWSARecv, PostFailed,
       SendPost, SendPostCas, SendPostDequeue, SendPostUnset, SendPostIncrement,
       SendPostSocket, SendPostWSASend, Cancel, CancelationIO, CancelIoEx
  <2>2. sendQueue' = sendQueue \/ SendPostDequeue(t)
    BY <1>4 DEF RecvPost, RecvPostIncrement, RecvPostSocket, RecvPostWSARecv, SendPost,
       SendPostCas, SendPostUnset, SendPostIncrement, SendPostSocket, SendPostWSASend,
       Cancel, CancelationIO, CancelIoEx
  <2>3. \A s \in Slot : sendQueue'[s] \in {<<>>, sendQueue[s]}
    BY <1>1, <2>2 DEF SendPostDequeue
  <2>. QED  BY <1>1, <2>1, <2>3
<1>5. ASSUME NEW t \in Caller, NEW op \in {"send", "disconnect"}, NEW s \in Slot,
             NEW u \in 1..MaxUid, FindId(t, op, s, u)
      PROVE  /\ sendQueue' = sendQueue
             /\ calls' = calls + 1
             /\ Appending' \subseteq Appending \cup {t}
  BY <1>1, <1>5 DEF FindId
<1>6. ASSUME NEW t \in Caller, FindOpen(t) \/ AcquireIncrement(t) \/ AcquireCheckId(t)
                               \/ AcquireCheckReleased(t)
      PROVE  Goal
  <2>1. /\ calls' = calls /\ sendQueue' = sendQueue
        /\ pc[t] \in AddressLabel
        /\ \A u \in Thread \ {t} : pc'[u] = pc[u]
    BY <1>1, <1>6 DEF FindOpen, AcquireIncrement, AcquireCheckId, AcquireCheckReleased
  <2>. QED  BY <1>1, <2>1
<1>7. ASSUME NEW t \in IOThread, Serve(t) PROVE Goal
  <2>1. /\ calls' = calls /\ sendQueue' = sendQueue
        /\ \A u \in Caller : pc'[u] = pc[u]
    BY <1>1, <1>7 DEF Serve, Completion, FinishSending, NetworkRecvCompleted
  <2>. QED  BY <1>1, <2>1
<1>8. CASE Environment \/ UNCHANGED vars
  <2>1. calls' = calls /\ sendQueue' = sendQueue /\ pc' = pc
    BY <1>8 DEF Environment, PeerLeaves, KernelCompletes, vars, threadVars
  <2>. QED  BY <2>1
<1>. HIDE DEF Goal
<1>9. ASSUME NEW t \in Caller, Call(t), ~EnqueuePacket(t)
      PROVE  \/ Goal
             \/ /\ sendQueue' = sendQueue
                /\ calls' = calls + 1
                /\ Appending' \subseteq Appending \cup {t}
  BY <1>5, <1>6, <1>9 DEF Call
<1>10. Goal \/ \E t \in Caller : \/ EnqueuePacket(t)
                                 \/ /\ sendQueue' = sendQueue
                                    /\ calls' = calls + 1
                                    /\ Appending' \subseteq Appending \cup {t}
  <2>. HIDE DEF Appending
  <2>. QED  BY <1>2, <1>3, <1>4, <1>7, <1>8, <1>9 DEF Next, Step, Goal
<1>. QED  BY <1>10 DEF Goal

\* Every step leaves at most as many packets in a queue as there were calls.
LEMMA QueuesBoundedStep ==
  ASSUME TypeOK, QueuesBounded, [Next]_vars
  PROVE  QueuesBounded'
<1>1. IsFiniteSet(Appending) /\ Cardinality(Appending) \in Nat /\ calls \in Nat
  BY ThreadAssumption, FS_Subset, FS_CardinalityType DEF Appending, TypeOK
<1>2. sendQueue \in [Slot -> Seq(Nat)] /\ \A s \in Slot : Len(sendQueue[s]) \in Nat
  BY DEF TypeOK
<1>3. ASSUME NEW t \in Caller, EnqueuePacket(t) PROVE QueuesBounded'
  <2>1. /\ t \in Thread /\ cur \in [Thread -> Slot] /\ arg[t] \in Nat
        /\ Caller \subseteq Thread /\ pc \in [Thread -> Label]
    BY DEF TypeOK, Thread
  <2>2. t \in Appending /\ Appending' \subseteq Appending \ {t} /\ calls' = calls
    BY <1>3, <2>1 DEF EnqueuePacket, Appending, AddressLabel, At, Goto, appVars
  <2>3. /\ Cardinality(Appending') \in Nat
        /\ Cardinality(Appending') =< Cardinality(Appending) - 1
    BY <1>1, <2>2, CardRemove
  <2>4. ASSUME NEW s \in Slot
        PROVE  Len(sendQueue'[s]) \in Nat /\ Len(sendQueue'[s]) =< Len(sendQueue[s]) + 1
    <3>1. sendQueue'[s] = sendQueue[s] \/ sendQueue'[s] = Append(sendQueue[s], arg[t])
      BY <1>2, <1>3, <2>1 DEF EnqueuePacket
    <3>. QED  BY <1>2, <2>1, <3>1
  <2>. QED  BY <1>1, <1>2, <2>2, <2>3, <2>4 DEF QueuesBounded
<1>4. ASSUME NEW t \in Caller, sendQueue' = sendQueue, calls' = calls + 1,
             Appending' \subseteq Appending \cup {t}
      PROVE  QueuesBounded'
  <2>1. /\ Cardinality(Appending') \in Nat
        /\ Cardinality(Appending') =< Cardinality(Appending) + 1
    BY <1>1, <1>4, CardAdd
  <2>. QED  BY <1>1, <1>2, <1>4, <2>1 DEF QueuesBounded
<1>5. ASSUME \A s \in Slot : sendQueue'[s] \in {<<>>, sendQueue[s]}, calls' = calls,
             Appending' \subseteq Appending
      PROVE  QueuesBounded'
  <2>1. /\ Cardinality(Appending') \in Nat
        /\ Cardinality(Appending') =< Cardinality(Appending)
    BY <1>1, <1>5, CardKeep
  <2>2. ASSUME NEW s \in Slot
        PROVE  Len(sendQueue'[s]) \in Nat /\ Len(sendQueue'[s]) =< Len(sendQueue[s])
    BY <1>2, <1>5
  <2>. QED  BY <1>1, <1>2, <1>5, <2>1, <2>2 DEF QueuesBounded
<1>. QED  BY <1>3, <1>4, <1>5, AppendingFrom

\* No thread has thrown in ReadySending before the application made more calls
\* than one WSASend takes packets: until then nothing but a refused Push ends
\* the process, whatever the threads and the clients do.
THEOREM FewCallsDoNotOverflow ==
  Spec => [](calls =< MaxPerSend => \A t \in Thread : pc[t] # "threw")
<1>. DEFINE IInv == ThrowInv /\ QueuesBounded
<1>1. Init => IInv
  <2>1. ASSUME Init PROVE QueuesBounded
    <3>1. Appending = {}
      BY <2>1 DEF Init, Appending, AddressLabel, Thread
    <3>. QED  BY <2>1, <3>1, FS_EmptySet DEF Init, QueuesBounded
  <2>. QED  BY <2>1, ThrowInit
<1>2. IInv /\ [Next]_vars => IInv'
  BY ThrowInvStep, QueuesBoundedStep DEF ThrowInv
<1>3. IInv => (calls =< MaxPerSend => \A t \in Thread : pc[t] # "threw")
  <2> SUFFICES ASSUME IInv, calls =< MaxPerSend, NEW t \in Thread, pc[t] = "threw" PROVE FALSE
    OBVIOUS
  <2>1. cur[t] \in Slot /\ Len(sendQueue[cur[t]]) > MaxPerSend /\ Len(sendQueue[cur[t]]) \in Nat
    BY DEF ThrowInv, TypeOK, ThrowsForCause
  <2>2. Cardinality(Appending) \in Nat /\ calls \in Nat
    BY ThreadAssumption, FS_Subset, FS_CardinalityType DEF Appending, ThrowInv, TypeOK
  <2>3. Len(sendQueue[cur[t]]) + Cardinality(Appending) =< calls
    BY <2>1 DEF QueuesBounded
  <2>. QED  BY <2>1, <2>2, <2>3, BoundAssumption
<1>. QED  BY <1>1, <1>2, <1>3, PTL DEF Spec

-----------------------------------------------------------------------------
(* NetCore keeps the loose promises of NetEvents. *)

\* The newest session of the slot is over.
Over(s) == released[s] /\ ~(cur[Acceptor] = s /\ pc[Acceptor] \in {"init_fields", "init_open"})
\* The session <<s, u>> has been, and is over.
Past(s, u) == u <= uidAcc[s] /\ (u = uidAcc[s] => Over(s))

\* Labels from the release to OnDisconnected.
ReportLabel == {"release_close", "release_clear", "push", "count_down", "on_disconnected"}

\* What a thread is going to report is a session that is over.
ReportOK(t) ==
  /\ pc[t] = "release_cas" => did[t] <= uidAcc[cur[t]]
  /\ pc[t] \in ReportLabel => Past(cur[t], did[t])

EventInv ==
  /\ \A t \in Thread : ReportOK(t)
  /\ \A k \in left : Past(k[1], k[2])

\* What is over stays over.
LEMMA PastKept ==
  ASSUME TypeOK, ControlOK, [Next]_vars, NEW s \in Slot, NEW u \in Nat, OneOwner(s), Past(s, u)
  PROVE  Past(s, u)'
<1>1. /\ uidAcc \in [Slot -> Nat] /\ released \in [Slot -> BOOLEAN] /\ released' \in [Slot -> BOOLEAN]
  BY TypeStep DEF TypeOK
<1>2. CASE InitId /\ cur[Acceptor] = s
  <2>1. uidAcc'[s] = uidAcc[s] + 1
    BY <1>1, <1>2, NewIdIsReleased DEF InitId
  <2>. QED  BY <1>1, <2>1 DEF Past
<1>3. CASE ~(InitId /\ cur[Acceptor] = s)
  <2>1. uidAcc'[s] = uidAcc[s]
    BY <1>3, IdFrom
  <2>2. ASSUME Over(s) PROVE Over(s)'
    <3>1. released'[s]
      BY <1>1, <2>2, ReleasedFrom DEF Over, InitOpen, At
    <3>2. ~(cur'[Acceptor] = s /\ pc'[Acceptor] \in {"init_fields", "init_open"})
      BY <1>3, <2>2, OpeningFrom DEF Over
    <3>. QED  BY <3>1, <3>2 DEF Over
  <2>. QED  BY <2>1, <2>2 DEF Past
<1>. QED  BY <1>2, <1>3

\* How a thread comes to the compare exchange of NetSession::TryRelease, and
\* what it is going to report.
LEMMA CasFrom ==
  ASSUME TypeOK, [Next]_vars, NEW u \in Thread, pc'[u] = "release_cas"
  PROVE  /\ cur'[u] = cur[u]
         /\ \/ pc[u] = "release_cas" /\ did'[u] = did[u]
            \/ ReadIdToReport(u)
            \/ u = Acceptor /\ did'[u] = 0 /\ Associate
<1>1. /\ cur \in [Thread -> Slot] /\ pc \in [Thread -> Label] /\ did \in [Thread -> Nat]
      /\ Acceptor \in Thread /\ Caller \subseteq Thread /\ IOThread \subseteq Thread
  BY DEF TypeOK, Thread
<1>. DEFINE Goal == /\ cur'[u] = cur[u]
                    /\ \/ pc[u] = "release_cas" /\ did'[u] = did[u]
                       \/ ReadIdToReport(u)
                       \/ u = Acceptor /\ did'[u] = 0 /\ Associate
<1>2. CASE pc'[u] = pc[u] /\ cur'[u] = cur[u] /\ did'[u] = did[u]
  BY <1>2
<1>. USE DEF Goto, At
<1>3. CASE Accept
  BY <1>1, <1>2, <1>3 DEF Accept, PopSession, PopFails, PopGivesUp, InitId, InitFields, InitOpen, CountUp,
     Associate, OnConnected
<1>4. ASSUME NEW t \in Thread, TryReleaseSession(t) PROVE Goal
  BY <1>1, <1>4 DEF TryReleaseSession, Decrement, ReadIdToReport, ReleaseCas, ReleaseClose,
     ReleaseClear, Push, CountDown, OnDisconnected, Return
<1>5. ASSUME NEW t \in Thread, RecvPost(t) \/ SendPost(t) \/ Cancel(t) PROVE Goal
  BY <1>1, <1>5 DEF RecvPost, RecvPostIncrement, RecvPostSocket, RecvPostWSARecv,
     PostFailed, SendPost, SendPostCas, SendPostDequeue, SendPostUnset, SendPostIncrement,
     SendPostSocket, SendPostWSASend, Cancel, CancelationIO, CancelIoEx
<1>6. ASSUME NEW t \in Caller, Call(t) PROVE Goal
  BY <1>1, <1>6 DEF Call, FindId, FindOpen, AcquireIncrement, AcquireCheckId,
     AcquireCheckReleased, EnqueuePacket
<1>7. ASSUME NEW t \in IOThread, Serve(t) PROVE Goal
  BY <1>1, <1>7 DEF Serve, Completion, FinishSending, NetworkRecvCompleted
<1>8. CASE Environment \/ UNCHANGED vars
  BY <1>2, <1>8 DEF Environment, PeerLeaves, KernelCompletes, vars, threadVars
<1>. QED  BY <1>3, <1>4, <1>5, <1>6, <1>7, <1>8 DEF Next, Step

\* How a thread comes to be on the way to OnDisconnected.
LEMMA ReportFrom ==
  ASSUME TypeOK, [Next]_vars, NEW u \in Thread, pc'[u] \in ReportLabel
  PROVE  /\ cur'[u] = cur[u] /\ did'[u] = did[u] /\ ~OnDisconnected(u)
         /\ \/ pc[u] \in ReportLabel
            \/ ReleaseCas(u) /\ ~released[cur[u]] /\ released'[cur[u]]
<1>1. /\ cur \in [Thread -> Slot] /\ pc \in [Thread -> Label] /\ did \in [Thread -> Nat]
      /\ Acceptor \in Thread /\ Caller \subseteq Thread /\ IOThread \subseteq Thread
      /\ released \in [Slot -> BOOLEAN]
  BY DEF TypeOK, Thread
<1>. DEFINE Goal == /\ cur'[u] = cur[u] /\ did'[u] = did[u]
                    /\ \/ pc[u] \in ReportLabel
                       \/ ReleaseCas(u) /\ ~released[cur[u]] /\ released'[cur[u]]
<1>2. ASSUME pc'[u] = pc[u], cur'[u] = cur[u], did'[u] = did[u] PROVE Goal
  BY <1>2
<1>. USE DEF Goto, At, ReportLabel
<1>3. ASSUME Accept PROVE Goal
  BY <1>1, <1>2, <1>3 DEF Accept, PopSession, PopFails, PopGivesUp, InitId, InitFields, InitOpen, CountUp,
     Associate, OnConnected
<1>4. ASSUME NEW t \in Thread, TryReleaseSession(t) PROVE Goal
  <2>1. CASE ReleaseCas(t)
    BY <1>1, <2>1 DEF ReleaseCas, Return
  <2>2. CASE ~ReleaseCas(t)
    BY <1>1, <1>4, <2>2 DEF TryReleaseSession, Decrement, ReadIdToReport, ReleaseClose,
       ReleaseClear, Push, CountDown, OnDisconnected, Return
  <2>. QED  BY <2>1, <2>2
<1>5. ASSUME NEW t \in Thread, RecvPost(t) \/ SendPost(t) \/ Cancel(t) PROVE Goal
  BY <1>1, <1>5 DEF RecvPost, RecvPostIncrement, RecvPostSocket, RecvPostWSARecv,
     PostFailed, SendPost, SendPostCas, SendPostDequeue, SendPostUnset, SendPostIncrement,
     SendPostSocket, SendPostWSASend, Cancel, CancelationIO, CancelIoEx
<1>6. ASSUME NEW t \in Caller, Call(t) PROVE Goal
  BY <1>1, <1>6 DEF Call, FindId, FindOpen, AcquireIncrement, AcquireCheckId,
     AcquireCheckReleased, EnqueuePacket
<1>7. ASSUME NEW t \in IOThread, Serve(t) PROVE Goal
  BY <1>1, <1>7 DEF Serve, Completion, FinishSending, NetworkRecvCompleted
<1>8. ASSUME Environment \/ UNCHANGED vars PROVE Goal
  BY <1>2, <1>8 DEF Environment, PeerLeaves, KernelCompletes, vars, threadVars
<1>9. ~OnDisconnected(u)
  BY <1>1 DEF OnDisconnected, Return
<1>. QED  BY <1>3, <1>4, <1>5, <1>6, <1>7, <1>8, <1>9 DEF Next, Step

\* Every step keeps what is going to be reported true.
LEMMA ReportStep ==
  ASSUME TypeOK, ControlOK, [Next]_vars, NEW u \in Thread, OneOwner(cur[u]), IdOK(cur[u]), ReportOK(u)
  PROVE  ReportOK(u)'
<1>. DEFINE s == cur[u]
<1>1. /\ s \in Slot /\ uidAcc \in [Slot -> Nat] /\ did[u] \in Nat /\ Acceptor \in Thread
      /\ pc \in [Thread -> Label] /\ cur \in [Thread -> Slot] /\ did \in [Thread -> Nat]
  BY DEF TypeOK, Thread
<1>2. uidAcc'[s] \in Nat /\ uidAcc'[s] >= uidAcc[s]
  BY <1>1, IdFrom
<1>3. ASSUME pc'[u] = "release_cas" PROVE did'[u] <= uidAcc'[cur'[u]]
  <2>1. cur'[u] = s
    BY <1>3, CasFrom
  <2>2. CASE pc[u] = "release_cas" /\ did'[u] = did[u]
    BY <1>1, <1>2, <2>1, <2>2 DEF ReportOK
  <2>3. CASE ReadIdToReport(u)
    <3>1. did'[u] = sessionID[s]
      BY <1>1, <2>3 DEF ReadIdToReport
    <3>. QED  BY <1>1, <1>2, <2>1, <3>1 DEF IdOK
  <2>4. CASE did'[u] = 0
    BY <1>2, <2>1, <2>4
  <2>. QED  BY <1>3, <2>2, <2>3, <2>4, CasFrom
<1>4. ASSUME pc'[u] \in ReportLabel PROVE Past(cur[u], did[u])'
  <2>1. cur'[u] = s /\ did'[u] = did[u]
    BY <1>4, ReportFrom
  <2>2. CASE pc[u] \in ReportLabel
    <3>1. Past(s, did[u])
      BY <2>2 DEF ReportOK
    <3>2. \A r \in Slot, v \in Nat : OneOwner(r) /\ Past(r, v) => Past(r, v)'
      BY PastKept
    <3>3. ASSUME NEW r \in Slot, r = s, cur'[u] = r PROVE Past(cur[u], did[u])'
      <4>1. Past(r, did[u])'
        <5>1. \A v \in Nat : Past(r, v) => Past(r, v)'
          BY <3>2, <3>3
        <5>2. Past(r, did[u])
          BY <3>1, <3>3
        <5>. QED  BY <1>1, <2>1, <5>1, <5>2 DEF Past, Over
      <4>. QED  BY <3>3, <4>1 DEF Past, Over
    <3>. QED  BY <1>1, <2>1, <3>3
  <2>3. CASE ReleaseCas(u) /\ ~released[s] /\ released'[s]
    <3>1. did[u] <= uidAcc[s] /\ uidAcc' = uidAcc
      BY <2>3 DEF ReleaseCas, At, ReportOK
    <3>2. ~(cur[Acceptor] = s /\ pc[Acceptor] \in {"init_fields", "init_open"})
      BY <2>3 DEF OneOwner, Opening
    <3>3. ~(cur'[Acceptor] = s /\ pc'[Acceptor] \in {"init_fields", "init_open"})
      BY <1>1, <2>3, <3>2, OpeningFrom DEF ReleaseCas, InitId
    <3>. QED  BY <2>1, <2>3, <3>1, <3>3 DEF Past, Over
  <2>. QED  BY <1>4, <2>2, <2>3, ReportFrom
<1>. QED  BY <1>3, <1>4 DEF ReportOK

\* The inductive invariant.
EventStateInv == CoreInv /\ EventInv

\* It holds before the first step, and every step keeps it.
LEMMA EventInit == Init => EventStateInv
<1> SUFFICES ASSUME Init PROVE EventInv
  BY CoreInit DEF EventStateInv
<1>. QED  BY DEF Init, EventInv, ReportOK, ReportLabel

LEMMA EventStep == EventStateInv /\ [Next]_vars => EventStateInv'
<1> SUFFICES ASSUME EventStateInv, [Next]_vars PROVE EventInv'
  BY CoreStep DEF EventStateInv
<1>1. /\ TypeOK /\ ControlOK /\ \A s \in Slot : OneOwner(s) /\ IdOK(s)
      /\ \A t \in Thread : ReportOK(t) /\ cur[t] \in Slot /\ did[t] \in Nat
      /\ \A k \in left : Past(k[1], k[2])
      /\ left \in SUBSET (Slot \X Nat)
  BY DEF EventStateInv, CoreInv, EventInv, TypeOK
<1>2. \A t \in Thread : ReportOK(t)'
  BY <1>1, ReportStep
<1>3. ASSUME NEW k \in left' PROVE Past(k[1], k[2])'
  <2>1. /\ k[1] \in Slot /\ k[2] \in Nat /\ Past(k[1], k[2])
    <3>1. CASE k \in left
      BY <1>1, <3>1
    <3>2. ASSUME NEW t \in Thread, OnDisconnected(t), k \notin left
          PROVE  k[1] \in Slot /\ k[2] \in Nat /\ Past(k[1], k[2])
      <4>1. k = <<cur[t], did[t]>>
        BY <1>3, <3>2 DEF OnDisconnected
      <4>2. Past(cur[t], did[t])
        BY <1>1, <3>2 DEF OnDisconnected, At, ReportOK, ReportLabel
      <4>. QED  BY <1>1, <4>1, <4>2
    <3>. QED  BY <1>3, <3>1, <3>2, JoinedFrom
  <2>2. OneOwner(k[1])
    BY <1>1, <2>1
  <2>. QED  BY <1>1, <2>1, <2>2, PastKept
<1>. QED  BY <1>2, <1>3 DEF EventInv

\* OnReceived begins with the completion of a receive and ends within
\* NetworkRecvCompleted.
LEMMA ReceivedFrom ==
  ASSUME TypeOK, [Next]_vars, NEW u \in IOThread
  PROVE  \/ NetworkRecvCompleted(u)
         \/ pc'[u] = "received" /\ \E s \in Slot : Completion(u, s, "recv", "ok")
         \/ pc'[u] = pc[u] /\ cur'[u] = cur[u]
         \/ pc[u] # "received" /\ pc'[u] # "received"
<1>1. /\ cur \in [Thread -> Slot] /\ pc \in [Thread -> Label] /\ u \in Thread
      /\ Acceptor \in Thread /\ Acceptor # u
      /\ Caller \subseteq Thread /\ IOThread \subseteq Thread /\ u \notin Caller
  BY ThreadAssumption DEF TypeOK, Thread
<1>. DEFINE Same == pc'[u] = pc[u] /\ cur'[u] = cur[u]
            Not == pc[u] # "received" /\ pc'[u] # "received"
            Goal == \/ NetworkRecvCompleted(u)
                    \/ pc'[u] = "received" /\ \E s \in Slot : Completion(u, s, "recv", "ok")
                    \/ Same \/ Not
<1>. USE DEF Goto, At
<1>2. ASSUME Accept PROVE Same
  BY <1>1, <1>2 DEF Accept, PopSession, PopFails, PopGivesUp, InitId, InitFields, InitOpen, CountUp, Associate,
     OnConnected
<1>3. ASSUME NEW t \in Thread, TryReleaseSession(t) PROVE Same \/ Not
  BY <1>1, <1>3 DEF TryReleaseSession, Decrement, ReadIdToReport, ReleaseCas, ReleaseClose,
     ReleaseClear, Push, CountDown, OnDisconnected, Return
<1>4. ASSUME NEW t \in Thread, RecvPost(t) \/ SendPost(t) \/ Cancel(t) PROVE Same \/ Not
  BY <1>1, <1>4 DEF RecvPost, RecvPostIncrement, RecvPostSocket, RecvPostWSARecv,
     PostFailed, SendPost, SendPostCas, SendPostDequeue, SendPostUnset, SendPostIncrement,
     SendPostSocket, SendPostWSASend, Cancel, CancelationIO, CancelIoEx
<1>5. ASSUME NEW t \in Caller, Call(t) PROVE Same
  BY <1>1, <1>5 DEF Call, FindId, FindOpen, AcquireIncrement, AcquireCheckId,
     AcquireCheckReleased, EnqueuePacket
<1>6. ASSUME NEW t \in IOThread, Serve(t) PROVE Goal
  <2>1. ASSUME NEW s \in Slot, NEW op \in Op, NEW st \in Status, Completion(t, s, op, st)
        PROVE  Goal
    <3>1. CASE t # u
      BY <1>1, <2>1, <3>1 DEF Completion
    <3>2. CASE t = u /\ op = "send"
      BY <1>1, <2>1, <3>2 DEF Completion
    <3>3. CASE t = u /\ op = "recv" /\ st = "ok"
      BY <1>1, <2>1, <3>3 DEF Completion
    <3>4. CASE t = u /\ st # "ok"
      BY <1>1, <2>1, <3>4 DEF Completion
    <3>. QED  BY <3>1, <3>2, <3>3, <3>4 DEF Op
  <2>2. CASE FinishSending(t)
    BY <1>1, <2>2 DEF FinishSending
  <2>3. CASE NetworkRecvCompleted(t)
    <3>1. CASE t = u
      BY <2>3, <3>1
    <3>2. CASE t # u
      BY <1>1, <2>3, <3>2 DEF NetworkRecvCompleted
    <3>. QED  BY <3>1, <3>2
  <2>. QED  BY <1>6, <2>1, <2>2, <2>3 DEF Serve
<1>7. ASSUME Environment \/ UNCHANGED vars PROVE Same
  BY <1>7 DEF Environment, PeerLeaves, KernelCompletes, vars, threadVars
<1>. QED  BY <1>2, <1>3, <1>4, <1>5, <1>6, <1>7 DEF Next, Step

\* The session whose OnReceived thread t runs, as NetCoreEvents maps it.
Received(t) == IF pc[t] = "received" THEN <<cur[t], sessionID[cur[t]]>> ELSE NoSession

\* A live session's newest id, which is not over.
LEMMA LiveId ==
  ASSUME EventStateInv, NEW s \in Slot, ~released[s]
  PROVE  /\ sessionID[s] = uidAcc[s] /\ uidAcc[s] \in 1..MaxUid
         /\ ~Past(s, uidAcc[s]) /\ <<s, uidAcc[s]>> \notin left
<1>1. /\ uidAcc[s] \in Nat /\ MaxUid \in Nat /\ IdOK(s) /\ \A k \in left : Past(k[1], k[2])
  BY BoundAssumption DEF EventStateInv, CoreInv, EventInv, TypeOK
<1>2. ~Past(s, uidAcc[s])
  BY <1>1 DEF Past, Over
<1>. QED  BY <1>1, <1>2 DEF IdOK

\* A thread in OnReceived has the live session of its slot.
LEMMA ReceivedIsLive ==
  ASSUME EventStateInv, NEW t \in IOThread, pc[t] = "received"
  PROVE  cur[t] \in Slot /\ t \in Thread /\ ~released[cur[t]]
<1>1. /\ TypeOK /\ t \in Thread \ {Acceptor} /\ UsersKeepItAlive
  BY ThreadAssumption DEF Thread, EventStateInv, CoreInv
<1>. QED  BY <1>1 DEF UsersKeepItAlive, UseLabel, TypeOK

\* While it does, the id of the slot stays.
LEMMA ReceivedKept ==
  ASSUME EventStateInv, [Next]_vars, NEW t \in IOThread, pc'[t] = pc[t], cur'[t] = cur[t]
  PROVE  Received(t)' = Received(t)
<1>1. CASE pc[t] # "received"
  BY <1>1 DEF Received
<1>2. CASE pc[t] = "received"
  <2>1. cur[t] \in Slot /\ ~released[cur[t]] /\ TypeOK /\ OneOwner(cur[t])
    BY <1>2, ReceivedIsLive DEF EventStateInv, CoreInv
  <2>2. sessionID'[cur[t]] = sessionID[cur[t]]
    BY <2>1, IdFrom, NewIdIsReleased DEF ReleaseClear, At, OneOwner, Releasing
  <2>. QED  BY <2>2 DEF Received
<1>. QED  BY <1>1, <1>2

\* A step that begins or ends OnReceived changes it for one thread.
LEMMA ReceivingElsewhere ==
  ASSUME EventStateInv, [Next]_vars, NEW t \in IOThread, NEW v,
         \A u \in Thread \ {t} : pc'[u] = pc[u] /\ cur'[u] = cur[u], Received(t)' = v
  PROVE  [u \in IOThread |-> Received(u)]' = [[u \in IOThread |-> Received(u)] EXCEPT ![t] = v]
<1>1. \A u \in IOThread \ {t} : Received(u)' = Received(u)
  BY ReceivedKept DEF Thread
<1>. QED  BY <1>1

\* Every step is one of LooseSpec, or none.
LEMMA EventStepSimulated ==
  ASSUME EventStateInv, [Next]_vars
  PROVE  [Events!LooseNext]_(Events!eventVars)
<1>. DEFINE rcv == [t \in IOThread |-> Received(t)]
<1>0. /\ rcv = [t \in IOThread |-> IF pc[t] = "received" THEN <<cur[t], sessionID[cur[t]]>>
                                   ELSE NoSession]
      /\ rcv' = [t \in IOThread |-> IF pc[t] = "received" THEN <<cur[t], sessionID[cur[t]]>>
                                    ELSE NoSession]'
  BY DEF Received
<1>1. /\ TypeOK /\ ControlOK /\ EventInv /\ UsersKeepItAlive
      /\ \A s \in Slot : IdOK(s) /\ OneOwner(s)
      /\ \A t \in Thread : ReportOK(t)
      /\ cur \in [Thread -> Slot] /\ pc \in [Thread -> Label] /\ IOThread \subseteq Thread
      /\ Acceptor \in Thread /\ did \in [Thread -> Nat]
      /\ joined \in SUBSET (Slot \X Nat) /\ uidAcc \in [Slot -> Nat] /\ MaxUid \in Nat
  BY BoundAssumption DEF EventStateInv, CoreInv, EventInv, TypeOK, Thread
<1>2. ASSUME NEW t \in IOThread, NetworkRecvCompleted(t)
      PROVE  /\ rcv[t] # NoSession /\ rcv' = [rcv EXCEPT ![t] = NoSession]
             /\ UNCHANGED <<joined, left>>
  <2>1. rcv[t] # NoSession
    BY <1>2 DEF NetworkRecvCompleted, At, Received, NoSession
  <2>2. /\ \A u \in Thread \ {t} : pc'[u] = pc[u] /\ cur'[u] = cur[u]
        /\ Received(t)' = NoSession
    BY <1>1, <1>2 DEF NetworkRecvCompleted, Goto, Received
  <2>. QED  BY <1>2, <2>1, <2>2, ReceivingElsewhere DEF NetworkRecvCompleted
<1>3. ASSUME NEW t \in IOThread, NEW s \in Slot, Completion(t, s, "recv", "ok"), pc'[t] = "received"
      PROVE  LET id == <<s, sessionID[s]>>
             IN  /\ id \in (Slot \X (1..MaxUid)) \ left /\ rcv[t] = NoSession
                 /\ rcv' = [rcv EXCEPT ![t] = id]
                 /\ UNCHANGED <<joined, left>>
  <2>1. /\ pc[t] = "idle" /\ cur'[t] = s /\ ~released[s]
        /\ UNCHANGED <<joined, left, sessionID>>
        /\ \A u \in Thread \ {t} : pc'[u] = pc[u] /\ cur'[u] = cur[u]
    BY <1>1, <1>3 DEF Completion, At, Goto, sessionVars
  <2>2. <<s, sessionID[s]>> \in (Slot \X (1..MaxUid)) \ left
    BY <2>1, LiveId
  <2>3. rcv[t] = NoSession
    BY <2>1 DEF Received
  <2>4. Received(t)' = <<s, sessionID[s]>>
    BY <1>3, <2>1 DEF Received
  <2>5. rcv' = [rcv EXCEPT ![t] = <<s, sessionID[s]>>]
    BY <2>1, <2>4, ReceivingElsewhere
  <2>. QED  BY <2>1, <2>2, <2>3, <2>5
<1>4. ASSUME ~\E t \in IOThread : NetworkRecvCompleted(t),
             ~\E t \in IOThread, s \in Slot : Completion(t, s, "recv", "ok") /\ pc'[t] = "received"
      PROVE  rcv' = rcv
  <2>1. ASSUME NEW t \in IOThread PROVE Received(t)' = Received(t)
    <3>1. CASE pc'[t] = pc[t] /\ cur'[t] = cur[t]
      BY <3>1, ReceivedKept
    <3>2. CASE pc[t] # "received" /\ pc'[t] # "received"
      BY <3>2 DEF Received
    <3>. QED  BY <1>1, <1>4, <3>1, <3>2, ReceivedFrom
  <2>. QED  BY <2>1
<1>5. ASSUME OnConnected
      PROVE  \/ UNCHANGED <<joined, left>>
             \/ \E id \in (Slot \X (1..MaxUid)) \ joined : joined' = joined \cup {id} /\ left' = left
  <2>. DEFINE s == cur[Acceptor]
  <2>1. s \in Slot /\ left' = left
    BY <1>1, <1>5 DEF OnConnected
  <2>2. CASE sessionID[s] = 0
    BY <1>5, <2>1, <2>2 DEF OnConnected
  <2>3. CASE sessionID[s] # 0
    <3>1. IsNew(s)
      BY <1>5 DEF OnConnected, At, IsNew, NewLabel
    <3>2. <<s, uidAcc[s]>> \in (Slot \X (1..MaxUid)) \ joined /\ sessionID[s] = uidAcc[s]
      BY <1>1, <2>1, <2>3, <3>1 DEF IdOK
    <3>3. joined' = joined \cup {<<s, uidAcc[s]>>}
      BY <1>5, <2>3, <3>2 DEF OnConnected
    <3>. QED  BY <2>1, <3>2, <3>3
  <2>. QED  BY <2>2, <2>3
<1>6. ASSUME NEW t \in Thread, OnDisconnected(t), did[t] # 0
      PROVE  \/ UNCHANGED <<joined, left>>
             \/ \E id \in (Slot \X (1..MaxUid)) \ left :
                  /\ \A u \in IOThread : rcv[u] # id
                  /\ left' = left \cup {id} /\ joined' = joined
  <2>. DEFINE id == <<cur[t], did[t]>>
  <2>1. left' = left \cup {id} /\ joined' = joined
    BY <1>6 DEF OnDisconnected
  <2>2. Past(cur[t], did[t])
    BY <1>1, <1>6 DEF OnDisconnected, At, ReportOK, ReportLabel
  <2>3. id \in Slot \X (1..MaxUid)
    <3>1. did[t] \in Nat /\ did[t] <= uidAcc[cur[t]] /\ uidAcc[cur[t]] <= MaxUid
          /\ uidAcc[cur[t]] \in Nat /\ cur[t] \in Slot
      BY <1>1, <2>2 DEF Past, IdOK
    <3>. QED  BY <1>1, <1>6, <3>1
  <2>4. ASSUME NEW u \in IOThread, rcv[u] = id PROVE FALSE
    <3>1. pc[u] = "received" /\ cur[u] = cur[t] /\ sessionID[cur[u]] = did[t]
      BY <2>4 DEF Received, NoSession
    <3>. QED  BY <2>2, <3>1, ReceivedIsLive, LiveId
  <2>. QED  BY <2>1, <2>3, <2>4
<1>. HIDE DEF rcv
<1>7. CASE \E t \in IOThread : NetworkRecvCompleted(t)
  BY <1>0, <1>2, <1>7 DEF Events!LooseNext, Events!EndReceive, Events!eventVars
<1>8. CASE \E t \in IOThread, s \in Slot : Completion(t, s, "recv", "ok") /\ pc'[t] = "received"
  <2>1. PICK t \in IOThread, s \in Slot : Completion(t, s, "recv", "ok") /\ pc'[t] = "received"
    BY <1>8
  <2>. DEFINE id == <<s, sessionID[s]>>
  <2>2. /\ id \in (Slot \X (1..MaxUid)) \ left /\ rcv[t] = NoSession
        /\ rcv' = [rcv EXCEPT ![t] = id] /\ UNCHANGED <<joined, left>>
    BY <1>3, <2>1
  <2>. HIDE DEF id
  <2>3. \E e \in Slot \X (1..MaxUid) : \E u \in IOThread : Events!BeginAnyReceive(u, e)
    BY <1>0, <2>2 DEF Events!BeginAnyReceive
  <2>4. Events!LooseNext
    BY <2>3 DEF Events!LooseNext
  <2>. QED  BY <2>4
<1>9. CASE /\ ~\E t \in IOThread : NetworkRecvCompleted(t)
           /\ ~\E t \in IOThread, s \in Slot : Completion(t, s, "recv", "ok") /\ pc'[t] = "received"
  <2>1. rcv' = rcv
    BY <1>4, <1>9
  <2>2. CASE UNCHANGED <<joined, left>>
    BY <1>0, <2>1, <2>2 DEF Events!eventVars
  <2>3. CASE OnConnected /\ ~UNCHANGED <<joined, left>>
    BY <1>0, <1>5, <2>1, <2>3 DEF Events!LooseNext, Events!Join
  <2>4. CASE (\E t \in Thread : OnDisconnected(t) /\ did[t] # 0) /\ ~UNCHANGED <<joined, left>>
    BY <1>0, <1>6, <2>1, <2>4 DEF Events!LooseNext, Events!LeaveAtAnyTime
  <2>. QED  BY <2>2, <2>3, <2>4, JoinedFrom
<1>. QED  BY <1>7, <1>8, <1>9

\* Whatever the threads, the clients and the callers do, and however old the ids
\* they use: no session is announced twice, no OnReceived of a session is running
\* when its OnDisconnected is called, and none begins after it.
THEOREM CallbacksAreInOrder == Spec => ImplementsEvents
<1> SUFFICES Spec => Events!LooseSpec
  BY DEF ImplementsEvents
<1>1. Init => EventStateInv
  BY EventInit
<1>2. EventStateInv /\ [Next]_vars => EventStateInv'
  BY EventStep
<1>3. EventStateInv /\ [Next]_vars => [Events!LooseNext]_(Events!eventVars)
  BY EventStepSimulated
<1>4. Init => Events!EventInit
  <2>1. Init => \A t \in IOThread : pc[t] # "received"
    BY DEF Init, Thread
  <2>. QED  BY <2>1 DEF Init, Events!EventInit, NoSession
<1>. QED  BY <1>1, <1>2, <1>3, <1>4, PTL DEF Spec, Events!LooseSpec

=============================================================================
