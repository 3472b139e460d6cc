------------------------------- MODULE LanCore -------------------------------
(***************************************************************************)
(* The session life cycle of nf::network::server::lan: LanCore, its accept *)
(* thread and its IO threads, LanSessionManager and LanSession, under the  *)
(* application of playground_lan, which answers from inside OnReceived.    *)
(*                                                                         *)
(* The protocol differs from NetCore's: the count is reset by Init, it may *)
(* be zero while the session is live, SendPacket looks the session up and  *)
(* takes its reference in two steps, the sending flag is a counter, and a  *)
(* socket is closed at once.  A step is one access to shared memory, with  *)
(* neighbouring accesses merged where no other thread can tell.            *)
(*                                                                         *)
(* A session id is the value of mSessionUIDAcc it was made of (its index   *)
(* part is the slot that stores it), 0 being session_id::INVALID; a packet *)
(* is the id it was addressed to.  ret is the rest of a thread's call      *)
(* stack: the labels its pending calls return to.                          *)
(***************************************************************************)
EXTENDS Integers, Sequences, FiniteSets

CONSTANTS
  Slot,          \* mSessionPool
  Acceptor,      \* the thread running NetworkAcceptThread
  IOThread,      \* the threads running NetworkIOThread
  MaxPerSend,    \* define::MAX_PACKET_COUNT_PER_SEND
  MaxUid,        \* bound: clients accepted
  MaxCalls       \* bound: SendPacket / Disconnect calls made

Thread == {Acceptor} \cup IOThread
Op == {"recv", "send"}

ASSUME LanAssumption ==
  /\ IsFiniteSet(Slot) /\ Slot # {}
  /\ IsFiniteSet(IOThread) /\ Acceptor \notin IOThread
  /\ MaxPerSend \in Nat \ {0} /\ MaxUid \in Nat /\ MaxCalls \in Nat

VARIABLES
  unused,        \* mUnusedSessionIndexes
  uidAcc,        \* mSessionUIDAcc
  connected,     \* mConnectedSessionCount
  session,       \* the fields of each LanSession
  kernel,        \* external: the OVERLAPPEDs of each slot (idle, pending, or
                 \*   queued on the IOCP as ok, zero or fail) and its peer
  thread,        \* the registers of each thread
  joined, left,  \* ids OnConnected / OnDisconnected was called with
  refused,       \* ids of sessions that could not be associated
  calls          \* SendPacket / Disconnect calls made so far

managerVars == <<unused, uidAcc, connected>>
eventVars == <<joined, left, refused>>
vars == <<managerVars, session, kernel, thread, eventVars, calls>>

At(t, l) == thread[t].pc = l
Goto(t, l) == thread' = [thread EXCEPT ![t].pc = l]
\* Call the code at label l, which returns to label r.
Call(t, l, r) == thread' = [thread EXCEPT ![t].pc = l, ![t].ret = <<r>> \o @]
Return(t) == thread' = [thread EXCEPT ![t].pc = Head(thread[t].ret), ![t].ret = Tail(@)]

cur(t) == thread[t].cur
Count(s, d) == session' = [session EXCEPT ![s].ioCount = @ + d]

\* closesocket aborts what is pending.
Aborted(k) == [op \in Op |-> IF k.op[op] = "pending" THEN "fail" ELSE k.op[op]]

-----------------------------------------------------------------------------
(* DecrementIO, TryRemoveSession, TryReleaseSession, LanSession::TryRelease. *)

DecrementRemovesAlways(t) ==
  /\ At(t, "dec")
  /\ Count(cur(t), -1)
  /\ Goto(t, "release_id")
  /\ UNCHANGED <<managerVars, kernel, eventVars, calls>>

\* if (mSessionManager->DecrementIO(session) <= 0) TryRemoveSession(session);
Decrement(t) ==
  /\ At(t, "dec")
  /\ Count(cur(t), -1)
  /\ IF session[cur(t)].ioCount - 1 <= 0 THEN Goto(t, "release_id") ELSE Return(t)
  /\ UNCHANGED <<managerVars, kernel, eventVars, calls>>

\* The id to report, and the index to give back, are read before the release.
ReadId(t) ==
  /\ At(t, "release_id")
  /\ thread' = [thread EXCEPT ![t].pc = "release_cas", ![t].id = session[cur(t)].id]
  /\ UNCHANGED <<managerVars, session, kernel, eventVars, calls>>

\* InterlockedCompareExchange64: {IsReleased 0, IOCount 0} becomes {1, 0}.
ReleaseCas(t) ==
  LET s == cur(t) IN
  /\ At(t, "release_cas")
  /\ IF session[s].released \/ session[s].ioCount # 0
     THEN Return(t) /\ UNCHANGED session
     ELSE session' = [session EXCEPT ![s].released = TRUE] /\ Goto(t, "release")
  /\ UNCHANGED <<managerVars, kernel, eventVars, calls>>

ReleaseKeepsQueue(t) ==
  LET s == cur(t) IN
  /\ At(t, "release")
  /\ session' = [session EXCEPT ![s].id = 0, ![s].closed = TRUE,
                   ![s].sending = <<>>, ![s].isSending = @ - 1]
  /\ kernel' = [kernel EXCEPT ![s].op = Aborted(kernel[s])]
  /\ Goto(t, "push")
  /\ UNCHANGED <<managerVars, eventVars, calls>>

\* LanSession::Release: CancelationIO, FinishSending (which subtracts one from
\* the flag whether or not a send is on), the queued packets are freed.
Release(t) ==
  LET s == cur(t) IN
  /\ At(t, "release")
  /\ session' = [session EXCEPT ![s].id = 0, ![s].closed = TRUE, ![s].queue = <<>>,
                   ![s].sending = <<>>, ![s].isSending = @ - 1]
  /\ kernel' = [kernel EXCEPT ![s].op = Aborted(kernel[s])]
  /\ Goto(t, "push")
  /\ UNCHANGED <<managerVars, eventVars, calls>>

\* if (!mUnusedSessionIndexes.Push(index)) throw.  LockFreeStack::Push refuses
\* while nothing counted is in the pool (an index is counted after it is linked,
\* at the latest when the releasing thread goes on) and the accept thread within
\* a TryPop that fails, unless it made this test before the TryPop began.
PushIndex(t) ==
  /\ At(t, "push")
  /\ \/ unused' = unused \cup {cur(t)} /\ Goto(t, "count_down")
     \/ /\ \A s \in unused : \E v \in Thread : At(v, "count_down") /\ cur(v) = s
        /\ At(Acceptor, "pop_failed")
        /\ Goto(t, "refused") /\ UNCHANGED unused
  /\ UNCHANGED <<uidAcc, connected, session, kernel, eventVars, calls>>

CountDown(t) ==
  /\ At(t, "count_down")
  /\ connected' = connected - 1
  /\ Goto(t, "on_disconnected")
  /\ UNCHANGED <<unused, uidAcc, session, kernel, eventVars, calls>>

OnDisconnected(t) ==
  /\ At(t, "on_disconnected")
  /\ left' = left \cup {thread[t].id}
  /\ Return(t)
  /\ UNCHANGED <<managerVars, session, kernel, joined, refused, calls>>

TryRemoveSession(t) ==
  \/ Decrement(t) \/ ReadId(t) \/ ReleaseCas(t) \/ Release(t)
  \/ PushIndex(t) \/ CountDown(t) \/ OnDisconnected(t)

-----------------------------------------------------------------------------
(* The accept thread.  A client that is turned away (ApplySocketOption,     *)
(* OnConnectionRequested) leaves no trace in this state.                    *)

\* GenUniqueSessionID: pop an index, make an id.
GenUniqueSessionID(s) ==
  /\ At(Acceptor, "idle")
  /\ s \in unused /\ uidAcc < MaxUid
  /\ unused' = unused \ {s}
  /\ uidAcc' = uidAcc + 1
  /\ thread' = [thread EXCEPT ![Acceptor] = [@ EXCEPT !.pc = "init", !.cur = s]]
  /\ UNCHANGED <<connected, session, kernel, eventVars, calls>>

\* LanSession::Init, the id, the socket and the queues.
InitFields ==
  LET s == cur(Acceptor) IN
  /\ At(Acceptor, "init")
  /\ session' = [session EXCEPT ![s].id = uidAcc, ![s].queue = <<>>]
  /\ kernel' = [kernel EXCEPT ![s].peer = TRUE]
  /\ Goto(Acceptor, "open")
  /\ UNCHANGED <<managerVars, eventVars, calls>>

\* LanSession::Init: IOCount, IsReleased, IsSending, mIsCloseSocket.
Open ==
  LET s == cur(Acceptor) IN
  /\ At(Acceptor, "open")
  /\ session' = [session EXCEPT ![s].ioCount = 0, ![s].released = FALSE,
                   ![s].isSending = 0, ![s].closed = FALSE]
  /\ Goto(Acceptor, "count_up")
  /\ UNCHANGED <<managerVars, kernel, eventVars, calls>>

CountUp ==
  /\ At(Acceptor, "count_up")
  /\ connected' = connected + 1
  /\ Goto(Acceptor, "associate")
  /\ UNCHANGED <<unused, uidAcc, session, kernel, eventVars, calls>>

\* CreateIoCompletionPort; when it fails, TryRemoveSession reports a session
\* as disconnected that was not reported as connected.
Associate ==
  /\ At(Acceptor, "associate")
  /\ \/ Goto(Acceptor, "on_connected") /\ UNCHANGED refused
     \/ /\ Call(Acceptor, "release_id", "idle")
        /\ refused' = refused \cup {session[cur(Acceptor)].id}
  /\ UNCHANGED <<managerVars, session, kernel, joined, left, calls>>

\* OnConnected(sessionInfo), then RecvPost.
OnConnected ==
  /\ At(Acceptor, "on_connected")
  /\ joined' = joined \cup {session[cur(Acceptor)].id}
  /\ Call(Acceptor, "recv_inc", "idle")
  /\ UNCHANGED <<managerVars, session, kernel, left, refused, calls>>

\* GenUniqueSessionID, when TryPop fails: the pool is empty, ...
PopFails ==
  /\ At(Acceptor, "idle")
  /\ unused = {}
  /\ Goto(Acceptor, "pop_failed")
  /\ UNCHANGED <<managerVars, session, kernel, eventVars, calls>>

\* ... which is only asserted.  A build with assertions aborts.  One without
\* goes on with index 0, and is about to Init the session of that slot, which
\* may be live: what becomes of it is not followed.
PopUnchecked ==
  /\ At(Acceptor, "pop_failed")
  /\ Goto(Acceptor, "aborted") \/ Goto(Acceptor, "index_zero")
  /\ UNCHANGED <<managerVars, session, kernel, eventVars, calls>>

Create == PopUnchecked \/ InitFields \/ Open \/ CountUp \/ Associate \/ OnConnected

-----------------------------------------------------------------------------
(* RecvPost and SendPost. *)

RecvPostIncrement(t) ==
  /\ At(t, "recv_inc")
  /\ Count(cur(t), 1)
  /\ Goto(t, "recv_wsa")
  /\ UNCHANGED <<managerVars, kernel, eventVars, calls>>

\* WSARecv / WSASend accept the operation, or refuse it on a closed socket or
\* a lost connection; then the reference taken for it is dropped.
WSA(t, op) ==
  LET s == cur(t) IN
  \/ /\ ~session[s].closed
     /\ kernel' = [kernel EXCEPT ![s].op[op] = "pending"]
     /\ Return(t)
  \/ /\ session[s].closed \/ ~kernel[s].peer
     /\ Goto(t, "dec")
     /\ UNCHANGED kernel

RecvPostWSARecv(t) ==
  /\ At(t, "recv_wsa")
  /\ WSA(t, "recv")
  /\ UNCHANGED <<managerVars, session, eventVars, calls>>

\* ReadySending: if (IsSendingAtomic != 0) return false;
ReadFlag(t) ==
  /\ At(t, "flag")
  /\ IF session[cur(t)].isSending # 0 THEN Return(t) ELSE Goto(t, "flag_inc")
  /\ UNCHANGED <<managerVars, session, kernel, eventVars, calls>>

TakeFlagUnchecked(t) ==
  LET s == cur(t) IN
  /\ At(t, "flag_inc")
  /\ session' = [session EXCEPT ![s].isSending = @ + 1]
  /\ Goto(t, "dequeue")
  /\ UNCHANGED <<managerVars, kernel, eventVars, calls>>

\* InterlockedIncrement64(&IsSendingAtomic) != 1: another thread was faster.
TakeFlag(t) ==
  LET s == cur(t) IN
  /\ At(t, "flag_inc")
  /\ session' = [session EXCEPT ![s].isSending = @ + 1]
  /\ Goto(t, IF session[s].isSending + 1 # 1 THEN "flag_dec" ELSE "dequeue")
  /\ UNCHANGED <<managerVars, kernel, eventVars, calls>>

\* The flag is given back and SendPost returns false.
GiveFlagBack(t) ==
  /\ At(t, "flag_dec")
  /\ session' = [session EXCEPT ![cur(t)].isSending = @ - 1]
  /\ Return(t)
  /\ UNCHANGED <<managerVars, kernel, eventVars, calls>>

\* ReadySending: the whole queue is moved to PacketBuffer, unless it is empty;
\* a longer queue than PacketBuffer is an exception, which ends the process.
DequeueAll(t) ==
  LET s == cur(t)
      n == Len(session[s].queue)
  IN
  /\ At(t, "dequeue")
  /\ IF n \in 1..MaxPerSend
     THEN session' = [session EXCEPT ![s].sending = session[s].queue, ![s].queue = <<>>]
     ELSE UNCHANGED session
  /\ Goto(t, IF n > MaxPerSend THEN "threw" ELSE IF n = 0 THEN "flag_dec" ELSE "send_inc")
  /\ UNCHANGED <<managerVars, kernel, eventVars, calls>>

SendPostIncrement(t) ==
  /\ At(t, "send_inc")
  /\ Count(cur(t), 1)
  /\ Goto(t, "send_wsa")
  /\ UNCHANGED <<managerVars, kernel, eventVars, calls>>

SendPostWSASend(t) ==
  /\ At(t, "send_wsa")
  /\ WSA(t, "send")
  /\ UNCHANGED <<managerVars, session, eventVars, calls>>

Post(t) ==
  \/ RecvPostIncrement(t) \/ RecvPostWSARecv(t)
  \/ ReadFlag(t) \/ TakeFlag(t) \/ GiveFlagBack(t) \/ DequeueAll(t)
  \/ SendPostIncrement(t) \/ SendPostWSASend(t)

-----------------------------------------------------------------------------
(* NetworkIOThread: one completion at a time, and OnReceived's calls.      *)

CompletionKeepsReference(t, s, op) ==
  LET st == kernel[s].op[op] IN
  /\ At(t, "idle")
  /\ st \in {"ok", "zero", "fail"}
  /\ kernel' = [kernel EXCEPT ![s].op[op] = "idle"]
  /\ IF st = "fail" THEN UNCHANGED thread
     ELSE thread' = [thread EXCEPT ![t] =
       [@ EXCEPT !.cur = s, !.ret = <<"idle">>,
                 !.pc = IF st # "ok" THEN "dec" ELSE IF op = "send" THEN "finish" ELSE "received"]]
  /\ UNCHANGED <<managerVars, session, eventVars, calls>>

\* GetQueuedCompletionStatus: a failed or empty completion only drops its
\* reference.
Completion(t, s, op) ==
  LET st == kernel[s].op[op] IN
  /\ At(t, "idle")
  /\ st \in {"ok", "zero", "fail"}
  /\ kernel' = [kernel EXCEPT ![s].op[op] = "idle"]
  /\ thread' = [thread EXCEPT ![t] =
       [@ EXCEPT !.cur = s, !.ret = <<"idle">>,
                 !.pc = IF st # "ok" THEN "dec" ELSE IF op = "send" THEN "finish" ELSE "received"]]
  /\ UNCHANGED <<managerVars, session, eventVars, calls>>

FinishClearsFlag(t) ==
  LET s == cur(t) IN
  /\ At(t, "finish")
  /\ session' = [session EXCEPT ![s].sending = <<>>, ![s].isSending = 0]
  /\ Call(t, "flag", "dec")
  /\ UNCHANGED <<managerVars, kernel, eventVars, calls>>

\* NetworkSendCompleted: FinishSending, OnSent, SendPost.
NetworkSendCompleted(t) ==
  LET s == cur(t) IN
  /\ At(t, "finish")
  /\ session' = [session EXCEPT ![s].sending = <<>>, ![s].isSending = @ - 1]
  /\ Call(t, "flag", "dec")
  /\ UNCHANGED <<managerVars, kernel, eventVars, calls>>

\* NetworkRecvCompleted: no complete packet is left, so receive again; or the
\* length of one is invalid (or the queue is short of space): CancelationIO.
NetworkRecvCompleted(t) ==
  /\ At(t, "received")
  /\ \/ Call(t, "recv_inc", "dec")
     \/ Goto(t, "cancel")
  /\ UNCHANGED <<managerVars, session, kernel, eventVars, calls>>

CancelationIO(t) ==
  LET s == cur(t) IN
  /\ At(t, "cancel")
  /\ session' = [session EXCEPT ![s].closed = TRUE]
  /\ kernel' = [kernel EXCEPT ![s].op = Aborted(kernel[s])]
  /\ Goto(t, "dec")
  /\ UNCHANGED <<managerVars, eventVars, calls>>

\* OnReceived calls SendPacket for the session it was called for: the id and
\* IsReleased are checked (a call that fails the test has no effect) ...
SendPacketFind(t) ==
  LET s == cur(t) IN
  /\ At(t, "received") /\ calls < MaxCalls
  /\ calls' = calls + 1
  /\ ~session[s].released
  /\ thread' = [thread EXCEPT ![t].pc = "acquire", ![t].id = session[s].id,
                              ![t].ret = <<"received">> \o @]
  /\ UNCHANGED <<managerVars, session, kernel, eventVars>>

\* ... a reference is taken, which must not be the first ...
SendPacketAcquire(t) ==
  LET s == cur(t) IN
  /\ At(t, "acquire")
  /\ Count(s, 1)
  /\ Goto(t, IF session[s].ioCount + 1 = 1 THEN "dec" ELSE "enqueue")
  /\ UNCHANGED <<managerVars, kernel, eventVars, calls>>

SendPostWithoutReturn(t) ==
  LET s == cur(t) IN
  /\ At(t, "enqueue")
  /\ session' = [session EXCEPT ![s].queue = Append(@, thread[t].id)]
  /\ Goto(t, "flag")
  /\ UNCHANGED <<managerVars, kernel, eventVars, calls>>

\* ... the id is checked again, the packet is queued, and SendPost is called.
SendPacketEnqueue(t) ==
  LET s == cur(t) IN
  /\ At(t, "enqueue")
  /\ IF session[s].id = thread[t].id /\ ~session[s].released
     THEN /\ session' = [session EXCEPT ![s].queue = Append(@, thread[t].id)]
          /\ Call(t, "flag", "dec")
     ELSE Goto(t, "dec") /\ UNCHANGED session
  /\ UNCHANGED <<managerVars, kernel, eventVars, calls>>

\* OnReceived calls Disconnect: TryRemoveSession without giving up a reference.
Disconnect(t) ==
  /\ At(t, "received") /\ calls < MaxCalls
  /\ calls' = calls + 1
  /\ Call(t, "release_id", "received")
  /\ UNCHANGED <<managerVars, session, kernel, eventVars>>

Serve(t) ==
  \/ \E s \in Slot, op \in Op : Completion(t, s, op)
  \/ NetworkSendCompleted(t) \/ NetworkRecvCompleted(t) \/ CancelationIO(t)
  \/ SendPacketFind(t) \/ SendPacketAcquire(t) \/ SendPacketEnqueue(t) \/ Disconnect(t)

-----------------------------------------------------------------------------
(* The kernel and the remote ends (external).                              *)

PeerLeaves(s) ==
  /\ kernel[s].peer /\ ~session[s].closed
  /\ kernel' = [kernel EXCEPT ![s].peer = FALSE]
  /\ UNCHANGED <<managerVars, session, thread, eventVars, calls>>

\* A pending operation completes: with data while the remote end is there,
\* with 0 bytes (a receive) or an error once it is gone.
KernelCompletes(s, op) ==
  /\ kernel[s].op[op] = "pending"
  /\ \E st \in IF kernel[s].peer THEN {"ok"}
               ELSE IF op = "recv" THEN {"zero", "fail"} ELSE {"ok", "fail"} :
       kernel' = [kernel EXCEPT ![s].op[op] = st]
  /\ UNCHANGED <<managerVars, session, thread, eventVars, calls>>

-----------------------------------------------------------------------------
(* The specification. *)

Init ==
  /\ unused = Slot /\ uidAcc = 0 /\ connected = 0
  /\ session = [s \in Slot |->
       [id |-> 0, released |-> TRUE, ioCount |-> 0, closed |-> TRUE,
        queue |-> <<>>, sending |-> <<>>, isSending |-> 0]]
  /\ kernel = [s \in Slot |-> [op |-> [op \in Op |-> "idle"], peer |-> FALSE]]
  /\ thread = [t \in Thread |->
       [pc |-> "idle", ret |-> <<>>, cur |-> CHOOSE s \in Slot : TRUE, id |-> 0]]
  /\ joined = {} /\ left = {} /\ refused = {} /\ calls = 0

\* Until an exception or an assertion ends the process, or the accept thread
\* goes on with a slot it was not given.
EndLabel == {"threw", "refused", "aborted", "index_zero"}
Running == \A t \in Thread : thread[t].pc \notin EndLabel

Step(t) == Running /\ (TryRemoveSession(t) \/ Post(t))

Next ==
  \/ Running /\ (Create \/ PopFails \/ \E s \in Slot : GenUniqueSessionID(s))
  \/ \E t \in Thread : Step(t)
  \/ \E t \in IOThread : Running /\ Serve(t)
  \/ \E s \in Slot : PeerLeaves(s) \/ \E op \in Op : KernelCompletes(s, op)

Spec == Init /\ [][Next]_vars

\* Threads are scheduled, and the kernel completes what is pending on a
\* connection that is gone; a send completes in any case.  New clients need
\* not come, and clients may stay connected and silent.
LiveSpec ==
  /\ Spec
  /\ WF_vars(Step(Acceptor) \/ (Running /\ Create))
  /\ \A t \in IOThread : WF_vars(Step(t) \/ (Running /\ Serve(t)))
  /\ \A s \in Slot : /\ WF_vars(~kernel[s].peer /\ KernelCompletes(s, "recv"))
                     /\ WF_vars(KernelCompletes(s, "send"))

-----------------------------------------------------------------------------
(* Properties. *)

\* The references a thread holds to its session: one for each caller that will
\* drop one when it is returned to (the completion under way, SendPacket), and
\* one more at the labels where the running code has its own.
Own(t) ==
  Cardinality({i \in DOMAIN thread[t].ret : thread[t].ret[i] \in {"dec", "received"}})
  + (IF thread[t].pc \in {"finish", "received", "cancel", "enqueue", "dec", "recv_wsa", "send_wsa"}
     THEN 1 ELSE 0)

\* IOCount is exactly the number of references: the operations the kernel has
\* not handed back and what the threads hold, through every failure of
\* WSASend and WSARecv, nested SendPackets and refused Disconnects.
CountIsExact ==
  \A s \in Slot : ~session[s].released =>
    session[s].ioCount =
      Cardinality({op \in Op : kernel[s].op[op] # "idle"})
      + Cardinality({e \in Thread \X (1..4) : cur(e[1]) = s /\ e[2] <= Own(e[1])})

Releasing(t, s) == cur(t) = s /\ thread[t].pc \in {"release", "push", "refused"}
Opening(s) == cur(Acceptor) = s /\ thread[Acceptor].pc \in {"init", "open"}

\* A slot is in exactly one place (the pool, the accept thread's hands, live,
\* or with the one thread that releases it), and a slot that is not live has
\* no packet, no operation the kernel could still complete and no thread at
\* work on it: Init may reset IOCount and the sending flag.  This ends where
\* GenUniqueSessionID goes on although the pool was empty (PopUnchecked): the
\* slot the accept thread then takes was not given to it.
SlotHasOneOwner ==
  ~At(Acceptor, "index_zero") => \A s \in Slot :
    LET releasers == {t \in Thread : Releasing(t, s)} IN
    /\ \A t, u \in releasers : t = u
    /\ ~session[s].released <=> s \notin unused /\ ~Opening(s) /\ releasers = {}
    /\ session[s].released => \A op \in Op : kernel[s].op[op] = "idle"
    /\ s \in unused \/ Opening(s) =>
         /\ session[s].closed /\ session[s].queue = <<>> /\ session[s].sending = <<>>
         /\ \A t \in Thread : cur(t) = s => thread[t].pc \in
              {"idle", "init", "open", "count_down", "on_disconnected",
               "pop_failed", "aborted"}

\* One WSASend at a time per session: between two threads that both saw the
\* flag at 0 only the one whose increment made it 1 sends, and FinishSending
\* does not take the flag from a thread that is about to give it back.
OneSendAtATime ==
  \A s \in Slot :
    LET p == {t \in Thread : cur(t) = s /\ thread[t].pc \in {"dequeue", "send_inc", "send_wsa", "finish"}}
    IN  /\ \A t, u \in p : t = u
        /\ p # {} => kernel[s].op["send"] = "idle" /\ session[s].isSending >= 1

Events == INSTANCE NetEvents WITH
  Session   <- 1..MaxUid,
  Receiver  <- IOThread,
  None      <- 0,
  joined    <- joined \cup refused,
  receiving <- [t \in IOThread |->
                 IF At(t, "received") \/ \E i \in DOMAIN thread[t].ret : thread[t].ret[i] = "received"
                 THEN session[cur(t)].id ELSE 0]

\* The application of LanCore relies on the same contract as NetCore's, except
\* that OnDisconnected also comes for a session that could not be associated.
ImplementsEvents == Events!EventSpec

\* A session whose client has gone is released, unless the process ends first.
GoneClientsAreReleased ==
  \A s \in Slot : (~kernel[s].peer /\ ~session[s].released) ~> session[s].released \/ ~Running
==============================================================================
