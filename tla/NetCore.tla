------------------------------- MODULE NetCore -------------------------------
(***************************************************************************)
(* The session life cycle of nf::network::server::net: NetCore, its        *)
(* accept thread, its IO threads, the application threads that call        *)
(* SendPacket and Disconnect, NetSessionManager and NetSession.            *)
(*                                                                         *)
(* A session is a slot of NetSessionManager's pool.  It carries a          *)
(* reference count (ioCount) of the pending overlapped operations and of   *)
(* the threads working on it; who takes the count to zero releases the     *)
(* slot, and the accept thread reuses it for the next client under a new   *)
(* id.  Nothing is locked: every label of pc below is one atomic access to *)
(* shared memory (an Interlocked call, or a plain read or write), with     *)
(* neighbouring accesses merged where no other thread can tell.            *)
(*                                                                         *)
(* A session id is <<slot, uid>>; what a slot stores is the uid, 0 being   *)
(* session_id::INVALID.  A packet is represented by the uid of the session *)
(* it was addressed to.  The pool of unused slots is a set (its order, and *)
(* the lock-free stack that keeps it, are the matter of LockFreeStack).    *)
(***************************************************************************)
EXTENDS Integers, Sequences, FiniteSets

CONSTANTS
  Slot,          \* the session pool (option.MaxSessionCount of them)
  Acceptor,      \* the thread running NetworkAcceptThread
  IOThread,      \* the threads running NetworkIOThread
  Caller,        \* application threads calling SendPacket / Disconnect
  MaxPerSend,    \* define::MAX_PACKET_COUNT_PER_SEND
  MaxUid,        \* bound: clients accepted per slot
  MaxCalls       \* bound: SendPacket / Disconnect calls made

Thread == {Acceptor} \cup IOThread \cup Caller
Op == {"recv", "send"}
\* An operation is pending, or queued on the IOCP: done, done with 0 bytes, failed.
Status == {"pending", "ok", "zero", "fail"}

ASSUME ThreadAssumption ==
  /\ IsFiniteSet(IOThread) /\ IsFiniteSet(Caller)
  /\ Acceptor \notin IOThread \cup Caller
  /\ IOThread \cap Caller = {}
ASSUME BoundAssumption ==
  /\ IsFiniteSet(Slot) /\ Slot # {}
  /\ MaxPerSend \in Nat \ {0} /\ MaxUid \in Nat /\ MaxCalls \in Nat

VARIABLES
  \* NetSessionManager
  unused,        \* mUnusedSession
  connected,     \* mConnectedSessionCount
  \* NetSession
  released,      \* mReleaseInfo.IsReleasedAtomic
  ioCount,       \* mReleaseInfo.IOCountAtomic
  sessionID,     \* uid part of mNetSessionID, 0 when INVALID
  uidAcc,        \* mSessionUIDAcc
  closed,        \* mIsCloseSocket
  socket,        \* mSocket # INVALID_SOCKET, and the handle is open
  sendQueue,     \* mSendQueue
  isSending,     \* mSendingInfo.IsSendingAtomic
  sending,       \* mSendingInfo.PacketBuffer[0 .. PacketCount-1]
  \* the kernel (external)
  overlapped,    \* per slot and operation: how many are in each Status
  peer,          \* is the remote end still there
  \* thread registers
  pc, cur,       \* program counter, the session worked on
  want, arg,     \* a caller's operation and the uid it was given
  did,           \* NetCore::TryReleaseSession's local sessionID; 0: none
  again,         \* another TryReleaseSession follows the current one
  \* what the application has seen
  known,         \* session ids the application may use
  joined, left,  \* session ids OnConnected / OnDisconnected was called with
  calls,         \* SendPacket / Disconnect calls made so far
  ignored        \* per slot: successful completions that were ignored

managerVars == <<unused, connected>>
sessionVars == <<released, ioCount, sessionID, uidAcc, closed, socket>>
sendVars    == <<sendQueue, isSending, sending>>
kernelVars  == <<overlapped, peer>>
threadVars  == <<pc, cur, want, arg, did, again>>
appVars     == <<known, joined, left, calls, ignored>>

vars == <<managerVars, sessionVars, sendVars, kernelVars, threadVars, appVars>>

Label ==
  {"idle", "threw", "refused", "pop_failed",
   "init_id", "init_fields", "init_open", "count_up", "associate", "on_connected",
   "recv_inc", "recv_socket", "recv_wsa",
   "find", "inc", "check_id", "check_released",
   "enqueue", "cancel", "cancel_io", "finish", "received",
   "send_cas", "send_size", "send_unset", "send_inc", "send_socket", "send_wsa",
   "dec", "release_id", "release_cas",
   "release_close", "release_clear", "push", "count_down", "on_disconnected"}

\* A C++ exception that leaves its thread ends the process.
Running == \A t \in Thread : pc[t] \notin {"threw", "refused"}

At(t, l) == Running /\ pc[t] = l
Goto(t, l) == pc' = [pc EXCEPT ![t] = l]

-----------------------------------------------------------------------------
(* Reference counting. *)

IncrementIO(s) == ioCount' = [ioCount EXCEPT ![s] = @ + 1]

\* Leave TryReleaseSession: back to the caller's own TryReleaseSession when
\* the one just finished belonged to SendPost or RecvPost, else done.
Return(t) ==
  /\ Goto(t, IF again[t] THEN "dec" ELSE "idle")
  /\ again' = [again EXCEPT ![t] = FALSE]

\* DecrementIO, and the early returns of NetCore::TryReleaseSession.
Decrement(t) ==
  LET s == cur[t] IN
  /\ At(t, "dec")
  /\ ioCount' = [ioCount EXCEPT ![s] = @ - 1]
  /\ \/ ioCount[s] - 1 < 0 /\ Goto(t, "threw") /\ UNCHANGED again
     \/ ioCount[s] - 1 = 0 /\ Goto(t, "release_id") /\ UNCHANGED again
     \/ ioCount[s] - 1 > 0 /\ Return(t)
  /\ UNCHANGED <<managerVars, released, sessionID, uidAcc, closed, socket,
                 sendVars, kernelVars, cur, want, arg, did, appVars>>

\* session_id const sessionID = session->GetSessionID();
ReadIdToReport(t) ==
  /\ At(t, "release_id")
  /\ did' = [did EXCEPT ![t] = sessionID[cur[t]]]
  /\ Goto(t, "release_cas")
  /\ UNCHANGED <<managerVars, sessionVars, sendVars, kernelVars,
                 cur, want, arg, again, appVars>>

ReleaseIgnoringReleased(t) ==
  LET s == cur[t] IN
  /\ At(t, "release_cas")
  /\ IF ioCount[s] # 0
     THEN Return(t) /\ UNCHANGED released
     ELSE /\ released' = [released EXCEPT ![s] = TRUE]
          /\ Goto(t, "release_close") /\ UNCHANGED again
  /\ UNCHANGED <<managerVars, ioCount, sessionID, uidAcc, closed, socket,
                 sendVars, kernelVars, cur, want, arg, did, appVars>>

\* NetSessionManager::TryReleaseSession and the 64-bit compare exchange of
\* NetSession::TryRelease: {released 0, ioCount 0} becomes {1, 0}.
ReleaseCas(t) ==
  LET s == cur[t] IN
  /\ At(t, "release_cas")
  /\ IF released[s] \/ ioCount[s] # 0
     THEN Return(t) /\ UNCHANGED released
     ELSE /\ released' = [released EXCEPT ![s] = TRUE]
          /\ Goto(t, "release_close") /\ UNCHANGED again
  /\ UNCHANGED <<managerVars, ioCount, sessionID, uidAcc, closed, socket,
                 sendVars, kernelVars, cur, want, arg, did, appVars>>

\* Pending operations of s, aborted by CancelIoEx or closesocket.
Abort(s) ==
  overlapped' = [overlapped EXCEPT ![s] = [op \in Op |-> [overlapped[s][op] EXCEPT
                   !["pending"] = 0, !["fail"] = @ + overlapped[s][op]["pending"]]]]

\* WSARecv or WSASend took the operation.
Posted(s, op) == overlapped' = [overlapped EXCEPT ![s][op]["pending"] = @ + 1]

\* NetSession::Release: mIsCloseSocket = 1 and closesocket.
ReleaseClose(t) ==
  LET s == cur[t] IN
  /\ At(t, "release_close")
  /\ closed' = [closed EXCEPT ![s] = TRUE]
  /\ socket' = [socket EXCEPT ![s] = FALSE]
  /\ Abort(s)
  /\ Goto(t, "release_clear")
  /\ UNCHANGED <<managerVars, released, ioCount, sessionID, uidAcc, sendVars,
                 peer, cur, want, arg, did, again, appVars>>

ReleaseKeepsSending(t) ==
  LET s == cur[t] IN
  /\ At(t, "release_clear")
  /\ sessionID' = [sessionID EXCEPT ![s] = 0]
  /\ sendQueue' = [sendQueue EXCEPT ![s] = <<>>]
  /\ Goto(t, "push")
  /\ UNCHANGED <<managerVars, released, ioCount, uidAcc, closed, socket,
                 sending, isSending, kernelVars, cur, want, arg, did, again, appVars>>

ReleaseSubtractsFlag(t) ==
  LET s == cur[t] IN
  /\ At(t, "release_clear")
  /\ sessionID' = [sessionID EXCEPT ![s] = 0]
  /\ sendQueue' = [sendQueue EXCEPT ![s] = <<>>]
  /\ sending' = [sending EXCEPT ![s] = <<>>]
  /\ isSending' = [isSending EXCEPT ![s] = @ - 2]
  /\ Goto(t, "push")
  /\ UNCHANGED <<managerVars, released, ioCount, uidAcc, closed, socket,
                 kernelVars, cur, want, arg, did, again, appVars>>

\* The rest of NetSession::Release: the id becomes INVALID, the queued
\* packets are freed, FinishSending frees the ones being sent.
ReleaseClear(t) ==
  LET s == cur[t] IN
  /\ At(t, "release_clear")
  /\ sessionID' = [sessionID EXCEPT ![s] = 0]
  /\ sendQueue' = [sendQueue EXCEPT ![s] = <<>>]
  /\ sending' = [sending EXCEPT ![s] = <<>>]
  /\ isSending' = [isSending EXCEPT ![s] = IF @ = 2 THEN 0 ELSE @]
  /\ Goto(t, "push")
  /\ UNCHANGED <<managerVars, released, ioCount, uidAcc, closed, socket,
                 kernelVars, cur, want, arg, did, again, appVars>>

\* LockFreeStack::Push counts a slot after it has linked it, at the latest when
\* the releasing thread goes on.
NoneCounted == \A s \in unused : \E v \in Thread : pc[v] = "count_down" /\ cur[v] = s

\* if (!mUnusedSession.Push(session)) throw.  LockFreeStack::Push refuses while
\* mUsedSize, an unsigned number to it, is -1: nothing counted is in the pool and
\* the accept thread is within a TryPop that fails.  A Push that made this test
\* before the TryPop began goes through.
Push(t) ==
  /\ At(t, "push")
  /\ \/ /\ unused' = unused \cup {cur[t]}
        /\ Goto(t, "count_down")
     \/ /\ NoneCounted /\ pc[Acceptor] = "pop_failed"
        /\ Goto(t, "refused") /\ UNCHANGED unused
  /\ UNCHANGED <<connected, sessionVars, sendVars, kernelVars,
                 cur, want, arg, did, again, appVars>>

\* InterlockedDecrement64(&mConnectedSessionCount).
CountDown(t) ==
  /\ At(t, "count_down")
  /\ connected' = connected - 1
  /\ Goto(t, "on_disconnected")
  /\ UNCHANGED <<unused, sessionVars, sendVars, kernelVars,
                 cur, want, arg, did, again, appVars>>

\* mEventHandler->OnDisconnected(sessionID); not reached when the accept
\* thread called NetSessionManager::TryReleaseSession itself (did is 0).  A
\* callback with INVALID names no session and is not recorded.
OnDisconnected(t) ==
  /\ At(t, "on_disconnected")
  /\ left' = IF did[t] = 0 THEN left ELSE left \cup {<<cur[t], did[t]>>}
  /\ Return(t)
  /\ UNCHANGED <<managerVars, sessionVars, sendVars, kernelVars,
                 cur, want, arg, did, known, joined, calls, ignored>>

TryReleaseSession(t) ==
  \/ Decrement(t) \/ ReadIdToReport(t) \/ ReleaseCas(t) \/ ReleaseClose(t)
  \/ ReleaseClear(t) \/ Push(t) \/ CountDown(t) \/ OnDisconnected(t)

-----------------------------------------------------------------------------
(* The accept thread: NetworkAcceptThread, CreateSessionOrNull.  A client  *)
(* that is turned away (socket options, OnConnectionRequested, no unused   *)
(* session) leaves no trace in this state.                                 *)

\* NewSessionOrNull: mUnusedSession.TryPop.
PopSession(s) ==
  /\ At(Acceptor, "idle")
  /\ s \in unused /\ uidAcc[s] < MaxUid
  /\ unused' = unused \ {s}
  /\ cur' = [cur EXCEPT ![Acceptor] = s]
  /\ Goto(Acceptor, "init_id")
  /\ UNCHANGED <<connected, sessionVars, sendVars, kernelVars,
                 want, arg, did, again, appVars>>

\* No unused session: TryPop takes mUsedSize below zero, ...
PopFails ==
  /\ At(Acceptor, "idle")
  /\ unused = {}
  /\ Goto(Acceptor, "pop_failed")
  /\ UNCHANGED <<managerVars, sessionVars, sendVars, kernelVars,
                 cur, want, arg, did, again, appVars>>

\* ... takes it back, and the client is turned away.
PopGivesUp ==
  /\ At(Acceptor, "pop_failed")
  /\ Goto(Acceptor, "idle")
  /\ UNCHANGED <<managerVars, sessionVars, sendVars, kernelVars,
                 cur, want, arg, did, again, appVars>>

\* NetSession::Init, up to the new id.
InitId ==
  LET s == cur[Acceptor] IN
  /\ At(Acceptor, "init_id")
  /\ IF released[s]
     THEN /\ uidAcc' = [uidAcc EXCEPT ![s] = @ + 1]
          /\ sessionID' = [sessionID EXCEPT ![s] = uidAcc[s] + 1]
          /\ Goto(Acceptor, "init_fields")
     ELSE Goto(Acceptor, "threw") /\ UNCHANGED <<uidAcc, sessionID>>
  /\ UNCHANGED <<managerVars, released, ioCount, closed, socket, sendVars,
                 kernelVars, cur, want, arg, did, again, appVars>>

\* NetSession::Init, the fields between the id and IsReleasedAtomic.
InitFields ==
  LET s == cur[Acceptor] IN
  /\ At(Acceptor, "init_fields")
  /\ socket' = [socket EXCEPT ![s] = TRUE]
  /\ peer' = [peer EXCEPT ![s] = TRUE]
  /\ sendQueue' = [sendQueue EXCEPT ![s] = <<>>]
  /\ sending' = [sending EXCEPT ![s] = <<>>]
  /\ isSending' = [isSending EXCEPT ![s] = 0]
  /\ closed' = [closed EXCEPT ![s] = FALSE]
  /\ Goto(Acceptor, "init_open")
  /\ UNCHANGED <<managerVars, released, ioCount, sessionID, uidAcc,
                 overlapped, cur, want, arg, did, again, appVars>>

InitOpenResetsCount ==
  /\ At(Acceptor, "init_open")
  /\ released' = [released EXCEPT ![cur[Acceptor]] = FALSE]
  /\ ioCount' = [ioCount EXCEPT ![cur[Acceptor]] = 0]
  /\ Goto(Acceptor, "count_up")
  /\ UNCHANGED <<managerVars, sessionID, uidAcc, closed, socket,
                 sendVars, kernelVars, cur, want, arg, did, again, appVars>>

\* mReleaseInfo.IsReleasedAtomic = 0; the count is left as it is.
InitOpen ==
  /\ At(Acceptor, "init_open")
  /\ released' = [released EXCEPT ![cur[Acceptor]] = FALSE]
  /\ Goto(Acceptor, "count_up")
  /\ UNCHANGED <<managerVars, ioCount, sessionID, uidAcc, closed, socket,
                 sendVars, kernelVars, cur, want, arg, did, again, appVars>>

\* InterlockedIncrement64(&mConnectedSessionCount).
CountUp ==
  /\ At(Acceptor, "count_up")
  /\ connected' = connected + 1
  /\ Goto(Acceptor, "associate")
  /\ UNCHANGED <<unused, sessionVars, sendVars, kernelVars,
                 cur, want, arg, did, again, appVars>>

\* CreateIoCompletionPort; its failure releases the session without a
\* DecrementIO and without OnDisconnected.
Associate ==
  /\ At(Acceptor, "associate")
  /\ \/ Goto(Acceptor, "on_connected") /\ UNCHANGED did
     \/ Goto(Acceptor, "release_cas") /\ did' = [did EXCEPT ![Acceptor] = 0]
  /\ UNCHANGED <<managerVars, sessionVars, sendVars, kernelVars,
                 cur, want, arg, again, appVars>>

\* sessionInfo.SessionID = session->GetSessionID(); OnConnected(sessionInfo).
\* From here on the application may use the id (INVALID names no session).
OnConnected ==
  LET s == cur[Acceptor]
      id == IF sessionID[s] = 0 THEN {} ELSE {<<s, sessionID[s]>>}
  IN
  /\ At(Acceptor, "on_connected")
  /\ joined' = joined \cup id
  /\ known' = known \cup id
  /\ Goto(Acceptor, "recv_inc")
  /\ UNCHANGED <<managerVars, sessionVars, sendVars, kernelVars,
                 cur, want, arg, did, again, left, calls, ignored>>

Accept ==
  \/ \E s \in Slot : PopSession(s)
  \/ PopFails \/ PopGivesUp
  \/ InitId \/ InitFields \/ InitOpen \/ CountUp \/ Associate \/ OnConnected

-----------------------------------------------------------------------------
(* NetCore::RecvPost, by the accept thread and by an IO thread.            *)

\* An IO thread still has its own TryReleaseSession to do.
PostFailed(t) ==
  /\ Goto(t, "dec")
  /\ again' = [again EXCEPT ![t] = (t # Acceptor)]

RecvPostForgetsIncrement(t) ==
  /\ At(t, "recv_inc")
  /\ Goto(t, "recv_socket")
  /\ UNCHANGED <<managerVars, sessionVars, sendVars, kernelVars,
                 cur, want, arg, did, again, appVars>>

RecvPostIncrement(t) ==
  /\ At(t, "recv_inc")
  /\ IncrementIO(cur[t])
  /\ Goto(t, "recv_socket")
  /\ UNCHANGED <<managerVars, released, sessionID, uidAcc, closed, socket,
                 sendVars, kernelVars, cur, want, arg, did, again, appVars>>

\* GetSocket() is INVALID_SOCKET once the session is closed.
RecvPostSocket(t) ==
  /\ At(t, "recv_socket")
  /\ IF closed[cur[t]] THEN PostFailed(t)
                       ELSE Goto(t, "recv_wsa") /\ UNCHANGED again
  /\ UNCHANGED <<managerVars, sessionVars, sendVars, kernelVars,
                 cur, want, arg, did, appVars>>

\* WSARecv: accepted (at once or WSA_IO_PENDING), or refused.
RecvPostWSARecv(t) ==
  LET s == cur[t] IN
  /\ At(t, "recv_wsa")
  /\ \/ /\ socket[s]
        /\ Posted(s, "recv")
        /\ Goto(t, IF t = Acceptor THEN "idle" ELSE "dec")
        /\ UNCHANGED again
     \/ /\ ~socket[s] \/ ~peer[s]
        /\ PostFailed(t)
        /\ UNCHANGED overlapped
  /\ UNCHANGED <<managerVars, sessionVars, sendVars, peer,
                 cur, want, arg, did, appVars>>

RecvPost(t) == RecvPostIncrement(t) \/ RecvPostSocket(t) \/ RecvPostWSARecv(t)

-----------------------------------------------------------------------------
(* NetCore::SendPost, by a caller and by an IO thread.                     *)

SendPostWithoutFlag(t) ==
  /\ At(t, "send_cas")
  /\ isSending' = [isSending EXCEPT ![cur[t]] = 1]
  /\ Goto(t, "send_size")
  /\ UNCHANGED <<managerVars, sessionVars, sendQueue, sending, kernelVars,
                 cur, want, arg, did, again, appVars>>

\* ReadySending: InterlockedCompareExchange64(&IsSendingAtomic, 1, 0).
SendPostCas(t) ==
  LET s == cur[t] IN
  /\ At(t, "send_cas")
  /\ IF isSending[s] = 0
     THEN isSending' = [isSending EXCEPT ![s] = 1] /\ Goto(t, "send_size")
     ELSE UNCHANGED isSending /\ Goto(t, "dec")
  /\ UNCHANGED <<managerVars, sessionVars, sendQueue, sending, kernelVars,
                 cur, want, arg, did, again, appVars>>

\* ReadySending: the queue size is read, too many packets are an exception,
\* none means giving the flag back, else that many packets are dequeued to
\* PacketBuffer and the flag becomes 2.
SendPostDequeue(t) ==
  LET s == cur[t]
      n == Len(sendQueue[s])
  IN
  /\ At(t, "send_size")
  /\ \/ n > MaxPerSend /\ Goto(t, "threw") /\ UNCHANGED sendVars
     \/ n = 0 /\ Goto(t, "send_unset") /\ UNCHANGED sendVars
     \/ /\ n \in 1..MaxPerSend
        /\ sending' = [sending EXCEPT ![s] = sendQueue[s]]
        /\ sendQueue' = [sendQueue EXCEPT ![s] = <<>>]
        /\ isSending' = [isSending EXCEPT ![s] = 2]
        /\ Goto(t, "send_inc")
  /\ UNCHANGED <<managerVars, sessionVars, kernelVars,
                 cur, want, arg, did, again, appVars>>

\* ReadySending: InterlockedCompareExchange64(&IsSendingAtomic, 0, 1).
SendPostUnset(t) ==
  /\ At(t, "send_unset")
  /\ isSending' = [isSending EXCEPT ![cur[t]] = IF @ = 1 THEN 0 ELSE @]
  /\ Goto(t, "dec")
  /\ UNCHANGED <<managerVars, sessionVars, sendQueue, sending, kernelVars,
                 cur, want, arg, did, again, appVars>>

SendPostIncrement(t) ==
  /\ At(t, "send_inc")
  /\ IncrementIO(cur[t])
  /\ Goto(t, "send_socket")
  /\ UNCHANGED <<managerVars, released, sessionID, uidAcc, closed, socket,
                 sendVars, kernelVars, cur, want, arg, did, again, appVars>>

SendPostSocket(t) ==
  /\ At(t, "send_socket")
  /\ IF closed[cur[t]] THEN PostFailed(t)
                       ELSE Goto(t, "send_wsa") /\ UNCHANGED again
  /\ UNCHANGED <<managerVars, sessionVars, sendVars, kernelVars,
                 cur, want, arg, did, appVars>>

SendPostWSASend(t) ==
  LET s == cur[t] IN
  /\ At(t, "send_wsa")
  /\ \/ /\ socket[s]
        /\ Posted(s, "send")
        /\ Goto(t, "dec")
        /\ UNCHANGED again
     \/ /\ ~socket[s] \/ ~peer[s]
        /\ PostFailed(t)
        /\ UNCHANGED overlapped
  /\ UNCHANGED <<managerVars, sessionVars, sendVars, peer,
                 cur, want, arg, did, appVars>>

SendPost(t) ==
  \/ SendPostCas(t) \/ SendPostDequeue(t) \/ SendPostUnset(t)
  \/ SendPostIncrement(t) \/ SendPostSocket(t) \/ SendPostWSASend(t)

-----------------------------------------------------------------------------
(* NetSession::CancelationIO. *)

\* The first to close the session goes on to CancelIoEx.
CancelationIO(t) ==
  LET s == cur[t] IN
  /\ At(t, "cancel")
  /\ closed' = [closed EXCEPT ![s] = TRUE]
  /\ Goto(t, IF closed[s] THEN "dec" ELSE "cancel_io")
  /\ UNCHANGED <<managerVars, released, ioCount, sessionID, uidAcc, socket,
                 sendVars, kernelVars, cur, want, arg, did, again, appVars>>

\* CancelIoEx(mSocket, NULL): the operations pending now are aborted.
CancelIoEx(t) ==
  /\ At(t, "cancel_io")
  /\ Abort(cur[t])
  /\ Goto(t, "dec")
  /\ UNCHANGED <<managerVars, sessionVars, sendVars, peer,
                 cur, want, arg, did, again, appVars>>

Cancel(t) == CancelationIO(t) \/ CancelIoEx(t)

-----------------------------------------------------------------------------
(* Application threads: SendPacket and Disconnect, both through            *)
(* AcquireSessionOrNull.                                                   *)

\* FindSessionOrNull: the id is compared, ...
FindId(t, op, s, u) ==
  /\ At(t, "idle") /\ calls < MaxCalls
  /\ <<s, u>> \in known
  /\ calls' = calls + 1
  /\ IF sessionID[s] = u
     THEN /\ cur' = [cur EXCEPT ![t] = s]
          /\ arg' = [arg EXCEPT ![t] = u]
          /\ want' = [want EXCEPT ![t] = op]
          /\ Goto(t, "find")
     ELSE UNCHANGED <<cur, arg, want, pc>>
  /\ UNCHANGED <<managerVars, sessionVars, sendVars, kernelVars,
                 did, again, known, joined, left, ignored>>

\* ... then closed and released are read, of whatever session is there now.
FindOpen(t) ==
  LET s == cur[t] IN
  /\ At(t, "find")
  /\ Goto(t, IF closed[s] \/ released[s] THEN "idle" ELSE "inc")
  /\ UNCHANGED <<managerVars, sessionVars, sendVars, kernelVars,
                 cur, want, arg, did, again, appVars>>

\* if (mSessionManager->IncrementIO(session) == 1) the session was dying.
AcquireIncrement(t) ==
  LET s == cur[t] IN
  /\ At(t, "inc")
  /\ IncrementIO(s)
  /\ Goto(t, IF ioCount[s] + 1 = 1 THEN "dec" ELSE "check_id")
  /\ UNCHANGED <<managerVars, released, sessionID, uidAcc, closed, socket,
                 sendVars, kernelVars, cur, want, arg, did, again, appVars>>

AcquireCheckId(t) ==
  /\ At(t, "check_id")
  /\ Goto(t, IF sessionID[cur[t]] # arg[t] THEN "dec" ELSE "check_released")
  /\ UNCHANGED <<managerVars, sessionVars, sendVars, kernelVars,
                 cur, want, arg, did, again, appVars>>

AcquireCheckReleased(t) ==
  /\ At(t, "check_released")
  /\ Goto(t, IF released[cur[t]] THEN "dec"
             ELSE IF want[t] = "send" THEN "enqueue" ELSE "cancel")
  /\ UNCHANGED <<managerVars, sessionVars, sendVars, kernelVars,
                 cur, want, arg, did, again, appVars>>

\* NetSession::Enqueue (IsSendRecvable, then mSendQueue.Enqueue, which never
\* refuses), after EncodeOnce.
EnqueuePacket(t) ==
  LET s == cur[t] IN
  /\ At(t, "enqueue")
  /\ IF ~closed[s] \/ ~released[s]
     THEN /\ sendQueue' = [sendQueue EXCEPT ![s] = Append(@, arg[t])]
          /\ Goto(t, "send_cas")
     ELSE Goto(t, "dec") /\ UNCHANGED sendQueue
  /\ UNCHANGED <<managerVars, sessionVars, isSending, sending, kernelVars,
                 cur, want, arg, did, again, appVars>>

Call(t) ==
  \/ \E op \in {"send", "disconnect"}, s \in Slot, u \in 1..MaxUid :
        FindId(t, op, s, u)
  \/ FindOpen(t) \/ AcquireIncrement(t) \/ AcquireCheckId(t) \/ AcquireCheckReleased(t)
  \/ EnqueuePacket(t)

-----------------------------------------------------------------------------
(* NetworkIOThread: one completion at a time.                              *)

CompletionForgetsRelease(t, s, op, st) ==
  /\ At(t, "idle")
  /\ st # "pending" /\ overlapped[s][op][st] > 0
  /\ overlapped' = [overlapped EXCEPT ![s][op][st] = @ - 1]
  /\ cur' = [cur EXCEPT ![t] = s]
  /\ Goto(t, IF st \in {"zero", "fail"} \/ closed[s] THEN "idle"
             ELSE IF op = "send" THEN "finish" ELSE "received")
  /\ UNCHANGED <<managerVars, sessionVars, sendVars, peer,
                 want, arg, did, again, appVars>>

\* GetQueuedCompletionStatus and the tests before the completion is handled.
\* A failed one only drops its reference (after CancelationIO when the error
\* is ERROR_SEM_TIMEOUT); a successful one on a released session is ignored.
Completion(t, s, op, st) ==
  /\ At(t, "idle")
  /\ st # "pending" /\ overlapped[s][op][st] > 0
  /\ overlapped' = [overlapped EXCEPT ![s][op][st] = @ - 1]
  /\ cur' = [cur EXCEPT ![t] = s]
  /\ \/ st = "fail" /\ Goto(t, "dec")
     \/ st = "fail" /\ ~released[s] /\ Goto(t, "cancel")
     \/ st # "fail" /\ released[s] /\ Goto(t, "idle")
     \/ st # "fail" /\ ~released[s] /\ (st = "zero" \/ closed[s]) /\ Goto(t, "dec")
     \/ /\ st = "ok" /\ ~released[s] /\ ~closed[s]
        /\ Goto(t, IF op = "send" THEN "finish" ELSE "received")
  /\ ignored' = IF st # "fail" /\ released[s] THEN [ignored EXCEPT ![s] = @ + 1] ELSE ignored
  /\ UNCHANGED <<managerVars, sessionVars, sendVars, peer,
                 want, arg, did, again, known, joined, left, calls>>

\* FinishSending, OnSent, and on to SendPost.
FinishSending(t) ==
  LET s == cur[t] IN
  /\ At(t, "finish")
  /\ sending' = [sending EXCEPT ![s] = <<>>]
  /\ isSending' = [isSending EXCEPT ![s] = IF @ = 2 THEN 0 ELSE @]
  /\ Goto(t, "send_cas")
  /\ UNCHANGED <<managerVars, sessionVars, sendQueue, kernelVars,
                 cur, want, arg, did, again, appVars>>

\* NetworkRecvCompleted: OnReceived for the packets that are complete (none,
\* or some), then receive again; or CancelationIO, because a packet is
\* malformed, its handler ran out of bytes, or the receive queue is full.
NetworkRecvCompleted(t) ==
  LET s == cur[t] IN
  /\ At(t, "received")
  /\ \/ known' = known \cup {<<s, sessionID[s]>>}
     \/ UNCHANGED known
  /\ \/ Goto(t, "recv_inc")
     \/ Goto(t, "cancel")
  /\ UNCHANGED <<managerVars, sessionVars, sendVars, kernelVars,
                 cur, want, arg, did, again, joined, left, calls, ignored>>

Serve(t) ==
  \/ \E s \in Slot, op \in Op, st \in Status : Completion(t, s, op, st)
  \/ FinishSending(t) \/ NetworkRecvCompleted(t)

-----------------------------------------------------------------------------
(* The kernel and the remote ends (external).                              *)

\* The remote end goes away.
PeerLeaves(s) ==
  /\ peer[s] /\ socket[s]
  /\ peer' = [peer EXCEPT ![s] = FALSE]
  /\ UNCHANGED <<managerVars, sessionVars, sendVars, overlapped, threadVars, appVars>>

\* A pending operation completes: with data while the remote end is there,
\* with 0 bytes (a receive) or an error once it is gone.
KernelCompletes(s, op) ==
  /\ overlapped[s][op]["pending"] > 0
  /\ \E st \in IF peer[s] THEN {"ok"}
               ELSE IF op = "recv" THEN {"zero", "fail"} ELSE {"ok", "fail"} :
       overlapped' = [overlapped EXCEPT ![s][op]["pending"] = @ - 1, ![s][op][st] = @ + 1]
  /\ UNCHANGED <<managerVars, sessionVars, sendVars, peer, threadVars, appVars>>

Environment ==
  \E s \in Slot : PeerLeaves(s) \/ \E op \in Op : KernelCompletes(s, op)

-----------------------------------------------------------------------------
(* The specification. *)

Init ==
  /\ unused = Slot /\ connected = 0
  /\ released = [s \in Slot |-> TRUE]
  /\ ioCount = [s \in Slot |-> 0]
  /\ sessionID = [s \in Slot |-> 0]
  /\ uidAcc = [s \in Slot |-> 0]
  /\ closed = [s \in Slot |-> TRUE]
  /\ socket = [s \in Slot |-> FALSE]
  /\ sendQueue = [s \in Slot |-> <<>>]
  /\ isSending = [s \in Slot |-> 0]
  /\ sending = [s \in Slot |-> <<>>]
  /\ overlapped = [s \in Slot |-> [op \in Op |-> [st \in Status |-> 0]]]
  /\ peer = [s \in Slot |-> FALSE]
  /\ pc = [t \in Thread |-> "idle"]
  /\ cur = [t \in Thread |-> CHOOSE s \in Slot : TRUE]
  /\ want = [t \in Thread |-> "send"]
  /\ arg = [t \in Thread |-> 0]
  /\ did = [t \in Thread |-> 0]
  /\ again = [t \in Thread |-> FALSE]
  /\ known = {} /\ joined = {} /\ left = {} /\ calls = 0
  /\ ignored = [s \in Slot |-> 0]

Step(t) == TryReleaseSession(t) \/ RecvPost(t) \/ SendPost(t) \/ Cancel(t)

Next ==
  \/ Accept
  \/ \E t \in Thread : Step(t)
  \/ \E t \in Caller : Call(t)
  \/ \E t \in IOThread : Serve(t)
  \/ Environment

Spec == Init /\ [][Next]_vars

\* Threads are scheduled, and the kernel completes what is pending on a
\* connection that is gone; a send completes in any case.  Nothing is assumed
\* of the remote ends: a client may stay connected and silent, and new clients
\* and calls need not come.
Fairness ==
  /\ WF_vars(Step(Acceptor) \/ PopGivesUp \/ InitId \/ InitFields \/ InitOpen \/ CountUp
              \/ Associate \/ OnConnected)
  /\ \A t \in Caller : WF_vars(Step(t) \/ FindOpen(t) \/ AcquireIncrement(t) \/ AcquireCheckId(t)
                               \/ AcquireCheckReleased(t) \/ EnqueuePacket(t))
  /\ \A t \in IOThread : WF_vars(Step(t) \/ Serve(t))
  /\ \A s \in Slot : /\ WF_vars(~peer[s] /\ KernelCompletes(s, "recv"))
                     /\ WF_vars(KernelCompletes(s, "send"))

LiveSpec == Spec /\ Fairness

-----------------------------------------------------------------------------
(* Properties. *)

\* Every variable has a value of its kind.
TypeOK ==
  /\ unused \in SUBSET Slot /\ connected \in Int
  /\ released \in [Slot -> BOOLEAN] /\ ioCount \in [Slot -> Int]
  /\ sessionID \in [Slot -> Nat] /\ uidAcc \in [Slot -> Nat]
  /\ closed \in [Slot -> BOOLEAN] /\ socket \in [Slot -> BOOLEAN]
  /\ sendQueue \in [Slot -> Seq(Nat)] /\ sending \in [Slot -> Seq(Nat)]
  /\ isSending \in [Slot -> {0, 1, 2}]
  /\ overlapped \in [Slot -> [Op -> [Status -> Nat]]] /\ peer \in [Slot -> BOOLEAN]
  /\ pc \in [Thread -> Label] /\ cur \in [Thread -> Slot]
  /\ want \in [Thread -> {"send", "disconnect"}] /\ arg \in [Thread -> Nat]
  /\ did \in [Thread -> Nat] /\ again \in [Thread -> BOOLEAN]
  /\ known \in SUBSET (Slot \X Nat) /\ joined \in SUBSET (Slot \X Nat)
  /\ left \in SUBSET (Slot \X Nat) /\ calls \in Nat /\ ignored \in [Slot -> Nat]

\* Labels at which a thread other than the accept thread holds the reference
\* it acquired (caller) or took over from the completed operation (IO thread).
UseLabel == {"enqueue", "cancel", "cancel_io", "finish", "received",
             "send_cas", "send_size", "send_unset",
             "send_inc", "send_socket", "send_wsa",
             "recv_inc", "recv_socket", "recv_wsa"}
\* Labels at which a thread holds the reference of the operation it posts.
PostLabel == {"recv_socket", "recv_wsa", "send_socket", "send_wsa"}
\* Labels after the decrement that reached zero.
ReleaseLabel == {"release_id", "release_cas", "release_close", "release_clear",
                 "push", "count_down", "on_disconnected"}

OwnRef(t)  == /\ t # Acceptor
              /\ \/ pc[t] \in UseLabel \cup {"check_id", "check_released", "dec"}
                 \/ pc[t] \in ReleaseLabel /\ again[t]
PostRef(t) == \/ pc[t] \in PostLabel
              \/ pc[t] = "dec" /\ (again[t] \/ t = Acceptor)

\* The references threads hold to slot s: <<thread, kind>>.
Refs(s) == {r \in Thread \X {"own", "post"} :
              /\ cur[r[1]] = s
              /\ r[2] = "own"  => OwnRef(r[1])
              /\ r[2] = "post" => PostRef(r[1])}

\* The operations of slot s the kernel has, or IO threads have not yet taken
\* from the IOCP.  Each holds a reference.
InFlightOf(s, op) == LET o == overlapped[s][op] IN o["pending"] + o["ok"] + o["zero"] + o["fail"]
InFlight(s) == InFlightOf(s, "recv") + InFlightOf(s, "send")

\* ioCount never falls behind the references that are really held, through
\* every early return and error path of Acquire, SendPost, RecvPost and the
\* completion handler, and across reuse of the slot (NetSession::Init does
\* not touch it).  Hence a session in use is never released, and
\* DecrementIO never goes below zero.
CountCoversRefs == \A s \in Slot : ioCount[s] >= Cardinality(Refs(s)) + InFlight(s)

\* An exception ends the process in two cases only: more packets are queued
\* than ReadySending's buffer takes, or a session is released in the middle of a
\* TryPop that fails, and the pool, empty but for what is being counted, refuses it.  DecrementIO never goes
\* below zero and NetSession::Init always finds the session released.
ThrowsForCause ==
  \A t \in Thread :
    /\ pc[t] = "threw" => Len(sendQueue[cur[t]]) > MaxPerSend
    /\ pc[t] = "refused" => pc[Acceptor] = "pop_failed" /\ released[cur[t]] /\ NoneCounted

\* A thread that owns slot s while it is released and out of the pool.
Releasing(t, s) ==
  cur[t] = s /\ pc[t] \in {"release_close", "release_clear", "push", "refused"}
Opening(s) == cur[Acceptor] = s /\ pc[Acceptor] \in {"init_id", "init_fields", "init_open"}

\* A slot is in exactly one place: in the pool, being prepared by the accept
\* thread, live, or being released by exactly one thread.  So no slot is
\* pushed twice or handed to two clients, and none is lost.
SlotHasOneOwner ==
  \A s \in Slot :
    LET releasers == {t \in Thread : Releasing(t, s)} IN
    /\ \A t, u \in releasers : t = u
    /\ ~released[s] => s \notin unused /\ ~Opening(s) /\ releasers = {}
    /\ released[s] =>
         \/ s \in unused /\ ~Opening(s) /\ releasers = {}
         \/ s \notin unused /\ Opening(s) /\ releasers = {}
         \/ s \notin unused /\ ~Opening(s) /\ releasers # {}

\* What NetSession::Init asserts of the slot it is given: released, closed,
\* nothing queued, nothing being sent.
CleanWhenReused ==
  pc[Acceptor] = "init_id" =>
    LET s == cur[Acceptor] IN
    /\ released[s] /\ closed[s] /\ ~socket[s] /\ sessionID[s] = 0
    /\ sendQueue[s] = <<>> /\ sending[s] = <<>> /\ isSending[s] = 0

\* After AcquireSessionOrNull returned a session, and while a completion is
\* handled, the session is not released under the thread.
UsersKeepItAlive ==
  \A t \in Thread \ {Acceptor} :
    pc[t] \in UseLabel => ~released[cur[t]]

Posting(s, labels) == {t \in Thread : cur[t] = s /\ pc[t] \in labels}

\* The session has one OVERLAPPED for sending.  From the flag in ReadySending
\* to FinishSending a send is in one place: with one thread, or with the kernel;
\* a released session has none.  However old the ids that are used, and however
\* soon the slot is used again.
OneSendPerOverlapped ==
  \A s \in Slot :
    LET p == Posting(s, {"send_size", "send_unset", "send_inc", "send_socket", "send_wsa",
                         "finish"})
    IN  /\ \A t, u \in p : t = u
        /\ p # {} \/ released[s] => InFlightOf(s, "send") = 0
        /\ InFlightOf(s, "send") <= 1

\* mConnectedSessionCount is the number of sessions that are live or being
\* released, give or take the updates under way.
ConnectedIsExact ==
  connected = Cardinality({s \in Slot : ~released[s]})
              + Cardinality({t \in Thread : pc[t] \in
                   {"release_close", "release_clear", "push", "refused", "count_down"}})
              - (IF pc[Acceptor] = "count_up" THEN 1 ELSE 0)

\* assert(joinedUserCout >= 0) of NetSessionManager::TryReleaseSession.  This
\* is not so: NewSessionOrNull counts a session after Init has made it live.
CountNeverNegative == connected >= 0

\* The session in slot s has not been announced yet (or never will be, if it
\* could not be associated), or its first receive has yet to be posted.
Starting(s) ==
  \/ <<s, uidAcc[s]>> \notin joined
  \/ cur[Acceptor] = s /\ pc[Acceptor] = "recv_inc"

\* A session ends for a reason: it was closed by the server, its client has
\* gone, or the accept thread is not done with it.  Once its first receive is
\* posted nobody ends a healthy session: not a caller with an id of the slot's
\* former session, not an old completion, not an error path.
ReleasedForCause ==
  [][\A s \in Slot : released'[s] /\ ~released[s] =>
       closed[s] \/ ~peer[s] \/ Starting(s)]_vars

\* No packet is left behind: with no send in flight and nobody on the way to
\* SendPost, a live session's queue is empty (ReadySending gives the
\* IsSending flag back only because "the previous send used up the queue").
NoStrandedPacket ==
  \A s \in Slot :
    /\ ~released[s] /\ isSending[s] = 0
    /\ \A t \in Thread : cur[t] = s => pc[t] # "send_cas"
    => sendQueue[s] = <<>>

\* A session whose client has gone is released: every operation comes back,
\* every reference is dropped, and somebody takes the count to zero.  This fails
\* only for a slot of which a successful completion has been ignored, because it
\* found the session released: its reference stays counted for good.
GoneClientsAreReleased ==
  \A s \in Slot : (~peer[s] /\ ~released[s]) ~> (released[s] \/ ignored[s] > 0 \/ ~Running)

==============================================================================
