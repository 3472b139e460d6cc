------------------------------ MODULE ChatServer ------------------------------
(***************************************************************************)
(* The chat server of playground_net above NetCore's callbacks:            *)
(* EventHandler, ChatUserManager, SectorManager and ChatUser.              *)
(*                                                                         *)
(* Network threads turn OnReceived and OnDisconnected into jobs, a timer   *)
(* thread adds heartbeat jobs, one job thread handles them: it alone works *)
(* on the users and the sectors.  A received packet is shared between the  *)
(* network thread and its job by a reference count.  The order in which    *)
(* the callbacks come is the loose one of NetEvents: a session may be      *)
(* received from twice at a time, its end may be reported twice.           *)
(* OnConnected does nothing.                                               *)
(*                                                                         *)
(* A request is what a packet says: its type, the account and the sector   *)
(* it names, and whether its body has all the bytes the handler reads.     *)
(* The sector is any pair of numbers; a position is checked by asserts     *)
(* only, so one that is not on the map ends a process built with them and  *)
(* is used as it is by one built without.                                  *)
(***************************************************************************)
EXTENDS Integers, Sequences, FiniteSets

CONSTANTS
  Session,       \* session ids; NetCore does not announce an id again
  Account,       \* AccountNo
  User,          \* the ChatUser objects of mUserPool
  Packet,        \* the receive packets of PacketPool
  Receiver,      \* the network threads
  None,          \* nullptr, session_id::INVALID
  Side,          \* width and height of the sector map (dfSECTOR_X_MAX)
  Request,       \* what clients send
  MaxCallbacks,  \* bound: calls of OnReceived and OnDisconnected
  MaxTicks,      \* bound: periods of the heartbeat thread
  MaxLate        \* bound: jobs at a time that cannot be dequeued yet

Nowhere == <<-1, -1>>    \* mInvalidSectorPos
Sector == (0..(Side - 1)) \X (0..(Side - 1))

\* mSector[pos.Y * mWidth + pos.X]
IndexOf(pos) == pos[2] * Side + pos[1]
SectorIndex == 0..(Side * Side - 1)

UserRequest == {"UserLogin", "UserSectorMove", "UserMessage", "UserHeartBeat"}

\* The jobs of the queue: what a client asks for, and what the server asks itself.
Job == [type : UserRequest \cup {"SystemDisconnectUser", "SystemHeartBeat"},
        session : Session \cup {None}, packet : Packet \cup {None}]

ASSUME ChatAssumption ==
  /\ Side \in Nat \ {0}
  /\ MaxCallbacks \in Nat /\ MaxTicks \in Nat /\ MaxLate \in Nat
  /\ None \notin Session \cup Packet \cup Job
  /\ \A r \in Request : /\ r.type \in UserRequest \cup {"INVALID"}
                        /\ r.account \in Account /\ r.whole \in BOOLEAN
                        /\ r.dest \in Nat \X Nat

VARIABLES
  left, receiving,                    \* NetEvents
  \* packets
  refCount,      \* mRefCount; 0: the packet is in the pool
  content,       \* the request in a packet
  \* network threads
  pc, held,      \* program counter, the packet of the receive under way
  \* the job queue and the events
  mJobQueue,     \* the jobs TryDequeue can reach
  lateJobs,      \* jobs linked behind the node of an Enqueue still under way
  overtaken,     \* history: the sessions with a request that was late
  mJobEvent, mIsQuit, mQuitEvent,
  \* the job, heartbeat and main threads
  jobPc, job,    \* job: the one being handled, or None
  beatPc, mainPc,
  \* users and sectors
  mSessionUserMap, mAccountUserMap, mUserPool,
  user,          \* the fields of the ChatUser objects
  mSector,       \* the array of user lists
  \* what the job being handled told NetCore to do
  sends,         \* SendPacket: how often, per session
  cuts,          \* Disconnect: the sessions
  callbacks, ticks

eventVars  == <<left, receiving>>
packetVars == <<refCount, content>>
threadVars == <<pc, held>>
jobsVars   == <<mJobQueue, lateJobs, overtaken>>
queueVars  == <<jobsVars, mJobEvent>>
jobVars    == <<jobPc, job, sends, cuts>>
userVars   == <<mSessionUserMap, mAccountUserMap, mUserPool, user, mSector>>
beatVars   == <<beatPc, ticks>>
mainVars   == <<mainPc, mIsQuit, mQuitEvent>>
vars == <<eventVars, packetVars, threadVars, queueVars, jobVars, userVars, beatVars,
          mainVars, callbacks>>

Net == INSTANCE NetEvents WITH joined <- {}

Goto(t, l) == pc' = [pc EXCEPT ![t] = l]

\* mJobPool.Rent(type, sessionID, packet) and mJobQueue.Enqueue.  The node is
\* linked behind the last one, or behind a node that its own Enqueue has not
\* linked yet: then TryDequeue reaches later jobs first.
Enqueue(type, s, p) ==
  LET x == [type |-> type, session |-> s, packet |-> p] IN
  \/ /\ mJobQueue' = Append(mJobQueue, x)
     /\ UNCHANGED <<lateJobs, overtaken>>
  \/ /\ x \notin lateJobs /\ Cardinality(lateJobs) < MaxLate
     /\ lateJobs' = lateJobs \cup {x}
     /\ overtaken' = IF type \in UserRequest THEN overtaken \cup {s} ELSE overtaken
     /\ UNCHANGED mJobQueue

\* The Enqueue that x hangs behind links its own node.
LinkLate(x) ==
  /\ x \in lateJobs
  /\ lateJobs' = lateJobs \ {x}
  /\ mJobQueue' = Append(mJobQueue, x)
  /\ UNCHANGED <<eventVars, packetVars, threadVars, overtaken, mJobEvent, jobVars, userVars,
                 beatVars, mainVars, callbacks>>

\* mJobQueue.IsEmpty() counts the jobs that cannot be reached yet, and TryDequeue
\* then waits for one that can.
IsEmpty == mJobQueue = <<>> /\ lateJobs = {}

\* PacketPool::TryFreeRecv: SubRef, and back to the pool with the last reference.
TryFreeRecv(p) ==
  /\ refCount' = [refCount EXCEPT ![p] = @ - 1]
  /\ content' = IF refCount[p] = 1 THEN [content EXCEPT ![p] = None] ELSE content
FreePacket(j) == IF j.packet = None THEN UNCHANGED packetVars ELSE TryFreeRecv(j.packet)

-----------------------------------------------------------------------------
(* Callbacks of the network threads. *)

\* NetworkRecvCompleted takes a packet for a complete message.
Receive(t, s, p, r) ==
  /\ mainPc = "running" /\ pc[t] = "idle" /\ callbacks < MaxCallbacks
  /\ refCount[p] = 0
  /\ Net!BeginAnyReceive(t, s)
  /\ refCount' = [refCount EXCEPT ![p] = 1]
  /\ content' = [content EXCEPT ![p] = r]
  /\ held' = [held EXCEPT ![t] = p]
  /\ callbacks' = callbacks + 1
  /\ Goto(t, "received")
  /\ UNCHANGED <<queueVars, jobVars, userVars, beatVars, mainVars>>

OnReceivedSharesLate(t) ==
  LET p == held[t] IN
  /\ pc[t] = "received"
  /\ \/ /\ ~mIsQuit /\ content[p].type \in UserRequest
        /\ Enqueue(content[p].type, receiving[t], p)
        /\ Goto(t, "set_received")
     \/ /\ mIsQuit \/ content[p].type \notin UserRequest
        /\ Goto(t, "free")
        /\ UNCHANGED jobsVars
  /\ UNCHANGED <<eventVars, held, callbacks, packetVars, mJobEvent, jobVars, userVars,
                 beatVars, mainVars>>

\* OnReceived: a packet of a known type becomes a job that shares it.  For any
\* other the session is disconnected; what NetCore makes of that comes back as
\* OnDisconnected.
OnReceived(t) ==
  LET p == held[t] IN
  /\ pc[t] = "received"
  /\ \/ /\ ~mIsQuit /\ content[p].type \in UserRequest
        /\ refCount' = [refCount EXCEPT ![p] = @ + 1]
        /\ Enqueue(content[p].type, receiving[t], p)
        /\ Goto(t, "set_received")
     \/ /\ mIsQuit \/ content[p].type \notin UserRequest
        /\ Goto(t, "free")
        /\ UNCHANGED <<refCount, jobsVars>>
  /\ UNCHANGED <<eventVars, held, callbacks, content, mJobEvent, jobVars, userVars,
                 beatVars, mainVars>>

\* OnDisconnected on a network thread ...
OnDisconnected(t, s) ==
  /\ mainPc = "running" /\ pc[t] = "idle" /\ callbacks < MaxCallbacks
  /\ Net!LeaveAtAnyTime(s)
  /\ Enqueue("SystemDisconnectUser", s, None)
  /\ Goto(t, "set_left")
  /\ callbacks' = callbacks + 1
  /\ UNCHANGED <<held, packetVars, mJobEvent, jobVars, userVars, beatVars,
                 mainVars>>

SetOnlyAfterReceive(t) ==
  /\ pc[t] \in {"set_received", "set_left"}
  /\ mJobEvent' = (mJobEvent \/ pc[t] = "set_received")
  /\ Goto(t, IF pc[t] = "set_received" THEN "free" ELSE "idle")
  /\ UNCHANGED <<eventVars, held, callbacks, packetVars, jobsVars, jobVars, userVars,
                 beatVars, mainVars>>

\* mJobEvent.Set(), the last step of OnReceived and OnDisconnected.
SetJobEvent(t) ==
  /\ pc[t] \in {"set_received", "set_left"}
  /\ mJobEvent' = TRUE
  /\ Goto(t, IF pc[t] = "set_received" THEN "free" ELSE "idle")
  /\ UNCHANGED <<eventVars, held, callbacks, packetVars, jobsVars, jobVars, userVars,
                 beatVars, mainVars>>

\* NetworkRecvCompleted gives its reference up when OnReceived is back.
ReceiveDone(t) ==
  /\ pc[t] = "free"
  /\ TryFreeRecv(held[t])
  /\ Net!EndReceive(t)
  /\ held' = [held EXCEPT ![t] = None]
  /\ Goto(t, "idle")
  /\ UNCHANGED <<callbacks, queueVars, jobVars, userVars, beatVars, mainVars>>

Network ==
  \/ \E x \in lateJobs : LinkLate(x)
  \/ \E t \in Receiver :
       \/ OnReceived(t) \/ SetJobEvent(t) \/ ReceiveDone(t)
       \/ \E s \in Session : \/ OnDisconnected(t, s)
                             \/ \E p \in Packet, r \in Request : Receive(t, s, p, r)

-----------------------------------------------------------------------------
(* ChatUserManager and SectorManager. *)

Put(map, k, v) == [x \in DOMAIN map \cup {k} |-> IF x = k THEN v ELSE map[x]]
Erase(map, k)  == [x \in DOMAIN map \ {k} |-> map[x]]

Known(s) == s \in DOMAIN mSessionUserMap
UserOf(s) == mSessionUserMap[s]      \* FindUserOrNull, where Known(s)

\* A ChatUser object before its constructor and after its destructor.
Blank == [session |-> None, account |-> None, pos |-> Nowhere]

\* AddUser refuses a session or an account that has a user.
AddUserAccepts(s, a) == ~Known(s) /\ a \notin DOMAIN mAccountUserMap

AddUser(s, a, u) ==
  /\ mUserPool' = mUserPool \ {u}
  /\ user' = [user EXCEPT ![u] = [session |-> s, account |-> a, pos |-> Nowhere]]
  /\ mAccountUserMap' = Put(mAccountUserMap, a, u)
  /\ mSessionUserMap' = Put(mSessionUserMap, s, u)

RemoveUser(s) ==
  /\ mSessionUserMap' = Erase(mSessionUserMap, s)
  /\ mAccountUserMap' = Erase(mAccountUserMap, user[UserOf(s)].account)
  /\ mUserPool' = mUserPool \cup {UserOf(s)}
  /\ user' = [user EXCEPT ![UserOf(s)] = Blank]

\* GetSectorAround: the sectors next to pos, and pos, that are on the map.
GetSectorAround(pos) ==
  {q \in ((pos[1] - 1)..(pos[1] + 1)) \X ((pos[2] - 1)..(pos[2] + 1)) : q \in Sector}

\* RemoveSectorUser on the array of lists.
Without(sectors, u) ==
  IF user[u].pos = Nowhere THEN sectors
  ELSE [sectors EXCEPT ![IndexOf(user[u].pos)] = @ \ {u}]

TryMoveOnlyInserts(u, dest) ==
  \/ user[u].pos = dest /\ UNCHANGED <<user, mSector>>
  \/ /\ user[u].pos # dest /\ IndexOf(dest) \in SectorIndex
     /\ mSector' = [mSector EXCEPT ![IndexOf(dest)] = @ \cup {u}]
     /\ user' = [user EXCEPT ![u].pos = dest]

\* TryMove: out of the old list, into the new one, as long as there is one.
TryMove(u, dest) ==
  \/ user[u].pos = dest /\ UNCHANGED <<user, mSector>>
  \/ /\ user[u].pos # dest /\ IndexOf(dest) \in SectorIndex
     /\ mSector' = [Without(mSector, u) EXCEPT ![IndexOf(dest)] = @ \cup {u}]
     /\ user' = [user EXCEPT ![u].pos = dest]

\* The packets SendPacket is called with: one to s, or one to each user
\* in the lists of the sectors around pos.
Answer(s) == [x \in Session |-> IF x = s THEN 1 ELSE 0]
SendAround(pos) ==
  [s \in Session |->
     Cardinality({e \in GetSectorAround(pos) \X User :
                    e[2] \in mSector[IndexOf(e[1])] /\ user[e[2]].session = s})]
Nobody == [s \in Session |-> 0]

-----------------------------------------------------------------------------
(* The handlers, on the job thread: HandleJob. *)

JobUserLogin(j, r) ==
  /\ j.type = "UserLogin" /\ r.whole
  /\ \/ /\ AddUserAccepts(j.session, r.account)
        /\ \E u \in mUserPool : AddUser(j.session, r.account, u)
     \/ /\ ~AddUserAccepts(j.session, r.account)
        /\ UNCHANGED <<mSessionUserMap, mAccountUserMap, mUserPool, user>>
  /\ sends' = Answer(j.session) /\ cuts' = {}
  /\ UNCHANGED mSector

\* A user names its own account or is disconnected.
Impostor(j, r) == Known(j.session) /\ user[UserOf(j.session)].account # r.account

JobUserSectorMove(j, r) ==
  /\ j.type = "UserSectorMove" /\ r.whole
  /\ \/ /\ Known(j.session) /\ ~Impostor(j, r)
        /\ TryMove(UserOf(j.session), r.dest)
        /\ sends' = Answer(j.session) /\ cuts' = {}
     \/ /\ ~Known(j.session) \/ Impostor(j, r)
        /\ sends' = Nobody
        /\ cuts' = IF Impostor(j, r) THEN {j.session} ELSE {}
        /\ UNCHANGED <<user, mSector>>
  /\ UNCHANGED <<mSessionUserMap, mAccountUserMap, mUserPool>>

\* TryMove to a position that is not on the map: an assert of
\* GetSectorUsersInSector fails, or an access outside the array.
MovesOffMap(j, r) ==
  /\ j.type = "UserSectorMove" /\ r.whole
  /\ Known(j.session) /\ ~Impostor(j, r)
  /\ r.dest \notin Sector \cup {user[UserOf(j.session)].pos}

JobUserMessage(j, r) ==
  /\ j.type = "UserMessage" /\ r.whole
  /\ \/ /\ Known(j.session) /\ ~Impostor(j, r)
        /\ sends' = SendAround(user[UserOf(j.session)].pos) /\ cuts' = {}
     \/ /\ ~Known(j.session) \/ Impostor(j, r)
        /\ sends' = Nobody /\ cuts' = {j.session}
  /\ UNCHANGED userVars

\* GetBody throws PacketReaderException before anything is changed.
JobTruncated(j, r) ==
  /\ j.type \in {"UserLogin", "UserSectorMove", "UserMessage"} /\ ~r.whole
  /\ sends' = Nobody /\ cuts' = {j.session}
  /\ UNCHANGED userVars

\* UpdateHeartBeat does nothing, and IsHeartBeating is always true.
JobHeartBeat(j) ==
  /\ j.type \in {"UserHeartBeat", "SystemHeartBeat"}
  /\ sends' = Nobody /\ cuts' = {}
  /\ UNCHANGED userVars

DisconnectKeepsSector(j) ==
  /\ j.type = "SystemDisconnectUser"
  /\ \/ Known(j.session) /\ RemoveUser(j.session)
     \/ ~Known(j.session) /\ UNCHANGED <<mSessionUserMap, mAccountUserMap, mUserPool, user>>
  /\ sends' = Nobody /\ cuts' = {}
  /\ UNCHANGED mSector

JobSystemDisconnectUser(j) ==
  /\ j.type = "SystemDisconnectUser"
  /\ \/ /\ Known(j.session)
        /\ mSector' = Without(mSector, UserOf(j.session))
        /\ RemoveUser(j.session)
     \/ /\ ~Known(j.session)
        /\ UNCHANGED userVars
  /\ sends' = Nobody /\ cuts' = {}

HandleJob(j) ==
  \/ JobHeartBeat(j) \/ JobSystemDisconnectUser(j)
  \/ /\ j.packet # None
     /\ LET r == content[j.packet] IN
        \/ JobUserLogin(j, r) \/ JobUserSectorMove(j, r) \/ JobUserMessage(j, r)
        \/ JobTruncated(j, r)

-----------------------------------------------------------------------------
(* ThreadProcessJob. *)

\* mJobEvent.WaitOne(), an auto-reset event.
JobWait ==
  /\ jobPc = "wait" /\ mJobEvent
  /\ mJobEvent' = FALSE
  /\ jobPc' = "woken"
  /\ UNCHANGED <<eventVars, threadVars, packetVars, jobsVars, job, sends, cuts,
                 userVars, beatVars, mainVars, callbacks>>

JobWoken ==
  /\ jobPc = "woken"
  /\ jobPc' = IF mIsQuit THEN "exited" ELSE "loop"
  /\ UNCHANGED <<eventVars, threadVars, packetVars, queueVars, job, sends, cuts,
                 userVars, beatVars, mainVars, callbacks>>

\* while (!mJobQueue.IsEmpty()): back to WaitOne, or one job.
JobLoopEnds ==
  /\ jobPc = "loop" /\ IsEmpty
  /\ jobPc' = "wait"
  /\ UNCHANGED <<eventVars, threadVars, packetVars, queueVars, job, sends, cuts,
                 userVars, beatVars, mainVars, callbacks>>

JobProcess ==
  /\ jobPc = "loop" /\ mJobQueue # <<>>
  /\ job' = Head(mJobQueue) /\ mJobQueue' = Tail(mJobQueue)
  /\ \/ HandleJob(Head(mJobQueue)) /\ jobPc' = "handled"
     \/ /\ MovesOffMap(Head(mJobQueue), content[Head(mJobQueue).packet])
        /\ jobPc' = "aborted"
        /\ UNCHANGED <<sends, cuts, userVars>>
  /\ UNCHANGED <<eventVars, threadVars, packetVars, lateJobs, overtaken, mJobEvent, beatVars,
                 mainVars, callbacks>>

\* SendPacket and Disconnect may find themselves the last user of a session:
\* then OnDisconnected runs on the job thread, within the job.
JobReleases(s) ==
  /\ jobPc = "handled" /\ (sends[s] > 0 \/ s \in cuts) /\ callbacks < MaxCallbacks
  /\ Net!LeaveAtAnyTime(s)
  /\ Enqueue("SystemDisconnectUser", s, None)
  /\ mJobEvent' = TRUE
  /\ callbacks' = callbacks + 1
  /\ UNCHANGED <<threadVars, packetVars, jobVars, userVars, beatVars, mainVars>>

\* TryFreeRecv, mJobPool.Return, and the next job.
JobDone ==
  /\ jobPc = "handled"
  /\ FreePacket(job)
  /\ job' = None /\ sends' = Nobody /\ cuts' = {}
  /\ jobPc' = "loop"
  /\ UNCHANGED <<eventVars, threadVars, queueVars, userVars, beatVars, mainVars, callbacks>>

ThreadProcessJob ==
  JobWait \/ JobWoken \/ JobLoopEnds \/ JobProcess \/ JobDone \/ \E s \in Session : JobReleases(s)

-----------------------------------------------------------------------------
(* The heartbeat thread, and the main thread's Stop and OnQuit. *)

\* mQuitEvent.WaitOne(60000): a period has passed, ...
BeatTick ==
  /\ beatPc = "wait" /\ ~mQuitEvent /\ ticks < MaxTicks
  /\ ticks' = ticks + 1
  /\ Enqueue("SystemHeartBeat", None, None)
  /\ beatPc' = "set"
  /\ UNCHANGED <<eventVars, threadVars, packetVars, mJobEvent, jobVars, userVars,
                 mainVars, callbacks>>

BeatSet ==
  /\ beatPc = "set"
  /\ mJobEvent' = TRUE
  /\ beatPc' = "wait"
  /\ UNCHANGED <<eventVars, threadVars, packetVars, jobsVars, jobVars, userVars, ticks,
                 mainVars, callbacks>>

\* ... or the server is quitting.
BeatQuit ==
  /\ beatPc = "wait" /\ mQuitEvent
  /\ beatPc' = "exited"
  /\ UNCHANGED <<eventVars, threadVars, packetVars, queueVars, jobVars, userVars, ticks,
                 mainVars, callbacks>>

ThreadHeartbeat == BeatTick \/ BeatSet \/ BeatQuit

MainGoto(from, to) == mainPc = from /\ mainPc' = to

\* NetCore::Stop: the network threads have ended when OnQuit is called.
StopNetwork ==
  /\ MainGoto("running", "stopped")
  /\ \A t \in Receiver : pc[t] = "idle"
  /\ UNCHANGED <<eventVars, threadVars, packetVars, queueVars, jobVars, userVars,
                 beatVars, mIsQuit, mQuitEvent, callbacks>>

QuitFlag ==
  /\ MainGoto("stopped", "set_quit")
  /\ mIsQuit' = TRUE
  /\ UNCHANGED <<eventVars, threadVars, packetVars, queueVars, jobVars, userVars,
                 beatVars, mQuitEvent, callbacks>>

QuitSetQuitEvent ==
  /\ MainGoto("set_quit", "set_job")
  /\ mQuitEvent' = TRUE
  /\ UNCHANGED <<eventVars, threadVars, packetVars, queueVars, jobVars, userVars,
                 beatVars, mIsQuit, callbacks>>

QuitForgetsJobThread ==
  /\ MainGoto("set_job", "join")
  /\ UNCHANGED <<eventVars, threadVars, packetVars, queueVars, jobVars, userVars,
                 beatVars, mIsQuit, mQuitEvent, callbacks>>

QuitSetJobEvent ==
  /\ MainGoto("set_job", "join")
  /\ mJobEvent' = TRUE
  /\ UNCHANGED <<eventVars, threadVars, packetVars, jobsVars, jobVars, userVars,
                 beatVars, mIsQuit, mQuitEvent, callbacks>>

QuitJoin ==
  /\ MainGoto("join", "drain")
  /\ jobPc = "exited" /\ beatPc = "exited"
  /\ UNCHANGED <<eventVars, threadVars, packetVars, queueVars, jobVars, userVars,
                 beatVars, mIsQuit, mQuitEvent, callbacks>>

QuitDropsJobs ==
  /\ mainPc = "drain" /\ mJobQueue # <<>>
  /\ mJobQueue' = Tail(mJobQueue)
  /\ FreePacket(Head(mJobQueue))
  /\ UNCHANGED <<eventVars, threadVars, lateJobs, overtaken, mJobEvent, jobVars, userVars, beatVars,
                 mainVars, callbacks>>

\* What is left in the queue: disconnects are handled, packets freed.
QuitDrain ==
  LET j == Head(mJobQueue) IN
  /\ mainPc = "drain" /\ mJobQueue # <<>>
  /\ mJobQueue' = Tail(mJobQueue)
  /\ \/ JobSystemDisconnectUser(j)
     \/ j.type # "SystemDisconnectUser" /\ UNCHANGED <<sends, cuts, userVars>>
  /\ FreePacket(j)
  /\ UNCHANGED <<eventVars, threadVars, lateJobs, overtaken, mJobEvent, jobPc, job, beatVars,
                 mainVars, callbacks>>

QuitEnds ==
  /\ MainGoto("drain", "done")
  /\ IsEmpty
  /\ UNCHANGED <<eventVars, threadVars, packetVars, queueVars, jobVars, userVars,
                 beatVars, mIsQuit, mQuitEvent, callbacks>>

OnQuit ==
  QuitFlag \/ QuitSetQuitEvent \/ QuitSetJobEvent \/ QuitJoin \/ QuitDrain \/ QuitEnds

-----------------------------------------------------------------------------
(* The specification. *)

Init ==
  /\ left = {} /\ receiving = [t \in Receiver |-> None]
  /\ refCount = [p \in Packet |-> 0]
  /\ content = [p \in Packet |-> None]
  /\ pc = [t \in Receiver |-> "idle"] /\ held = [t \in Receiver |-> None]
  /\ mJobQueue = <<>> /\ lateJobs = {} /\ overtaken = {}
  /\ mJobEvent = FALSE /\ mIsQuit = FALSE /\ mQuitEvent = FALSE
  /\ jobPc = "wait" /\ job = None /\ beatPc = "wait" /\ mainPc = "running"
  /\ mSessionUserMap = [s \in {} |-> None] /\ mAccountUserMap = [a \in {} |-> None]
  /\ mUserPool = User /\ user = [u \in User |-> Blank]
  /\ mSector = [i \in SectorIndex |-> {}]
  /\ sends = Nobody /\ cuts = {}
  /\ callbacks = 0 /\ ticks = 0

\* In a process that is being aborted the other threads go on until it is gone.
Aborted == jobPc = "aborted"

Next == Network \/ ThreadProcessJob \/ ThreadHeartbeat \/ StopNetwork \/ OnQuit

Spec == Init /\ [][Next]_vars

\* Threads inside a callback or inside Enqueue, the job thread, a heartbeat thread
\* that has been told to quit and a main thread that has begun to quit are
\* scheduled.  Nothing is assumed of clients, of the timer or of the decision to
\* stop.
Fairness ==
  /\ \A t \in Receiver : WF_vars(OnReceived(t) \/ SetJobEvent(t) \/ ReceiveDone(t))
  /\ WF_vars(\E x \in lateJobs : LinkLate(x))
  /\ WF_vars(JobWait \/ JobWoken \/ JobLoopEnds \/ JobProcess \/ JobDone)
  /\ WF_vars(BeatSet \/ BeatQuit)
  /\ WF_vars(OnQuit)

LiveSpec == Spec /\ Fairness

-----------------------------------------------------------------------------
(* Properties. *)

\* The two maps, the pool and the lists tell the same story: a user out of the
\* pool is found under its session and its account and nowhere else, it is in
\* the list of the position it stands at and in no other, whether or not that
\* is on the map, and no list keeps a user that was given back.
UsersAreConsistent ==
  /\ \A u \in User \ mUserPool :
       /\ {s \in DOMAIN mSessionUserMap : mSessionUserMap[s] = u} = {user[u].session}
       /\ {a \in DOMAIN mAccountUserMap : mAccountUserMap[a] = u} = {user[u].account}
       /\ {i \in SectorIndex : u \in mSector[i]} =
            {IndexOf(pos) : pos \in {user[u].pos} \ {Nowhere}}
  /\ \A u \in mUserPool :
       /\ \A s \in DOMAIN mSessionUserMap : mSessionUserMap[s] # u
       /\ \A a \in DOMAIN mAccountUserMap : mAccountUserMap[a] # u
       /\ \A i \in SectorIndex : u \notin mSector[i]

\* Who still needs a received packet.
Holders(p) ==
  {<<t, "receive">> : t \in {x \in Receiver : held[x] = p}}
  \cup {<<i, "queued">> : i \in {k \in DOMAIN mJobQueue : mJobQueue[k].packet = p}}
  \cup {<<j, "late">> : j \in {x \in lateJobs : x.packet = p}}
  \cup {<<j, "handled">> : j \in {x \in {job} : x # None /\ x.packet = p}}

\* A packet's count is the number of those who hold it, so it goes back to
\* the pool with the last of them, whoever that is: never under the job
\* thread while it reads the body, never twice, and never not at all.
PacketsAreShared == \A p \in Packet : refCount[p] = Cardinality(Holders(p))

Leaving(s) ==
  \E j \in lateJobs \cup {mJobQueue[i] : i \in DOMAIN mJobQueue} :
    j.type = "SystemDisconnectUser" /\ j.session = s

\* Once OnDisconnected has been called, either its job is still to be handled or
\* the session has no user: the one way for a user to stay behind is that the
\* queue lets a request of its session be overtaken.
OnlyLateRequestsLeaveGhosts ==
  \A s \in left \ overtaken : Leaving(s) \/ ~Known(s)

Near(a, b) == \A i \in {1, 2} : a[i] - b[i] \in -1..1

\* A message reaches those who are in the list of a sector next to from: for a
\* position on the map these are its neighbours, one off the map is in the list
\* of some other sector.
Hears(pos, from) ==
  \/ pos \in Sector /\ Near(pos, from)
  \/ /\ pos \notin Sector \cup {Nowhere}
     /\ \E q \in Sector : IndexOf(q) = IndexOf(pos) /\ Near(q, from)

\* A message reaches each logged-in user that is to hear it once, and nobody
\* else: the lists the server walks agree with where the users are, in spite of
\* positions that share a list, at the edges and for senders off the map too.
MessagesReachNeighbours ==
  jobPc = "handled" /\ job.type = "UserMessage" /\ cuts = {} =>
    \A s \in Session :
      sends[s] = IF /\ Known(s)
                    /\ Hears(user[UserOf(s)].pos, user[UserOf(job.session)].pos)
                 THEN 1 ELSE 0

\* A session has no user when its disconnect has been handled, and it is handled
\* in the end, unless the process was aborted: although sets of the auto-reset
\* event run together, and although jobs are late.
LeftUsersAreRemoved == \A s \in Session : Leaving(s) ~> ~Known(s) \/ Aborted

\* No job, no packet, no running thread, and no user of a session that is gone,
\* but for ghosts.
NothingLeft ==
  /\ IsEmpty /\ jobPc = "exited" /\ beatPc = "exited"
  /\ \A p \in Packet : refCount[p] = 0
  /\ DOMAIN mSessionUserMap \cap left \subseteq overtaken

\* Once the main thread has begun to quit, it waits for the other threads, they
\* end, and OnQuit leaves nothing behind.
QuitTerminates == mainPc = "stopped" ~> (mainPc = "done" /\ NothingLeft) \/ Aborted
===============================================================================
