# Verification of nf_network

TLA+ models of `nf_network`, a C++ TCP server library for Windows I/O completion
ports, of the lock-free containers and pools it is built on, of its packet codec and
receive loop, of its predecessor `LanCore` and of the chat server above it, with TLC
runs on small instances and TLAPS proofs for all sizes. Paths below are relative to
`src/nf_network/src/nf/` unless they start with `src/`.

## 1. The system

| part | state | operations | who calls whom |
|---|---|---|---|
| `NetCore` (`network/server/net`) | completion port, listening socket, threads, the session manager | `Start`, `Stop`, `SendPacket`, `Disconnect`; accept thread; IO threads | calls the application through `INetCoreEvent` (`OnConnected`, `OnReceived`, `OnSent`, `OnDisconnected`), is called back from any thread |
| `NetSessionManager` | pool of sessions, stack of unused ones, connected count | `NewSessionOrNull`, `FindSessionOrNull`, `TryReleaseSession`, `IncrementIO`, `DecrementIO` | used by `NetCore` only |
| `NetSession` | `{IsReleased, IOCount}` in one 64-bit word, id, socket, closed flag, receive ring buffer, send queue, sending flag and buffer | `Init`, `Enqueue`, `ReadySending`, `FinishSending`, `CancelationIO`, `TryRelease` | shared by all threads, never locked |
| `RingBuffer` | byte array, two indices, used size | `Enqueue`, `Dequeue`, `Peek`, `MoveRead`, `MoveWrite`, `ClearBuffer` | owned by the thread that handles the session's receive; the kernel writes into it |
| `LockFreeStack`, `LockFreeQueue` | tagged head (and tail) pointers, node pool, used size | `Push`/`TryPop`, `Enqueue`/`TryDequeue`, `Init`, `Clear` | unused sessions; packets to send |
| `ObjectPoolLockFree` | tagged free list, three counters | `Rent`, `Return`, `Clear` | packets; nodes of the two containers |
| `ObjectPoolTLS`, `ObjectPool` | per-thread chunks; a plain free list | `Rent`, `Return` | `PacketPool`; playgrounds |
| `Packet`, `PacketPool` | header, body, read and write positions, reference count | `PutBody`, `GetBody`, `EncodeOnce`, `DoDecode`, `AllocSend`, `TryFreeSend`... | the application and `NetCore` |
| `LanCore` | as `NetCore`, an earlier generation | as `NetCore` | playground_lan |
| `SectorManager` | users per sector | `Add`, `Del`, `Update`, neighbourhood queries | nobody (the chat server has its own) |
| chat server (`src/nf_network/playground_net/chat`) | job queue and event, users by session and by account, sectors, user pool | callbacks that queue jobs; a job, a heartbeat and a monitor thread; `OnQuit` | above `NetCore`, which it calls from its job thread |
| `Profiler`, `Logger`, OS wrappers | tables of samples; files; handles | | everybody |

What is hard in it:

* **Session lifetime.** No lock protects a session. It lives as long as its
  `IOCount` is positive; the thread that takes the count to zero releases it, the
  accept thread reuses it at once under a new id, and other threads may still hold
  the pointer. Correctness means: no session is released while in use, none is
  released twice or leaked, a reused one is clean, and messages and callbacks reach
  the session they belong to.
* **Asynchronous operations.** One `OVERLAPPED` per direction, cancelled by
  `CancelIoEx`, completing on any IO thread, refused with a dozen error codes.
* **Lock-free lists with node reuse** (ABA), counters that are updated before or
  after the list and are briefly negative.
* **Wrap-around** in the ring buffer, with the kernel writing directly into it.
* **A byte stream cut up anywhere**: headers and bodies in parts, several packets at
  once, lengths and keys that a broken peer chooses.
* **Counted references to packets** shared by network threads, job thread and send
  queues, over chunks that one thread rents from and all return to.
* **Jobs behind their time**: the chat server handles what a session sent after it
  has gone, woken by an event that forgets how often it was set, until it quits.

## 2. The modules

| module | models |
|---|---|
| `NetEvents` | abstract: the order of the callbacks, strict (`EventSpec`) and loose (`LooseSpec`) |
| `NetCore`, `NetCoreEvents` | `NetCore`, `NetSessionManager`, `NetSession`, in one module because a thread's program counter runs through functions of all three; that it implements `NetEvents`' loose order |
| `NetCoreProofs` | proofs about `NetCore`: types and control; references; slots; packets; callbacks, the refinement |
| `LanCore` / `LanCoreProofs` | `LanCore`, `LanSessionManager`, `LanSession`; implements `NetEvents`' strict order; proofs, the refinement among them |
| `ChatServer` / `ChatServerProofs` | the chat server, on top of `NetEvents`; proofs |
| `MessageChannel` / `PacketCodec`, `NetStream` | abstract: messages in order; packet format; a connection from `SendPacket` to `OnReceived` |
| `ByteQueue` / `RingBuffer` / `RingBufferProofs` | abstract queue; the ring buffer; proofs, the refinement among them |
| `ValueStack` / `LockFreeStack` / `LockFreeStackProofs` | abstract stack; the lock-free one; proofs, the refinement among them |
| `ValueQueue` / `LockFreeQueue` / `LockFreeQueueProofs` | abstract queue; the lock-free one; proofs, the refinement among them |
| `ObjectPoolLockFree` / `ObjectPoolLockFreeProofs` | the free list and its counters; proofs |
| `PacketPool` / `PacketPoolProofs` | `PacketPool` and `ObjectPoolTLS`; proofs |
| `MC...` | instances for TLC (symmetry sets, inputs) |

The compositions: `NetStream` runs `RingBuffer`'s operations (`INSTANCE`) and
`PacketCodec`'s functions; `ChatServer` takes its callbacks from the actions of
`NetEvents`' `LooseSpec`, which `NetCoreEvents` shows `NetCore` to implement, with slots
reused at any time and ids of any age. (It leaves `joined` out, since its `OnConnected`
is empty.) The strict order, one `OnReceived` of a session at a time and
`OnDisconnected` once, is what `LanCore` keeps and `NetCore` does not.
Elsewhere a module takes as given what another one shows: the stack of unused
sessions is a set, with the failing `TryPop` and the refused `Push` that
`LockFreeStack` has; a send queue is a sequence; the job queue is a sequence with the
late values that `LockFreeQueue` has; the pools of nodes, jobs and chunks are sets.

### NetCore

A label of `pc` stands between two accesses to shared memory, so TLC interleaves the
threads exactly where the hardware could. `cur[t]` is the session pointer a thread
works with, `arg`/`want` what an application thread was asked to do, `did` the local
`sessionID` of `NetCore::TryReleaseSession`, and `again` says that the
`TryReleaseSession` under way is the one inside `SendPost`/`RecvPost`, with the
caller's own still to come. A session id is `<<slot, uid>>`; a packet is represented
by the uid it was addressed to. The kernel is `overlapped[slot][direction]` (idle,
pending, or completed and waiting on the port) and `peer[slot]`.

| code | actions |
|---|---|
| `NetworkAcceptThread`, `CreateSessionOrNull`, `NewSessionOrNull`, `NetSession::Init` | `PopSession`, `InitId`, `InitFields`, `InitOpen`, `CountUp`, `Associate`, `OnConnected`; `PopFails`, `PopGivesUp` |
| `RecvPost` | `RecvPostIncrement`, `RecvPostSocket`, `RecvPostWSARecv` |
| `SendPost`, `ReadySending` | `SendPostCas`, `SendPostDequeue`, `SendPostUnset`, `SendPostIncrement`, `SendPostSocket`, `SendPostWSASend` |
| `SendPacket`, `Disconnect`, `AcquireSessionOrNull` | `FindId`, `FindOpen`, `AcquireIncrement`, `AcquireCheckId`, `AcquireCheckReleased`, `EnqueuePacket` |
| `CancelationIO` | `CancelationIO`, `CancelIoEx` |
| `NetworkIOThread` | `Completion`, `FinishSending`, `NetworkRecvCompleted` |
| `TryReleaseSession` (both), `NetSession::TryRelease`, `Release` | `Decrement`, `ReadIdToReport`, `ReleaseCas`, `ReleaseClose`, `ReleaseClear`, `Push`, `CountDown`, `OnDisconnected` |

Accesses merged into one step, and why nothing is lost by it:

* `FindSessionOrNull` is two steps, the comparison of the id (`FindId`) and the reads of
  closed and released (`FindOpen`), which may already be those of the slot's next
  session;
* a completion is taken off the port together with the tests for released and
  closed: the reference of the operation keeps the session, and closing may also
  come just before;
* the size of the send queue and the dequeues after it: packets that arrive in
  between stay for the next send, as if they came after it;
* `NetSession::Init` is three steps (id; fields; `IsReleasedAtomic = 0`), the
  points another thread can tell apart.

`LockFreeStack::Push` links a slot and counts it in one step; what a `Push` in between
can see is kept: it is refused while the accept thread is within a `TryPop` that fails
(`pop_failed`) and nothing in the pool is counted for certain (`NoneCounted`). Then
`NetSessionManager::TryReleaseSession` throws, and the process ends (`Running`), as it does
when `ReadySending` finds more packets than `PacketBuffer` holds.

Abstractions: the unused sessions are a set (that the stack behaves so is what
`LockFreeStack` shows), the send queue is a FIFO (`LockFreeQueue`, but that one packet
may become visible later than the next), and `NetworkRecvCompleted` chooses between
receiving on and `CancelationIO` (the receive buffer found full, in `RecvPost`, takes the
same path). Calls the application makes inside a callback are made by the callers, with
any id `OnConnected` or `OnReceived` has given out, however old. Log output, per-second
counters and the branches that end the process through `mCrashDump` are left out, as are
`Start`, `Stop`, handle reuse by Windows and the wrap of the 48-bit uid. The build is one
without assertions: `assert(joinedUserCout >= 0)` and the assertion of a non-zero id are
not guards (the first is the subject of the run `count`).

`ignored` counts, per slot, the completions that `NetworkIOThread` drops because it
finds the session released (`NetCore_ThreadNetworkIO.cpp:130`). The branch returns
without a `DecrementIO`. It is reached after an old id has released a session whose first
receive was still to be posted; `GoneClientsAreReleased` excepts such slots.

### RingBuffer

`MoveWrite(bytes)` is a whole receive: `RecvPost` offers the direct run and the run
at the start of the array, the kernel fills them in order, `NetworkRecvCompleted`
moves the index. The refinement maps to the unread bytes and `moved`, the bytes the
last call stored or delivered, so that what goes in must come out.

### LockFreeStack, LockFreeQueue, ObjectPoolLockFree

One action per access to shared memory; the 128-bit exchange compares pointer and
`UID` and reloads the snapshot when it fails. In the two containers the node pool is
a set from which `Rent` takes any free node, so reuse under a stale snapshot, the ABA
situation, happens; the pool itself is a module of its own. The stack implements an
atomic stack, at the exchange that links or unlinks. Sizes are compared as the code
does it: `LockFreeStack::Push` casts to `size_t`. What is linked from the head is
defined without recursion: `Chain` is the sequence of nodes that fits the links, the
queue's `List(a, m)` the one that starts at `a`, `Cached` the least set of blocks
closed under them.

The queue implements a queue whose `Enqueue` may hand over several values at a time
(`ValueQueue`). The reason is a window in `LockFreeQueue::Enqueue`: it reads the tail
again for the link (`LockFreeQueue.hpp:152`), which may by then be a node another
producer has rented and not linked yet. A value linked behind that node is
unreachable, although its `Enqueue` has returned, until the other producer links its
node; then both appear at once. No value is lost, and a consumer that has reserved
one spins until it is reachable (`CallsReturn`).

### PacketPool

A packet is a block of a chunk; each thread rents from the chunk in its thread-local
slot and swaps it when it takes the last block (`RentFirst`, `RentBlock`,
`SwapChunk`, `Construct`). `Share` is `AddRef` by a thread that has a reference;
`TryFree`, `Return`, `ReturnChunk` and `CountDown` follow the last `SubRef` through
`ObjectPoolTLS::Return`. One pool stands for the send and the receive pool, which
are two instances of the same code. References move between threads through queues;
in the model any thread may free what any thread holds.

### PacketCodec, NetStream

`PacketCodec` are functions: encoding and decoding with byte arithmetic modulo
`ByteCount`, the checksum, the limits of `PutBody`, `GetBody` and
`MoveBodyWritePos`. The header of five bytes is one of four here, the length being
one byte. `NetStream` is one connection: the sender's `SendPacket`, also of a packet
that is encoded already (as `SendAround` does for every user but the first), a TCP
stream whose bytes come in pieces of any size, and `NetworkRecvCompleted`'s loop,
one action per outcome (`Refuse`, `RecvPost`, `TakePacket`, `HandlePacket`). The
options of a connection vary: same code and key, a wrong code, a wrong key, a
receiver with small limits. `EncodeOnce` is one step. The debug `assert` on the
length (`NetCore_ThreadNetworkIO.cpp:448`), which a debug build reaches before the
test that refuses the packet, is left out, and so are those of `operator<<`
(`assert(putResult == sizeof(...))`, `Packet_writer.hpp:6-89`): a body that does not fit
is cut short by `PutBody`, as in a build without assertions.

### ChatServer

The network threads' callbacks are `Receive`/`OnReceived`/`SetJobEvent`/`ReceiveDone`
and `OnDisconnected`/`SetJobEvent` (`OnConnected` is empty); queueing a job and setting
the event are two steps, as in the code. `ThreadProcessJob` is `JobWait` (which resets
the event), `JobWoken`, `JobLoopEnds`, `JobProcess`, `JobDone`; one job's handler is one
step, because only the job thread touches users and sectors. What a handler does to the
network is recorded in `sends` and `cuts`; `JobReleases` is `OnDisconnected` on the job
thread, which is then inside `SendPacket` or `Disconnect`. `OnQuit` goes event by event,
joins, and drains the queue. A request is what a handler can tell apart: type, account,
destination, and whether the body is as long as what is read from it.

*The job queue.* `Enqueue` links a job to the end of the queue, or behind a node that
another `Enqueue` has not linked yet (`LockFreeQueue.hpp:152`): then the job is one of
`lateJobs` until `LinkLate`, while later jobs go ahead of it. `overtaken` records the
sessions of which a request was late. `IsEmpty` counts late jobs, and `TryDequeue` then
waits, so `JobLoopEnds` needs both to be empty. Linking and counting a job are one step.
Two late jobs that are equal (two heartbeats) are not told apart: a second one is not
late.

*Positions.* A destination is any pair of numbers, as the client chooses it.
`GetSectorUsersInSector` checks it by assertions only, one of them with the wrong dimension
(`SectorManager.hpp:33-40`), and then takes the list at `Y * width + X`, which for a
position off the map may be the list of another sector. `MovesOffMap` is the
assertion that fails, or the access outside the array: the job thread is `aborted` and
handles nothing more, while the other threads may go on until the process is gone.
`TryMove` takes the user to any position whose list is in the array: on the map, or off it
and then into the list of the sector it is an alias of. So the run and the theorems
hold for both builds. The lists around a user are those of sectors on the map
(`GetSectorAround` checks). A user who has not moved yet stands at (-1, -1), is in no
list, and what it says reaches sector (0, 0), as `Near` says too.

Message texts have no effect. The reference count that `OnReceived` compares with 2 is
always right here, a consequence of `PacketsAreShared`. Sessions that are connected
when the server stops get no `OnDisconnected`, so their users remain.

### LanCore

`thread[t].ret` is the rest of the call stack: `SendPacket` runs inside `OnReceived`
inside a completion, and each returns to its caller's own `Decrement`. The
differences from `NetCore` are kept: `Init` resets the count, the sending flag is a
counter (`ReadFlag`, `TakeFlag`, `GiveFlagBack`), `SendPacket` looks the session up
and takes its reference in two steps (`SendPacketFind`, `SendPacketAcquire`),
`CancelationIO` closes the socket at once. `SendPacket` and `Disconnect` are called from inside
`OnReceived` only, as `playground_lan` does: there the completion's reference keeps
the session. For a thread of its own nothing does: between `SendPacketFind` and
`SendPacketAcquire` the slot may be released and reused, and `Init` drops the
reference taken.

With an empty pool (`PopFails`, `PopUnchecked`) `GenUniqueSessionID` only asserts
(`LanSessionManager.cpp:100`): a build with assertions aborts (`aborted`), one without
goes on with index 0 and is about to `Init` a session that may be live (`index_zero`).
There the model stops; the properties say what holds until then. A `Push` may be refused
as in `NetCore`, and throws.

What the model shows besides, by reading: a session whose association fails gets
`OnDisconnected` without `OnConnected` (mapped to nothing by `refused`); `Disconnect` does
nothing while an operation is pending (`LanCore.cpp:215`); a refused socket is not closed
(`LanCore_ThreadNetworkAccept.cpp:134`); a length is not compared with the packet's
capacity (`LanCore_ThreadNetworkIO.cpp:338`); and the window of `NoStrandedPacket`
is here too.

## 3. What the runs check

All bounds are named constants (`MaxUid`, `MaxCalls`, `MaxOps`, `MaxChunk`,
`MaxRented`, `MaxSent`, `MaxCallbacks`, `FewCallbacks`, `MaxTicks`, `MaxLate`, `Chunk`). The concurrent
specifications stop when the bounds are used up or the server has quit, therefore
`CHECK_DEADLOCK FALSE`; progress is the matter of the temporal properties.

| run | instance | shows |
|---|---|---|
| `lifetime` | 1 slot, 2 clients in turn, 2 IO threads, 2 callers with 2 calls, packet buffer of 1 | `TypeOK`, `CountCoversRefs`, `ThrowsForCause`, `SlotHasOneOwner`, `CleanWhenReused`, `UsersKeepItAlive`, `OneSendPerOverlapped`, `ReleasedForCause`, `ImplementsEvents` |
| `gone` | the same with 1 caller and 1 call, fairness | `GoneClientsAreReleased` |
| `lan` | 1 slot, 2 clients in turn, 2 IO threads, 3 calls from inside `OnReceived`, fairness | `CountIsExact`, `SlotHasOneOwner`, `OneSendAtATime`, `ImplementsEvents`, `GoneClientsAreReleased` |
| `stream` | 4 byte values, bodies up to 3 bytes, buffer of 11, 3 packets, 4 options, fairness | `ImplementsChannel`, `GoodSendersStayConnected`, `Arrives` |
| `chat` | 2 sessions, 2 accounts, 3 x 3 sectors and a position off the map, every kind of request, 2 network threads, 2 packets, 1 heartbeat, 1 late job at a time, quitting at any time, fairness | `UsersAreConsistent`, `PacketsAreShared`, `OnlyLateRequestsLeaveGhosts`, `MessagesReachNeighbours`, `LeftUsersAreRemoved`, `QuitTerminates` |
| `ring_buffer` | 4 bytes, chunks up to 5 | `IndicesAgree`, `DirectRunsAreFree`, `ImplementsByteQueue` |
| `stack` | 2 threads, 3 values and nodes, 7 calls | `ReservationsAreBacked`, `ImplementsStack` |
| `queue` | 2 producers, 1 consumer, 4 calls, fairness | `QueueIsConsistent`, `ImplementsQueue`, `CallsReturn` |
| `pool` | 2 threads, 3 blocks rented at once, 10 calls | `BlockHasOneOwner`, `ReservationsAreBacked`, `CapacityIsBounded` |
| `packet_pool` | 2 threads, 4 chunks of 2 blocks | `PacketHasItsOwners`, `ChunkIsInOnePlace` |
| `stranded` | 1 IO thread, 2 callers | `NoStrandedPacket` fails, see below |
| `count` | 1 IO thread, 1 caller with 1 call | `CountNeverNegative` fails, see below |

One slot is enough for `NetCore`: threads meet on a slot, and slots share only the
pool and the counter. Two clients in turn are the least for reuse; two callers may both
use old ids while the IO threads and the accept thread work on the new session. A packet
buffer of one makes two calls enough for an overflow. The pool of one slot is empty
whenever a session is live, so `Push` may be refused. `MCNetCore` compares states without
the registers that are dead (`LiveState`): `did` outside a release, and a caller's
arguments after their use.
The stack needs three values and seven calls, the pool nine calls, before an exchange
without the `UID` goes wrong; the runs are just large enough for that, which the mutants
confirm. Four bytes let a chunk be
shorter than, equal to and longer than each side of the wrap. In `stream` a buffer of
11 holds one full packet and a part of the next, so packets and headers wrap at every
offset. Four chunks let two threads have one each, one be full of rented packets and
one be in the pool. Two sessions suffice for the chat server's maps and sectors: a
third adds no new relation between two users; 3 x 3 sectors, with corners as
destinations, have neighbours and strangers, and (3, 0) has the list of (0, 1). The run
`chat` is two specifications in one (`MCChatServer`): in the part `users` long histories
of callbacks come one after another, in the part `threads` two callbacks meet every
interleaving of the threads, a late job and the end of the server. Steps under fairness
are in neither part kept from happening. One consumer is what send queues (guarded
by the sending flag) and the job queue have; the theorems about the queue are for any
number.

Two things one would like to claim of `NetCore` do not hold and are no properties. A
packet or a `Disconnect` may reach the slot's next session: `AcquireSessionOrNull`
compares the id before the released flag, and another caller's reference may carry the
first past the test of the count. And a session may have two receives at a time: an id
used before the first `RecvPost`, or an old one, can take the count of a session from 0
to 1 and back and release it (`ReleasedForCause` therefore begins with the first
receive), and the receive that the accept thread then posts may still be on the
completion port when the slot has its next session. `LooseSpec` is what is left for the
application: `OnReceived` before `OnConnected`, two at a time, and `OnDisconnected` first
or again are possible; an id announced twice, and an `OnReceived` during or after
`OnDisconnected`, are not.

**Fairness.** `LiveSpec` of `NetCore`: weak fairness for every thread inside the
library and for IO threads with a completion to take (they block on the port with no
timeout), and for the kernel to finish a send, and a receive whose client has gone.
Nothing is assumed of clients: a silent one may stay forever. `LiveSpec` of
`LockFreeQueue` assumes only that a thread inside a call is scheduled, that of
`LanCore` the same as `NetCore`'s, that of `NetStream` that TCP delivers and the
receiving thread goes on, that of `ChatServer` that threads inside a callback or inside `Enqueue`, the
job thread, and threads that were told to quit are scheduled, nothing of clients,
timer or the decision to stop. Calls are bounded, so the runs do not say that a
stream of calls cannot starve a release. `lan`'s liveness is checked with one slot:
with several, completions would have to leave the port in the order they came,
which the port does and the model does not say.

### Where the code contradicts itself

| run | statement | what happens |
|---|---|---|
| `stranded` | "the previous send used up the queue" (`NetSession.cpp:140`) | a packet enqueued between the test and the return of the flag stays behind until the next `SendPacket` |
| `count` | `assert(joinedUserCout >= 0)` (`NetSessionManager.cpp:101`) | a session is live before it is counted, and an old id releases it in between: the counter goes to -1 |

Other cases delimit what the passing runs show. Each appears when a passing
configuration is changed as the second column says.

| property | change | what happens |
|---|---|---|
| `GoneClientsAreReleased` | claimed of sessions that were disconnected instead of clients that have gone | a receive posted after `CancelIoEx` (`NetSession.hpp:154`) waits for a silent client |
| `PushAccepts` | add to `stack` | `mUsedSize` is -1 during a failing `TryPop` and compared as unsigned: `Push` refuses (in `NetCore` and `LanCore` the releasing thread then throws) |
| `ReservationsAreBacked` | `RestartSpec` in `stack` | `Init` leaves `mUsedSize` behind |
| `ReservationsAreBacked` | `ClearSpec` in `pool` | `Clear` leaves `mCachedSize` behind |

The chat protocol asks for clients silent for 40 seconds to be disconnected
(`src/nf_network/playground_net/chat/packet/Packet.hpp:81`); `IsHeartBeating` always
returns true, so none is.

## 4. What is proved

For every value of the constants: any number of slots, IO threads, callers, clients
and calls; ids of any age; any capacity and byte set of the ring buffer; any number of
threads, values, nodes, blocks, packets, chunks, sessions, accounts and sectors. The assumptions are the `ASSUME`s of the modules:
finite sets of threads and of what they share, distinct threads and null values,
positive capacities. Every proof module states an inductive invariant, which TLC has
checked on the instances of the runs, and one lemma per action or group of actions
that change the same things.

* `NetCoreProofs`. `TypeCorrect`, and `ControlStep`, which ties the labels to the
  kind of thread that can be there (an accept thread never holds a caller's
  reference, `again` only in the labels below a failed post).
  `CountAlwaysCovers`, `UsersAlwaysKeepItAlive`: the reference set `Refs(s)` is
  written out per thread and per operation; each action adds or removes at most one
  element, and the count moves with it. That the count is not below the set is
  inductive only together with the fact that users keep the session alive (a post
  needs a reference that exists already) and the other way round (a release needs
  the count at zero, so there are no users).
  `SlotsAlwaysHaveOneOwner`, `ConnectedIsAlwaysExact`, `SlotsAreCleanWhenReused`: the
  counter is compared with the live slots and the releasers that have not counted
  down; the last needs that a released slot in the pool stays untouched: senders
  that could still enqueue hold references, so the slot is not released.
  `SendsHaveTheirOverlapped`: the flag is up while a thread is inside `SendPost` or
  the kernel has the send, and only one of them at a time has raised it; each has a
  reference, so a released session has no send.
  `SessionsEndForACause`: a session that nobody has closed, whose client is there and
  whose first receive is posted is being received from (`TokenOK`): a receive is with
  the kernel, on the port or with a thread, and each of these is a reference. A release
  needs the count at zero, so by `CountCoversRefs` such a session is not released.
  `CallbacksAreInOrder`: every step of `NetCore` is one callback of `NetEvents`'
  `LooseSpec` or a stutter. The invariant (`EventStateInv`): the id that is about to be
  announced has not been, because uids only grow; an id reported gone is that of no live
  session; the id a releasing thread carries is of no live session either. A
  receiver's session is live, since users keep it alive, so no `OnReceived` runs when its
  `OnDisconnected` comes, nor begins after it.
  `ExceptionsHaveACause`: a thread that decrements the count has a reference, and the
  slot that the accept thread initialises was released, so these two exceptions are not
  reachable. What is left is `ReadySending`'s and that of a refused `Push`, each with its
  circumstances; once a process has ended nothing moves.
  `FewCallsDoNotOverflow`: a call has a packet queued or is on its way to `Enqueue`, and
  is not both, so `ReadySending` finds at most as many packets as there were calls.
* `LanCoreProofs`. `CountIsAlwaysExact`, `SlotsAlwaysHaveOneOwner`,
  `AlwaysOneSendAtATime`. The call stack of a thread determines the references it
  has (`ControlInv`), so the count can be exact and not only sufficient; a thread in
  a slot without a reference is the only one there, and the kernel has no operation
  of it (`SlotInv`), which is why `Init` may reset a count. The sending flag is never
  less than the threads that have raised it plus the send under way (`SendInv`): a
  thread that raises it from 0 is alone.
  `CallbacksAreInOrder`, in the strict order: calls come from inside `OnReceived` only,
  where the completion's reference keeps the session, so no slot is reused under a
  caller. The invariant (`EventInv`): an id that the accept thread has
  not announced yet is the newest and is not known; every other live session has an id
  of its own, known and not reported gone; the id a releasing thread carries is known,
  of no live session and carried by no other thread, so `OnDisconnected` comes once. A
  thread inside `OnReceived` has references, so its session stays live and keeps its
  id; it is the only one, since there is one receive at a time; and what it calls
  there (`SendPacket`, a release of another session) returns to it.
* `ChatServerProofs`. `PacketsAreAlwaysShared`: the count of a packet is the size of
  the set of its holders, jobs by their place in the queue; when the queue moves up
  the places are renamed by a bijection; late jobs are holders of their own.
  `UsersAreAlwaysConsistent`: the maps by session and by account are inverse to each
  other point by point, and a user is in the list that its position leads to and in no
  other. The lists are numbered, so several positions may share one (`SectorInv`); on the
  map the numbering is injective (`SectorsHaveTheirLists`).
  `GhostsComeOnlyFromLateRequests`: the invariant (`GhostInvOf`) is about a session
  none of whose requests was late: behind a disconnect job of it in the queue there are
  only disconnect jobs of it, and its late jobs are disconnects; once it has left, a
  disconnect is queued or late, or it has neither a job nor a user.
  `MessagesAlwaysReachNeighbours`: the lists of the sectors around the sender hold those
  that `Hears` describes, each in one list only, by the consistency.
* `RingBufferProofs`. `TypeCorrect`, `IndicesAlwaysAgree`, `ReceiveBuffersAreFree`,
  and `RingBufferIsAByteQueue`: the unread bytes are a function of the array and the
  two indices, so a write is an append wherever it is cut in two and a read takes
  from the front; from `TypeOK /\ IndicesAgree`.
* `LockFreeStackProofs`. `LockFreeStackIsAStack`, `ReservationsAreAlwaysBacked`. A
  list has one sequence of nodes (`LinksUnique`, by the least place where two could
  differ), so an exchange that succeeds is `Push` or `Pop` of the abstract stack and
  every other step a stutter. The invariant: a node is in the pool, in one thread's
  hands or on the list, once; a value likewise; a snapshot is never from the future,
  so a head with the `UID` of the snapshot is the head that was read, its node has
  been linked since and its link is the one that was read; there are at least as many
  nodes as claims and pushes not counted yet.
* `LockFreeQueueProofs`. `LockFreeQueueIsAQueue`, `QueueIsAlwaysConsistent`, for any
  number of producers and of consumers. There is a list from the dummy node, which is
  the queue, and one from the node of every producer that has not linked its node yet,
  because other producers may link behind that one. The lists have no node in common;
  a node is in the pool, about to be returned, or on one of them, once. No list can be
  linked to its own end, since a producer links only to the queue or to the list of a
  producer that rented later (`Rank`, the order of renting). So the exchange that
  links to the end of the queue is one `Enqueue` of a whole list of values, the one
  that links to another list is a stutter, and the one that moves `mHead` is
  `Dequeue`. Snapshots are never from the future (`UID`): an exchange of `mTail` that
  succeeds moves it to the next node, and one of `mHead` finds the tail not behind
  the node it gives back, so `mTail` never points into the pool. The used size is exact
  because the nodes outside the pool are those of the queue, of the lists not linked
  yet, and those about to be returned.
* `ObjectPoolLockFreeProofs`. `BlocksAlwaysHaveOneOwner`,
  `ReservationsAreAlwaysBacked`, `CapacityIsAlwaysBounded`. The same argument over
  the set of linked blocks: the list comes to each block once, by links that nobody
  but the owner of an unlinked block writes. The bound on the capacity: a thread
  allocates only when its decrement found nothing, so the blocks that nobody has
  rented are all on the way of some other thread.
* `PacketPoolProofs`. `PacketsAlwaysHaveTheirOwners`, `ChunksAreAlwaysInOnePlace`.
  What a thread has in its hands is its alone; the free count of a chunk is the
  blocks left in it plus those that are live, so the thread that returns the last
  block is unique.

Only model-checked: the liveness properties, which are outside the prover's reach; and
`NetStream` with `PacketCodec`, whose recursive functions would have to be unfolded for packets
of every length: the library's theorems on recursive definitions take operators,
which the provers here cannot instantiate.

## 5. Not modelled

Not modelled: `Start` and `Stop` of the two cores, but for what the chat server sees
of `Stop`; the library's `SectorManager`, which nothing calls; `ObjectPool`, a
single-threaded free list of one playground; `Profiler`, tables per thread;
`Logger`, `Random`, `int2`, the wrappers of Windows handles, events and keyboard, the
crash dump, the playgrounds and the dummy client, which have no logic to check or
exercise the library. `LockFreeQueue::Clear` runs only on queues that are empty here.
