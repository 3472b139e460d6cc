------------------------------- MODULE NetStream -------------------------------
(***************************************************************************)
(* One connection, from SendPacket at one end to OnReceived at the other:  *)
(* PacketCodec on both sides, a TCP stream that may cut the bytes up       *)
(* anywhere, the RingBuffer of the receiving session and the loop of       *)
(* NetCore::NetworkRecvCompleted that takes packets out of it.             *)
(*                                                                         *)
(* One thread runs the loop, and the bytes arrive in the meantime.  That   *)
(* is so while the session has one receive at a time; NetCore may give it  *)
(* a second one, left over from the slot's former session.                 *)
(***************************************************************************)
EXTENDS PacketCodec

CONSTANTS
  Cap,           \* NET_SESSION_RECVQUEUE_SIZE
  PacketCode, PacketEncodeKey,  \* ServerComponentOption of the receiver
  Option,        \* Code and Key of the sender; MaxPacketBodyLength of the receiver,
                 \* and the ReadSize bytes its OnReceived reads from every packet
  Message,       \* bound: what is written into a packet
  MaxSent        \* bound: packets sent

\* A packet fits into the receive buffer.
ASSUME StreamAssumption ==
  /\ Cap \in Nat /\ HeaderSize + BodyCapacity <= Cap
  /\ PacketCode \in Byte /\ PacketEncodeKey \in Byte
  /\ Option \subseteq [Code : Byte, Key : Byte, MaxPacketBodyLength : Nat, ReadSize : Nat]
  /\ Message \subseteq Seq(Byte) /\ MaxSent \in Nat

VARIABLES
  buf, mUsedSize, mWriteIndex, mReadIndex, moved,  \* mRecvQueue
  option,           \* the options of this connection
  packet,           \* the last packet sent
  wire,             \* bytes sent and not received
  pc,               \* "posted" (a receive is pending), "parse", "taken", "closed", "crashed"
  sent, delivered   \* history: the bodies sent, and given to OnReceived

ringVars == <<buf, mUsedSize, mWriteIndex, mReadIndex, moved>>
vars == <<ringVars, option, packet, wire, pc, sent, delivered>>

Ring == INSTANCE RingBuffer WITH MaxChunk <- 0

-----------------------------------------------------------------------------
(* The sender. *)

\* SendPacket of a packet with this body: EncodeOnce, Enqueue, SendPost.
SendPacket(p, body) ==
  /\ Len(sent) < MaxSent
  /\ \E randKey \in 0..(ByteCount - 2) :
       packet' = EncodeOnce(p, option.Code, option.Key, randKey)
  /\ wire' = wire \o packet'.bytes
  /\ sent' = Append(sent, body)
  /\ UNCHANGED <<ringVars, option, pc, delivered>>

\* AllocSend, operator<< and SendPacket.  What PutBody has no room for is left
\* out, as in a build without assertions; one with them stops in operator<<.
SendNew(m) == LET p == PutBody(NewPacket, m) IN SendPacket(p, p.body)

\* SendPacket of a packet that was encoded before: the chat server's SendAround
\* sends one packet to every user around.  (Here both sends are on this
\* connection, which the codec cannot tell.)
SendAgain == sent # <<>> /\ SendPacket(packet, sent[Len(sent)])

-----------------------------------------------------------------------------
(* The receiver. *)

\* The pending WSARecv completes with some of the bytes that have arrived.
Receive(n) ==
  /\ pc = "posted" /\ n <= Len(wire)
  /\ Ring!MoveWrite(SubSeq(wire, 1, n))
  /\ wire' = SubSeq(wire, n + 1, Len(wire))
  /\ pc' = "parse"
  /\ UNCHANGED <<option, packet, sent, delivered>>

\* The header is there, and what a Peek at it shows.
HasHeader == mUsedSize >= HeaderSize
header == Header(Ring!Gather(HeaderSize))
desirePacketSize == HeaderSize + header.Length

BadHeader ==
  \/ header.Code # PacketCode
  \/ header.Length > option.MaxPacketBodyLength \/ header.Length >= BodyCapacity

\* CancelationIO.
Refuse ==
  /\ pc = "parse" /\ HasHeader /\ BadHeader
  /\ pc' = "closed"
  /\ UNCHANGED <<ringVars, option, packet, wire, sent, delivered>>

PacketIncomplete == HasHeader => ~BadHeader /\ desirePacketSize > mUsedSize

\* The loop ends, and RecvPost posts the next receive unless there is no room.
RecvPost ==
  /\ pc = "parse" /\ PacketIncomplete
  /\ pc' = IF Ring!GetEnquableSize = 0 THEN "closed" ELSE "posted"
  /\ UNCHANGED <<ringVars, option, packet, wire, sent, delivered>>

PacketComplete == HasHeader /\ ~BadHeader /\ desirePacketSize <= mUsedSize

\* AllocRecv, Dequeue, MoveBodyWritePos: a body that does not fit ends the process.
TakePacket ==
  /\ pc = "parse" /\ PacketComplete
  /\ Ring!Dequeue(desirePacketSize)
  /\ pc' = IF MoveBodyWritePos(header.Length) = header.Length THEN "taken" ELSE "crashed"
  /\ UNCHANGED <<option, packet, wire, sent, delivered>>

\* DoDecode, OnReceived, TryFreeRecv; then the loop goes on at next.  A checksum
\* that disagrees, or a PacketReaderException from OnReceived, closes the session.
Handle(next) ==
  /\ pc = "taken"
  /\ LET plain == DoDecode(PacketEncodeKey, moved) IN
     \/ /\ plain.ok /\ ~GetBodyThrows(plain.body, option.ReadSize)
        /\ delivered' = Append(delivered, plain.body)
        /\ pc' = next
     \/ /\ ~plain.ok \/ GetBodyThrows(plain.body, option.ReadSize)
        /\ pc' = "closed"
        /\ UNCHANGED delivered
  /\ UNCHANGED <<ringVars, option, packet, wire, sent>>

HandleOne == Handle("posted")

HandlePacket == Handle("parse")

-----------------------------------------------------------------------------
Init ==
  /\ Ring!Init
  /\ option \in Option
  /\ packet = NewPacket /\ wire = <<>> /\ pc = "posted"
  /\ sent = <<>> /\ delivered = <<>>

NetworkRecvCompleted == Refuse \/ RecvPost \/ TakePacket \/ HandlePacket

Next ==
  \/ \E m \in Message : SendNew(m)
  \/ SendAgain
  \/ \E n \in 1..Cap : Receive(n)
  \/ NetworkRecvCompleted

Spec == Init /\ [][Next]_vars

\* TCP delivers what was sent, and the thread that handles the completion goes on.
LiveSpec == Spec /\ WF_vars(NetworkRecvCompleted) /\ WF_vars(\E n \in 1..Cap : Receive(n))

-----------------------------------------------------------------------------
(* Properties. *)

\* The bodies a packet can have.
Body == UNION {[1..n -> Byte] : n \in 0..Writable}

Channel == INSTANCE MessageChannel WITH
  Message <- Body,
  open <- pc \notin {"closed", "crashed"},
  keyed <- option.Key = PacketEncodeKey

\* However the stream cuts the bytes up, wherever the receive buffer wraps and
\* whatever the random key of each packet, OnReceived gets the bodies that were
\* sent, in order, each once, and nothing after the session was closed.
ImplementsChannel == Channel!Spec

\* A sender with the same code and key whose bodies are neither too long for the
\* receiver nor too short for its OnReceived is never cut off, and
\* no sender that fills its packets with PutBody ends the receiver's process
\* (the crash after MoveBodyWritePos) or fills its buffer.
GoodSendersStayConnected ==
  /\ pc # "crashed"
  /\ (/\ option.Code = PacketCode /\ option.Key = PacketEncodeKey
      /\ \A i \in DOMAIN sent : Len(sent[i]) \in option.ReadSize..option.MaxPacketBodyLength)
     => pc # "closed"

\* A packet that was sent is given to OnReceived although nothing is sent after
\* it, unless the session is closed: no complete packet waits in the buffer for
\* the next receive to complete.
Arrives ==
  \A n \in 1..MaxSent :
    Len(sent) >= n ~> Len(delivered) >= n \/ pc \in {"closed", "crashed"}
================================================================================
