------------------------------ MODULE PacketCodec ------------------------------
(***************************************************************************)
(* nf::network::packet: the packet format and its encoding.                *)
(*                                                                         *)
(* On the wire a packet is a header (code, length, random key, checksum)   *)
(* and a body; the checksum and the body are encoded.  A byte is one of    *)
(* 0 .. ByteCount - 1, and the length, two bytes in the code, is one here. *)
(***************************************************************************)
EXTENDS Integers, Sequences

CONSTANTS
  ByteCount,     \* 256
  BitXor(_, _),  \* ^ on bytes
  BodyCapacity   \* tBodyCapacity

Byte == 0..(ByteCount - 1)
HeaderSize == 4  \* tHeaderSize

ASSUME CodecAssumption ==
  /\ ByteCount \in Nat \ {0, 1} /\ BodyCapacity \in Nat /\ BodyCapacity >= HeaderSize
  /\ \A a, b \in Byte : BitXor(a, b) \in Byte /\ BitXor(a, BitXor(a, b)) = b

\* uint8_t arithmetic.
U8(n) == n % ByteCount

-----------------------------------------------------------------------------
(* PacketEncode, PacketDecode, CalculateCheckSum. *)

\* P and E are the accumulators of the loop after i rounds.
PacketEncode(key, randKey, bytes) ==
  LET P[i \in 0..Len(bytes)] ==
        IF i = 0 THEN 0 ELSE BitXor(U8(P[i - 1] + randKey + i), bytes[i])
      E[i \in 0..Len(bytes)] ==
        IF i = 0 THEN 0 ELSE BitXor(U8(E[i - 1] + key + i), P[i])
  IN  [i \in 1..Len(bytes) |-> E[i]]

\* E is what was received, P what the encoder had.
PacketDecode(key, randKey, bytes) ==
  LET E(i) == IF i = 0 THEN 0 ELSE bytes[i]
      P(i) == IF i = 0 THEN 0 ELSE BitXor(U8(E(i - 1) + key + i), E(i))
  IN  [i \in 1..Len(bytes) |-> BitXor(U8(P(i - 1) + randKey + i), P(i))]

CalculateCheckSum(bytes) ==
  LET sum[i \in 0..Len(bytes)] == IF i = 0 THEN 0 ELSE sum[i - 1] + bytes[i]
  IN  U8(sum[Len(bytes)])

-----------------------------------------------------------------------------
(* Packet. *)

\* A packet fresh from the pool: nothing written, not encoded.
NewPacket == [body |-> <<>>, bytes |-> <<>>, encoded |-> FALSE]

\* mBodyEnd - mBodyBegin: mBodyEnd is tBodyCapacity after the start of the
\* buffer, header included.
Writable == BodyCapacity - HeaderSize

Shorter(m, n) == IF m < n THEN m ELSE n

PutBodyToCapacity(packet, bytes) ==
  [packet EXCEPT !.body = @ \o SubSeq(bytes, 1, Shorter(BodyCapacity - Len(@), Len(bytes)))]

\* PutBody, and operator<< through it: what does not fit is dropped.
PutBody(packet, bytes) ==
  [packet EXCEPT !.body =
     @ \o SubSeq(bytes, 1, Shorter(Writable - Len(@), Len(bytes)))]

\* GetBody, and operator>> through it, throws PacketReaderException unless
\* size bytes are left.
GetBodyThrows(body, size) == Len(body) < size

\* MoveBodyWritePos.
MoveBodyWritePos(size) == Shorter(Writable, size)

\* Encoding in place: the body is what the buffer holds after it.
Encode(packet, code, key, randKey) ==
  LET coded == PacketEncode(key, randKey, <<CalculateCheckSum(packet.body)>> \o packet.body)
  IN  [body |-> Tail(coded), encoded |-> TRUE,
       bytes |-> <<code, Len(packet.body), randKey>> \o coded]

\* EncodeOnce: only the first call encodes.
EncodeOnce(packet, code, key, randKey) ==
  IF packet.encoded THEN packet ELSE Encode(packet, code, key, randKey)

\* The fields of the header a receiver peeks at.
Header(bytes) == [Code |-> bytes[1], Length |-> bytes[2], RandKey |-> bytes[3]]

\* DoDecode: the checksum and the body, and whether they agree.
DoDecode(key, bytes) ==
  LET plain == PacketDecode(key, bytes[3], SubSeq(bytes, HeaderSize, Len(bytes)))
      body  == SubSeq(plain, 2, Len(plain))
  IN  [body |-> body, ok |-> plain[1] = CalculateCheckSum(body)]
================================================================================
