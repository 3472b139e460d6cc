------------------------------ MODULE MCNetStream ------------------------------
(* NetStream with bytes of two bits, for TLC. *)
EXTENDS NetStream

\* ^ of two bits.
MCBitXor(a, b) == 2 * ((a \div 2 + b \div 2) % 2) + ((a + b) % 2)

\* Short, and longer than a packet can hold.
MCMessage == {<<3>>, <<1, 2, 3, 0, 1>>}

\* The right options, a wrong code, a wrong key, and a receiver that finds the
\* one message too short and the other too long.
MCOption ==
  LET right == [Code |-> 1, Key |-> 2, MaxPacketBodyLength |-> 9, ReadSize |-> 1] IN
  {right, [right EXCEPT !.Code = 2], [right EXCEPT !.Key = 3],
   [right EXCEPT !.MaxPacketBodyLength = 2, !.ReadSize = 2]}
================================================================================
