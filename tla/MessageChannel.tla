---------------------------- MODULE MessageChannel ----------------------------
(***************************************************************************)
(* What a connection promises the application: the messages sent arrive    *)
(* whole and in order, until the connection is closed.  Between two ends   *)
(* that do not have the same key, what arrives is arbitrary.               *)
(***************************************************************************)
EXTENDS Naturals, Sequences

CONSTANT Message

VARIABLES
  sent, delivered,  \* the messages, in order
  open,             \* the connection
  keyed             \* the two ends have the same key

Init == sent = <<>> /\ delivered = <<>> /\ open = TRUE /\ keyed \in BOOLEAN

Send(m) ==
  /\ sent' = Append(sent, m)
  /\ UNCHANGED <<delivered, open, keyed>>

Deliver(m) ==
  /\ open /\ Len(delivered) < Len(sent)
  /\ keyed => m = sent[Len(delivered) + 1]
  /\ delivered' = Append(delivered, m)
  /\ UNCHANGED <<sent, open, keyed>>

Close ==
  /\ open' = FALSE
  /\ UNCHANGED <<sent, delivered, keyed>>

Next == Close \/ \E m \in Message : Send(m) \/ Deliver(m)

Spec == Init /\ [][Next]_<<sent, delivered, open, keyed>>
===============================================================================
