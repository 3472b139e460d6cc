---------------------------- MODULE NetCoreEvents ----------------------------
(***************************************************************************)
(* NetCore keeps the loose promises of NetEvents: OnConnected is the       *)
(* accept thread's on_connected, OnReceived happens within the label       *)
(* received, OnDisconnected is the step after on_disconnected.             *)
(***************************************************************************)
EXTENDS NetCore

NoSession == <<>>

Events == INSTANCE NetEvents WITH
  Session   <- Slot \X (1..MaxUid),
  Receiver  <- IOThread,
  None      <- NoSession,
  receiving <- [t \in IOThread |-> IF pc[t] = "received" THEN <<cur[t], sessionID[cur[t]]>>
                                   ELSE NoSession]

\* However soon a slot is used again and however old the ids that are used:
\* no OnReceived of a session runs when its OnDisconnected is called, nor
\* after, and no session is announced twice.
ImplementsEvents == Events!LooseSpec
==============================================================================
