------------------------------ MODULE NetEvents ------------------------------
(***************************************************************************)
(* What a server core promises the application it calls back.              *)
(*                                                                         *)
(* EventSpec, kept by LanCore while its pool is large enough: OnConnected  *)
(* first, then any number of OnReceived, one at a time per session, then   *)
(* OnDisconnected once and last.                                           *)
(*                                                                         *)
(* LooseSpec, which is what NetCore keeps: a session may end before it is  *)
(* announced, and a receive of the slot's former session may be delivered  *)
(* to it, so OnReceived may run before OnConnected and twice at a time,    *)
(* and OnDisconnected may come first or again (or never).  Still, ids are  *)
(* never announced again, and after OnDisconnected there is no OnReceived. *)
(***************************************************************************)
CONSTANTS
  Session,       \* session ids
  Receiver,      \* the threads that call OnReceived
  None           \* no session

VARIABLES
  joined, left,  \* sessions OnConnected / OnDisconnected was called for
  receiving      \* per thread: the session whose OnReceived is running, or None

eventVars == <<joined, left, receiving>>

EventInit == joined = {} /\ left = {} /\ receiving = [t \in Receiver |-> None]

Join(s) ==
  /\ s \in Session \ joined
  /\ joined' = joined \cup {s}
  /\ UNCHANGED <<left, receiving>>

BeginReceive(t, s) ==
  /\ receiving[t] = None
  /\ s \in joined \ left /\ \A u \in Receiver : receiving[u] # s
  /\ receiving' = [receiving EXCEPT ![t] = s]
  /\ UNCHANGED <<joined, left>>

EndReceive(t) ==
  /\ receiving[t] # None
  /\ receiving' = [receiving EXCEPT ![t] = None]
  /\ UNCHANGED <<joined, left>>

Leave(s) ==
  /\ s \in joined \ left /\ \A u \in Receiver : receiving[u] # s
  /\ left' = left \cup {s}
  /\ UNCHANGED <<joined, receiving>>

EventNext ==
  \/ \E s \in Session : Join(s) \/ Leave(s) \/ \E t \in Receiver : BeginReceive(t, s)
  \/ \E t \in Receiver : EndReceive(t)

EventSpec == EventInit /\ [][EventNext]_eventVars

-----------------------------------------------------------------------------

BeginAnyReceive(t, s) ==
  /\ receiving[t] = None
  /\ s \in Session \ left
  /\ receiving' = [receiving EXCEPT ![t] = s]
  /\ UNCHANGED <<joined, left>>

LeaveAtAnyTime(s) ==
  /\ s \in Session /\ \A u \in Receiver : receiving[u] # s
  /\ left' = left \cup {s}
  /\ UNCHANGED <<joined, receiving>>

LooseNext ==
  \/ \E s \in Session : Join(s) \/ LeaveAtAnyTime(s) \/ \E t \in Receiver : BeginAnyReceive(t, s)
  \/ \E t \in Receiver : EndReceive(t)

LooseSpec == EventInit /\ [][LooseNext]_eventVars
==============================================================================
