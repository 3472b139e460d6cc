----------------------------- MODULE MCChatServer -----------------------------
(***************************************************************************)
(* ChatServer on a small instance, for TLC, in two parts that bound what   *)
(* clients, the timer and the operator do in different ways:               *)
(*   users    long histories of the users and the sectors: any request,    *)
(*            one callback after another on one thread, no heartbeat, no   *)
(*            end                                                          *)
(*   threads  all interleavings of the threads, the late jobs and the end  *)
(*            of the server around few callbacks                           *)
(* Steps that are under fairness are never kept from happening.            *)
(***************************************************************************)
EXTENDS ChatServer

CONSTANT FewCallbacks      \* bound: callbacks of the threads part

VARIABLE part

Req(type, a, d, w) == [type |-> type, account |-> a, dest |-> d, whole |-> w]
Home == <<0, 0>>

\* Two sectors that are not next to each other, and a position off a map of
\* three by three that has the list of sector <<0, 1>>.
Dest == {Home, <<2, 2>>, <<3, 0>>}

\* Complete requests, one that is cut short, one of an unknown type.
Requests ==
       {Req(ty, a, Home, TRUE) : ty \in {"UserLogin", "UserMessage"}, a \in Account}
  \cup {Req("UserSectorMove", a, d, TRUE) : a \in Account, d \in Dest}
  \cup {Req(ty, CHOOSE a \in Account : TRUE, Home, FALSE) : ty \in {"UserLogin", "INVALID"}}

Quiet ==
  /\ jobPc = "wait" /\ ~mJobEvent /\ IsEmpty
  /\ \A t \in Receiver : pc[t] = "idle"

UsersPart ==
  /\ callbacks' > callbacks => Quiet
  /\ \A t \in Receiver : pc'[t] = "idle" \/ t = CHOOSE x \in Receiver : TRUE
  /\ \A p \in Packet : content'[p] = None \/ p = CHOOSE x \in Packet : TRUE
  /\ ticks' = 0 /\ mainPc' = "running" /\ lateJobs' = {}

\* One that adds a user and is answered, one of an unknown type.
FewRequests ==
  {r \in Requests : /\ r.account = CHOOSE a \in Account : TRUE
                    /\ \/ r.type = "UserLogin" /\ r.whole
                       \/ r.type = "INVALID"}

ThreadsPart ==
  /\ callbacks' <= FewCallbacks
  /\ \A p \in Packet : content'[p] \in FewRequests \cup {None}

MCInit == Init /\ part \in {"users", "threads"}
MCNext ==
  \/ part = "users" /\ Next /\ UsersPart /\ UNCHANGED part
  \/ part = "threads" /\ Next /\ ThreadsPart /\ UNCHANGED part
MCSpec == MCInit /\ [][MCNext]_<<vars, part>> /\ Fairness
===============================================================================
