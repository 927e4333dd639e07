-------------------------- MODULE BrokerRefinement --------------------------
(***************************************************************************)
(* The server as an implementation of PubSub: the mailbox of a client is    *)
(* what is stored for it and what the fan-out under way still owes it.      *)
(***************************************************************************)
EXTENDS BrokerProperties

TopicsOf(t) == {k \in DOMAIN all_topics : all_topics[k].topic = t}
ClientOf(subscription) == tcp_clients[subscription.subscriber].id

Subscriptions == [t \in Topics |->
  IF TopicsOf(t) = {} THEN <<>>
  ELSE LET s == all_topics[CHOOSE k \in TopicsOf(t) : TRUE].subscribers
       IN  [x \in DOMAIN s |-> [id |-> ClientOf(s[x]), SF |-> s[x].SF]]]

Online == {tcp_clients[k].id : k \in {j \in DOMAIN tcp_clients :
                                         tcp_clients[j].is_active = 1}}

(* A message whose GOT_IT or ACK is awaited has left the mailbox.           *)
Stored(k) ==
  LET s == tcp_clients[k].unreceived
  IN  IF pc = "gotit" /\ flushing = k THEN Tail(s) ELSE s
StoredOf(c) == IF EntriesWithId(c) = {} THEN <<>>
               ELSE Stored(CHOOSE k \in EntriesWithId(c) : TRUE)
Left == IF pc = "ack" THEN Tail(todo) ELSE todo
Owed(c) == Subsequence(Left, {x \in DOMAIN Left : ClientOf(Left[x]) = c})

StoredMail(c) == [x \in DOMAIN StoredOf(c) |-> [n |-> StoredOf(c)[x], SF |-> 1]]
OwedMail(c) == [x \in DOMAIN Owed(c) |-> [n |-> Len(published), SF |-> Owed(c)[x].SF]]
Mailbox == [c \in Ids |-> StoredMail(c) \o OwedMail(c)]

Service == INSTANCE PubSub WITH
  subscriptions <- Subscriptions, online <- Online, mailbox <- Mailbox

(* The server does what PubSub allows and nothing else: each datagram is     *)
(* sent or stored once for every subscription it met, in order, whatever     *)
(* connects, leaves and types meanwhile (server.c:134-246, 286-299).         *)
Implements == Service!Spec

(* And what is in the mailbox of a connected client is sent to it.           *)
Serves == Service!FairSpec
=============================================================================
