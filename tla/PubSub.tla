------------------------------- MODULE PubSub -------------------------------
(***************************************************************************)
(* What the publish/subscribe server promises, without sockets, handlers or *)
(* tables: every client has a mailbox.  A datagram goes to the mailboxes of *)
(* the subscriptions its topic has at that moment; messages leave a mailbox *)
(* for a process of the client, one at a time, the oldest first, and none   *)
(* is lost but those that a client without store-and-forward misses while   *)
(* it is away.                                                              *)
(***************************************************************************)
EXTENDS Subsequences

CONSTANTS
  Ids, Topics,
  Procs, IdOf        \* the processes that run for a client

VARIABLES
  subscriptions,     \* of each topic, in the order they were made
  online,            \* the clients that are connected
  published,         \* the topics of the datagrams, in order
  mailbox,           \* what each client has still to be sent: [n, SF]
  handed             \* the messages sent to each process

vars == <<subscriptions, online, published, mailbox, handed>>

Init ==
  /\ subscriptions = [t \in Topics |-> <<>>]
  /\ online = {}
  /\ published = <<>>
  /\ mailbox = [c \in Ids |-> <<>>]
  /\ handed = [p \in Procs |-> <<>>]

Come(c) ==
  /\ online' = online \union {c}
  /\ UNCHANGED <<subscriptions, published, mailbox, handed>>

Go(c) ==
  /\ online' = online \ {c}
  /\ UNCHANGED <<subscriptions, published, mailbox, handed>>

Subscribe(c, t, sf) ==
  /\ subscriptions' = [subscriptions EXCEPT ![t] = Append(@, [id |-> c, SF |-> sf])]
  /\ UNCHANGED <<online, published, mailbox, handed>>

(* A client loses subscriptions of its own; the others stay as they are.    *)
Of(c, s) == {k \in DOMAIN s : s[k].id = c}
Unsubscribe(c, t) ==
  /\ \E gone \in SUBSET Of(c, subscriptions[t]) :
       /\ gone # {}
       /\ subscriptions' = [subscriptions EXCEPT ![t] =
                              Subsequence(@, DOMAIN @ \ gone)]
  /\ UNCHANGED <<online, published, mailbox, handed>>

(* One message for each subscription: a client with two gets it twice.      *)
Publish(t) ==
  /\ published' = Append(published, t)
  /\ mailbox' = [c \in Ids |->
       LET own == Subsequence(subscriptions[t], Of(c, subscriptions[t]))
       IN  mailbox[c] \o [k \in DOMAIN own |->
                            [n |-> Len(published) + 1, SF |-> own[k].SF]]]
  /\ UNCHANGED <<subscriptions, online, handed>>

Hand(p) ==
  LET c == IdOf[p]
  IN  /\ c \in online
      /\ mailbox[c] # <<>>
      /\ handed' = [handed EXCEPT ![p] = Append(@, Head(mailbox[c]).n)]
      /\ mailbox' = [mailbox EXCEPT ![c] = Tail(@)]
      /\ UNCHANGED <<subscriptions, online, published>>

(* A message of a client that is away and asked for no storing.             *)
Miss(c) ==
  /\ c \notin online
  /\ \E k \in DOMAIN mailbox[c] :
       /\ mailbox[c][k].SF = 0
       /\ mailbox' = [mailbox EXCEPT ![c] =
                        SubSeq(@, 1, k - 1) \o SubSeq(@, k + 1, Len(@))]
  /\ UNCHANGED <<subscriptions, online, published, handed>>

Next ==
  \/ \E c \in Ids :
       \/ Come(c) \/ Go(c) \/ Miss(c)
       \/ \E t \in Topics : \/ Unsubscribe(c, t)
                            \/ \E sf \in {0, 1} : Subscribe(c, t, sf)
  \/ \E t \in Topics : Publish(t)
  \/ \E p \in Procs : Hand(p)

Spec == Init /\ [][Next]_vars

(* A mailbox of a client that stays connected is emptied.                   *)
FairSpec == Spec /\ \A c \in Ids :
                      WF_vars(\E p \in Procs : IdOf[p] = c /\ Hand(p))
=============================================================================
