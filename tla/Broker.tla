-------------------------------- MODULE Broker --------------------------------
(***************************************************************************)
(* The publish/subscribe application: one server (server.c), the TCP       *)
(* client processes it serves (client.c), and the kernel's sockets between *)
(* them.                                                                   *)
(*                                                                         *)
(* The server is one thread around select().  A pass over the ready        *)
(* descriptors is in ascending order; each handler is one action, cut only *)
(* where the code blocks in recv(): waiting for the ACK of a message just  *)
(* sent, and waiting for GOT_IT while stored messages are replayed.        *)
(* Clients run between any two of those actions.                           *)
(*                                                                         *)
(* Abstractions.  A datagram is its topic and a number, given on arrival;  *)
(* datagrams come from outside, so their loss or reordering before the     *)
(* server is any choice of the topics that do arrive.  Client messages are *)
(* BUFLEN bytes and are received whole.  Server messages are shorter than  *)
(* that and the client may receive several of them in one recv().          *)
(* Malformed command lines and over-long names are left out.               *)
(***************************************************************************)
EXTENDS Subsequences

CONSTANTS
  Procs,          \* client processes; each connects at most once
  IdOf,           \* the ID each process was started with
  Topics,         \* topic names
  Substring,      \* pairs <<s, t>> of names such that s occurs in t
  MaxFd,          \* the largest descriptor the server can be given
  MaxClients,     \* length of tcp_clients
  MaxTopics,      \* length of all_topics
  MaxSubscribers, \* length of a topic's subscribers
  MaxUnreceived,  \* length of a client's unreceived
  StackFill,      \* n_subscribers of each all_topics slot before its first use
  Commands,       \* command lines the users may type
  MaxCommands,    \* bound: commands typed at each process
  MaxPublish,     \* bound: datagrams received
  EagerUsers,     \* whether users type before the server has announced them
  After,          \* the processes that must have ended before one is started
  MayExit,        \* processes whose user may type exit
  MayStop,        \* whether exit may be typed at the server
  NoProc, NoId    \* no process, no ID

Ids == {IdOf[p] : p \in Procs}

Stdin == 0   \* the descriptors opened before the loop, in the order
Udp == 3     \* in which the program obtains them
Listen == 4
Fds == 5 .. MaxFd

ASSUME ConstantsOK ==
  /\ IdOf \in [Procs -> Ids] /\ NoId \notin Ids /\ NoProc \notin Procs
  /\ Substring \subseteq Topics \X Topics
  /\ \A t \in Topics : <<t, t>> \in Substring
  /\ MaxFd \in Nat /\ MaxClients \in Nat /\ MaxTopics \in Nat
  /\ MaxSubscribers \in Nat /\ MaxUnreceived \in Nat
  /\ StackFill \in [1 .. MaxTopics -> Nat]
  /\ Commands \subseteq [kind : {"subscribe", "unsubscribe"},
                         topic : Topics, SF : {0, 1}]
  /\ MaxCommands \in [Procs -> Nat] /\ MaxPublish \in Nat
  /\ MayExit \subseteq Procs /\ MayStop \in BOOLEAN
  /\ EagerUsers \in BOOLEAN /\ After \in [Procs -> SUBSET Procs]

VARIABLES
  \* ---- server
  status,             \* "running", "exited", "died" (DIE or SIGPIPE), "undefined"
  pc,                 \* "loop", or where the server stands in a handler
  ready,              \* tmp_fds: the descriptors of this pass still to handle
  tcp_clients,        \* the registered clients
  all_topics,         \* the topics and their subscribers
  fd_owner,           \* read_fds: the process behind each open descriptor
  new_tcp_sockfd,     \* the last descriptor accepted
  current_tcp_client, \* the pointer left by the last subscribe (0: garbage)
  leftover_id,        \* the ID left in unsubscribe's local copy
  published,          \* the topics of the datagrams received, in order
  todo,               \* the subscriptions the last one still has to go to
  flushing,           \* the client whose stored messages are replayed
  \* ---- kernel
  backlog,            \* connections waiting for accept
  link,               \* state of each process's connection
  toServer, toClient, \* bytes in flight, as whole messages
  \* ---- client processes
  cstate, typed,
  \* ---- history
  asked,              \* the topics each process sent a subscribe for
  handed,             \* the messages the server sent to each process
  printed             \* the messages each process printed

registry == <<tcp_clients, all_topics>>
stale == <<new_tcp_sockfd, current_tcp_client, leftover_id>>
job == <<published, todo, flushing>>
server == <<status, pc, ready, registry, fd_owner, stale, job>>
network == <<backlog, link, toServer, toClient>>
client == <<cstate, typed, asked, handed, printed>>
vars == <<server, network, client>>

Message == 1 .. MaxPublish       \* the text sent for the n-th datagram
Data(n) == [kind |-> "data", n |-> n]
Ask == [kind |-> "ID_CLIENT?"]
CloseClient == [kind |-> "close client"]
ClientMessages == {Data(n) : n \in Message} \cup {Ask, CloseClient}

IdReply(p) == [kind |-> "ID_CLIENT:", id |-> IdOf[p]]
GotIt == [kind |-> "GOT_IT"]
Bye == [kind |-> "disconnected."]
ServerMessages == Commands \cup {IdReply(p) : p \in Procs} \cup {GotIt, Bye}

ClientEntry == [id : Ids, is_active : {0, 1}, current_socket : Fds,
                unreceived : Seq(Message)]
Subscription == [subscriber : 0 .. MaxClients, SF : {0, 1}]
TopicEntry == [topic : Topics, subscribers : Seq(Subscription)]

TypeOK ==
  /\ status \in {"running", "exited", "died", "undefined"}
  /\ pc \in {"loop", "fanout", "ack", "flush", "gotit"}
  /\ ready \subseteq {Stdin, Udp, Listen} \cup Fds
  /\ tcp_clients \in Seq(ClientEntry) /\ Len(tcp_clients) <= MaxClients
  /\ all_topics \in Seq(TopicEntry) /\ Len(all_topics) <= MaxTopics
  /\ fd_owner \in [Fds -> Procs \cup {NoProc}]
  /\ new_tcp_sockfd \in Fds \cup {0}
  /\ current_tcp_client \in 0 .. Len(tcp_clients)
  /\ leftover_id \in Ids \cup {NoId}
  /\ published \in Seq(Topics) /\ Len(published) <= MaxPublish
  /\ todo \in Seq(Subscription)
  /\ flushing \in 0 .. Len(tcp_clients)
  /\ backlog \in Seq(Procs)
  /\ link \in [Procs -> {"none", "open", "fin", "rst", "dead", "shut", "shutrst"}]
  /\ toServer \in [Procs -> Seq(ServerMessages)]
  /\ toClient \in [Procs -> Seq(ClientMessages)]
  /\ cstate \in [Procs -> {"start", "running", "done", "failed"}]
  /\ typed \in [Procs -> Nat]
  /\ asked \in [Procs -> SUBSET Topics]
  /\ handed \in [Procs -> Seq(Message)]
  /\ printed \in [Procs -> Seq(Message)]

Init ==
  /\ status = "running" /\ pc = "loop" /\ ready = {}
  /\ tcp_clients = <<>> /\ all_topics = <<>>
  /\ fd_owner = [f \in Fds |-> NoProc]
  /\ new_tcp_sockfd = 0 /\ current_tcp_client = 0 /\ leftover_id = NoId
  /\ published = <<>> /\ todo = <<>> /\ flushing = 0
  /\ backlog = <<>> /\ link = [p \in Procs |-> "none"]
  /\ toServer = [p \in Procs |-> <<>>] /\ toClient = [p \in Procs |-> <<>>]
  /\ cstate = [p \in Procs |-> "start"] /\ typed = [p \in Procs |-> 0]
  /\ asked = [p \in Procs |-> {}]
  /\ handed = [p \in Procs |-> <<>>] /\ printed = [p \in Procs |-> <<>>]

-----------------------------------------------------------------------------
IsFirst(k, S) == k \in S /\ \A m \in S : k <= m

(* unsubscribe removes while advancing: of consecutive matches, the one     *)
(* that slides into the place of a removed one is not looked at.  Of the   *)
(* matching positions M, RemovedOf(M) are removed; Keep(s, S) closes the   *)
(* gaps.                                                                   *)
RemovedOf(M) == {q \in M : \E m \in 0 .. q - 1 :
                   m \notin M /\ m + 1 .. q \subseteq M /\ (q - m) % 2 = 1}
Keep_Truncate(s, S) == SubSeq(s, 1, Cardinality(S))  \* mutant: nothing shifted
Keep(s, S) == Subsequence(s, S)

(* Mutated forms of definitions below, each a plausible slip in the code:  *)
(* a property that none of them breaks would say nothing about the code.   *)
EntriesWithId_Active(id) ==       \* look for the ID among the active clients only
  {k \in DOMAIN tcp_clients : tcp_clients[k].id = id /\ tcp_clients[k].is_active = 1}
EntriesAt_OffByOne(i) == {k + 1 : k \in {j \in DOMAIN tcp_clients :
                                           tcp_clients[j].current_socket = i}}
EntriesAt_NotLast(i) ==              \* the loop stops at n_clients - 1
  {k \in DOMAIN tcp_clients : k < Len(tcp_clients) /\ tcp_clients[k].current_socket = i}
NewEntry_NoSocket(i, p) == [id |-> IdOf[p], is_active |-> 1,
                            current_socket |-> 0, unreceived |-> <<>>]
NewEntry_LastAccepted(i, p) == [id |-> IdOf[p], is_active |-> 1,
                       current_socket |-> new_tcp_sockfd, unreceived |-> <<>>]
Deactivated_Removed(k) == Keep(tcp_clients, DOMAIN tcp_clients \ {k})
TopicsNamed_None(t) == {k \in {} : all_topics[k].topic = t}  \* can_add always 1
Matching_Any(t) == DOMAIN all_topics               \* names not compared
Unanswered_None(k) == <<>>          \* nr_unreceived = 0 inside the loop
Unanswered_All(k) == tcp_clients[k].unreceived     \* nr_unreceived never reset
Waiting_NoConnections == {}          \* the listening socket not in read_fds
Handled_Never(i) == ready' = ready

(* Sockets.  link[p] is "open"; "fin": the client closed, what it sent can  *)
(* still be read, then recv() returns 0; "rst": the client's end was reset, *)
(* one send() or recv() after the data fails; "dead": recv() returns 0 and  *)
(* a send() kills the server, since nobody ignores SIGPIPE; "shut" and      *)
(* "shutrst": the server closed, with a FIN or a RST.  A send() to "fin"    *)
(* succeeds, and is answered by a RST.                                      *)

Owner(s) == IF s \in Fds THEN fd_owner[s] ELSE NoProc
OpenFds == {f \in Fds : fd_owner[f] # NoProc}
Readable(p) == toServer[p] # <<>> \/ link[p] \in {"fin", "rst", "dead"}
CanSend(s) == Owner(s) # NoProc /\ link[Owner(s)] \in {"open", "fin"}

(* A send() by the server to p that succeeds. *)
Transmit(p, m) ==
  /\ toClient' = IF link[p] = "open"
                 THEN [toClient EXCEPT ![p] = Append(@, m)] ELSE toClient
  /\ link' = IF link[p] = "fin" THEN [link EXCEPT ![p] = "dead"] ELSE link

(* A recv() from p inside a handler, its result unchecked. *)
Receive_NoWait(p) == UNCHANGED <<toServer, link>>   \* mutant: no recv()
Receive(p) ==
  /\ Readable(p)
  /\ toServer' = IF toServer[p] = <<>> THEN toServer
                 ELSE [toServer EXCEPT ![p] = Tail(@)]
  /\ link' = IF toServer[p] = <<>> /\ link[p] = "rst"
             THEN [link EXCEPT ![p] = "dead"] ELSE link

(* What close() by the server leaves of p's connection; closing with       *)
(* unread input resets it.                                                 *)
AfterClose(p, inbox) ==
  CASE link[p] = "open" -> IF inbox[p] = <<>> THEN "shut" ELSE "shutrst"
    [] link[p] \in {"fin", "rst", "dead"} -> "none"
    [] OTHER -> link[p]

(* The server process ends and the kernel closes all it had open. *)
Halt(s) ==
  /\ status' = s
  /\ link' = [p \in Procs |-> AfterClose(p, toServer)]
  /\ toServer' = [p \in Procs |-> <<>>]
  /\ UNCHANGED <<pc, ready, registry, fd_owner, stale, job, backlog, client>>
Crash(s) == Halt(s) /\ UNCHANGED toClient

-----------------------------------------------------------------------------
(* The select() loop: one pass handles the descriptors select() reported,  *)
(* lowest first.                                                           *)

Turn(i) == status = "running" /\ pc = "loop" /\ IsFirst(i, ready)
Handled(i) == ready' = ready \ {i}
AtSelect == status = "running" /\ pc = "loop" /\ ready = {}

Waiting == IF backlog = <<>> THEN {} ELSE {Listen}
Pending == {f \in OpenFds : Readable(fd_owner[f])} \cup Waiting

(* A datagram or a line typed at the server may or may not be there. *)
Select ==
  /\ AtSelect
  /\ \E outside \in SUBSET ((IF Len(published) < MaxPublish THEN {Udp} ELSE {})
                             \cup (IF MayStop THEN {Stdin} ELSE {})) :
        ready' = Pending \cup outside
  /\ ready' # {}
  /\ UNCHANGED <<status, pc, registry, fd_owner, stale, job, network, client>>

Accept_Hidden ==       \* mutant: another variable of the name hides new_tcp_sockfd
  /\ Turn(Listen) /\ Handled(Listen)
  /\ \E f \in Fds, p \in Procs :
       /\ IsFirst(f, Fds \ OpenFds) /\ backlog # <<>> /\ p = Head(backlog)
       /\ backlog' = Tail(backlog)
       /\ fd_owner' = [fd_owner EXCEPT ![f] = p]
       /\ Transmit(p, Ask)
  /\ UNCHANGED <<status, pc, registry, stale, job, toServer, client>>
Accept ==
  /\ Turn(Listen) /\ Handled(Listen)
  /\ \E f \in Fds, p \in Procs :
       /\ IsFirst(f, Fds \ OpenFds) /\ backlog # <<>> /\ p = Head(backlog)
       /\ backlog' = Tail(backlog)
       /\ fd_owner' = [fd_owner EXCEPT ![f] = p]
       /\ new_tcp_sockfd' = f
       /\ Transmit(p, Ask)
  /\ UNCHANGED <<status, pc, registry, current_tcp_client, leftover_id, job,
                 toServer, client>>

AcceptFails == Turn(Listen) /\ OpenFds = Fds /\ Crash("died")

(* exit: every entry, connected or not, is sent "close client" over the     *)
(* socket it last had; the result is unchecked, but SIGPIPE may end it all.  *)
StopServer ==
  LET owner(k) == Owner(tcp_clients[k].current_socket)
      kills(k) == owner(k) # NoProc /\ link[owner(k)] = "dead"
      reached == {k \in DOMAIN tcp_clients : \A m \in 1 .. k : ~kills(m)}
      told == {p \in Procs : link[p] = "open" /\ \E k \in reached : owner(k) = p}
  IN /\ Turn(Stdin)
     /\ toClient' = [p \in Procs |-> IF p \in told
                       THEN Append(toClient[p], CloseClient) ELSE toClient[p]]
     /\ Halt(IF reached = DOMAIN tcp_clients THEN "exited" ELSE "died")

-----------------------------------------------------------------------------
(* A datagram: its topic is added when no topic has that very name, and it *)
(* goes to the subscribers in order, one ACK at a time.                    *)

TopicsNamed(t) == {k \in DOMAIN all_topics : all_topics[k].topic = t}
Resume_Always(rest) == todo' = rest /\ pc' = "fanout"  \* mutant: one too many
Resume_Short(rest) ==                                   \* mutant: one too few
  todo' = rest /\ pc' = IF Len(rest) <= 1 THEN "loop" ELSE "fanout"
Resume(rest) == todo' = rest /\ pc' = IF rest = <<>> THEN "loop" ELSE "fanout"

ReceiveDatagram(t) ==
  /\ Turn(Udp) /\ Handled(Udp)
  /\ Len(published) < MaxPublish /\ published' = Append(published, t)
  /\ \/ /\ TopicsNamed(t) = {} /\ Len(all_topics) < MaxTopics
        /\ all_topics' = Append(all_topics, [topic |-> t, subscribers |-> <<>>])
        /\ Resume(<<>>)
     \/ \* names are unique (TopicNamesUnique): one round of the outer loop
        \E k \in TopicsNamed(t) : Resume(all_topics[k].subscribers)
                                  /\ UNCHANGED all_topics
  /\ leftover_id' = NoId  \* overwritten: see Unsubscribe
  /\ UNCHANGED <<status, tcp_clients, fd_owner, new_tcp_sockfd,
                 current_tcp_client, flushing, network, client>>

TopicTableOverrun(t) == Turn(Udp) /\ TopicsNamed(t) = {}
                        /\ Len(all_topics) = MaxTopics /\ Crash("undefined")

Addressee == Head(todo).subscriber
FanningOut == status = "running" /\ pc = "fanout"
ToInactive_Any == FanningOut /\ Addressee # 0    \* mutant: is_active not tested
ToActive == FanningOut /\ Addressee # 0 /\ tcp_clients[Addressee].is_active = 1
ToInactive == FanningOut /\ Addressee # 0 /\ tcp_clients[Addressee].is_active = 0
Full(c) == Len(tcp_clients[c].unreceived) = MaxUnreceived

SendToActive ==
  /\ ToActive
  /\ LET s == tcp_clients[Addressee].current_socket
         n == Len(published)
     IN /\ CanSend(s)
        /\ Transmit(fd_owner[s], Data(n))
        /\ handed' = [handed EXCEPT ![fd_owner[s]] = Append(@, n)]
  /\ pc' = "ack"
  /\ UNCHANGED <<status, ready, registry, fd_owner, stale, job, backlog,
                 toServer, cstate, typed, asked, printed>>

SendFails == ToActive /\ ~CanSend(tcp_clients[Addressee].current_socket)
             /\ Crash("died")

(* Whatever the client sent next is taken for the ACK. *)
AwaitAck ==
  /\ status = "running" /\ pc = "ack"
  /\ Receive(fd_owner[tcp_clients[Addressee].current_socket])
  /\ Resume(Tail(todo))
  /\ UNCHANGED <<status, ready, registry, fd_owner, stale, published, flushing,
                 backlog, toClient, client>>

StoreOrSkip ==
  /\ ToInactive
  /\ \/ /\ Head(todo).SF = 1 /\ ~Full(Addressee)
        /\ tcp_clients' = [tcp_clients EXCEPT ![Addressee].unreceived =
                             Append(@, Len(published))]
     \/ Head(todo).SF # 1 /\ UNCHANGED tcp_clients
  /\ Resume(Tail(todo))
  /\ UNCHANGED <<status, ready, all_topics, fd_owner, stale, published,
                 flushing, network, client>>

(* An uninitialised subscriber pointer is followed, or unreceived overrun. *)
FanOutUndefined ==
  /\ \/ FanningOut /\ Addressee = 0
     \/ ToInactive /\ Head(todo).SF = 1 /\ Full(Addressee)
  /\ Crash("undefined")

-----------------------------------------------------------------------------
(* Input on a client socket. *)

Reads(i, p, m) == /\ i \in Fds /\ Turn(i) /\ p = fd_owner[i] /\ toServer[p] # <<>>
                  /\ m = Head(toServer[p])
Consumed(p) == [toServer EXCEPT ![p] = Tail(@)]

(* recv() on an ended connection returns 0, and the handler does nothing; *)
(* on a reset connection, or a descriptor closed earlier in the pass, it  *)
(* fails and the server exits.                                            *)
ReadNothing(i) ==
  /\ i \in OpenFds /\ Turn(i) /\ Handled(i)
  /\ toServer[fd_owner[i]] = <<>> /\ link[fd_owner[i]] \in {"fin", "dead"}
  /\ UNCHANGED <<status, pc, registry, fd_owner, stale, job, network, client>>

ReadFails(i) ==
  /\ i \in Fds /\ Turn(i)
  /\ i \in OpenFds => toServer[fd_owner[i]] = <<>> /\ link[fd_owner[i]] = "rst"
  /\ Crash("died")

IgnoreGotIt(i, p) ==
  /\ Reads(i, p, GotIt) /\ Handled(i) /\ toServer' = Consumed(p)
  /\ UNCHANGED <<status, pc, registry, fd_owner, stale, job, backlog, link,
                 toClient, client>>

EntriesWithId(id) == {k \in DOMAIN tcp_clients : tcp_clients[k].id = id}
EntriesAt(i) == {k \in DOMAIN tcp_clients : tcp_clients[k].current_socket = i}

NewEntry(i, p) == [id |-> IdOf[p], is_active |-> 1, current_socket |-> i,
                   unreceived |-> <<>>]
Register(i, p) ==
  /\ Reads(i, p, IdReply(p)) /\ Handled(i) /\ toServer' = Consumed(p)
  /\ EntriesWithId(IdOf[p]) = {} /\ Len(tcp_clients) < MaxClients
  /\ tcp_clients' = Append(tcp_clients, NewEntry(i, p))
  /\ UNCHANGED <<status, pc, all_topics, fd_owner, stale, job, backlog, link,
                 toClient, client>>

ClientTableOverrun(i, p) ==
  Reads(i, p, IdReply(p)) /\ EntriesWithId(IdOf[p]) = {}
  /\ Len(tcp_clients) = MaxClients /\ Crash("undefined")

(* The connection that is closed is the last one accepted. *)
RefuseDuplicate(i, p) ==
  LET q == Owner(new_tcp_sockfd) IN
  /\ Reads(i, p, IdReply(p))
  /\ \E k \in DOMAIN tcp_clients : /\ IsFirst(k, EntriesWithId(IdOf[p]))
                                   /\ tcp_clients[k].is_active = 1
  /\ \/ /\ CanSend(new_tcp_sockfd)
        /\ Handled(i) /\ toServer' = [Consumed(p) EXCEPT ![q] = <<>>]
        /\ toClient' = IF link[q] = "open"
                       THEN [toClient EXCEPT ![q] = Append(@, CloseClient)]
                       ELSE toClient
        /\ link' = [link EXCEPT ![q] = AfterClose(q, Consumed(p))]
        /\ fd_owner' = [fd_owner EXCEPT ![new_tcp_sockfd] = NoProc]
        /\ UNCHANGED <<status, pc, registry, stale, job, backlog, client>>
     \/ ~CanSend(new_tcp_sockfd) /\ Crash("died")

Reconnect(i, p) ==
  /\ Reads(i, p, IdReply(p)) /\ Handled(i) /\ toServer' = Consumed(p)
  /\ \E k \in DOMAIN tcp_clients :
       /\ IsFirst(k, EntriesWithId(IdOf[p])) /\ tcp_clients[k].is_active = 0
       /\ tcp_clients' = [tcp_clients EXCEPT ![k].is_active = 1,
                                             ![k].current_socket = i]
       /\ flushing' = k
       /\ pc' = IF tcp_clients[k].unreceived = <<>> THEN "loop" ELSE "flush"
  /\ UNCHANGED <<status, all_topics, fd_owner, stale, published, todo, backlog,
                 link, toClient, client>>

(* Stored messages are replayed one by one: each waits for a GOT_IT, and   *)
(* any other message received meanwhile is dropped.                        *)
Replay ==
  /\ status = "running" /\ pc = "flush"
  /\ LET s == tcp_clients[flushing].current_socket
         n == Head(tcp_clients[flushing].unreceived)
     IN \/ /\ CanSend(s) /\ Transmit(fd_owner[s], Data(n))
           /\ handed' = [handed EXCEPT ![fd_owner[s]] = Append(@, n)]
           /\ pc' = "gotit"
           /\ UNCHANGED <<status, ready, registry, fd_owner, stale, job,
                     backlog, toServer, cstate, typed, asked, printed>>
        \/ ~CanSend(s) /\ Crash("died")

Unanswered(k) == Tail(tcp_clients[k].unreceived)
AwaitGotIt ==
  LET p == fd_owner[tcp_clients[flushing].current_socket]
      rest == Unanswered(flushing)
  IN /\ status = "running" /\ pc = "gotit"
     /\ Receive(p)
     /\ IF toServer[p] # <<>> /\ Head(toServer[p]) = GotIt
        THEN /\ tcp_clients' = [tcp_clients EXCEPT ![flushing].unreceived = rest]
             /\ pc' = IF rest = <<>> THEN "loop" ELSE "flush"
        ELSE UNCHANGED <<tcp_clients, pc>>
     /\ UNCHANGED <<status, ready, all_topics, fd_owner, stale, job, backlog,
                    toClient, client>>

(* The first entry with this socket is marked, whoever it belongs to. *)
Deactivated(k) == [tcp_clients EXCEPT ![k].is_active = 0]
Disconnect(i, p) ==
  /\ Reads(i, p, Bye) /\ Handled(i)
  /\ \/ \E k \in DOMAIN tcp_clients :
          /\ IsFirst(k, EntriesAt(i))
          /\ tcp_clients' = Deactivated(k)
          /\ fd_owner' = [fd_owner EXCEPT ![i] = NoProc]
          /\ toServer' = [toServer EXCEPT ![p] = <<>>]
          /\ link' = [link EXCEPT ![p] = AfterClose(p, Consumed(p))]
     \/ /\ EntriesAt(i) = {} /\ toServer' = Consumed(p)
        /\ UNCHANGED <<tcp_clients, fd_owner, link>>
  /\ UNCHANGED <<status, pc, all_topics, stale, job, backlog, toClient, client>>

(* strstr(name, t): the first topic whose name contains t. *)
Matching(t) == {k \in DOMAIN all_topics : <<t, all_topics[k].topic>> \in Substring}
Fill(g) == [x \in 1 .. g |-> [subscriber |-> 0, SF |-> 0]]

(* The subscriber is the first entry with this socket; without one, the    *)
(* pointer keeps what the last subscribe left in it.  A new topic starts   *)
(* from whatever n_subscribers its slot held.                              *)
Subscribe(i, p, m) ==
  LET own == [subscriber |-> current_tcp_client', SF |-> m.SF]
      new == Len(all_topics) + 1
  IN /\ m.kind = "subscribe" /\ Reads(i, p, m)
     /\ Handled(i) /\ toServer' = Consumed(p)
     /\ \/ \E c \in EntriesAt(i) : IsFirst(c, EntriesAt(i)) /\ current_tcp_client' = c
        \/ EntriesAt(i) = {} /\ UNCHANGED current_tcp_client
     /\ \/ \E k \in DOMAIN all_topics :
             /\ IsFirst(k, Matching(m.topic))
             /\ Len(all_topics[k].subscribers) < MaxSubscribers
             /\ all_topics' = [all_topics EXCEPT ![k].subscribers = Append(@, own)]
        \/ /\ Matching(m.topic) = {} /\ Len(all_topics) < MaxTopics
           /\ StackFill[new] < MaxSubscribers
           /\ all_topics' = Append(all_topics,
                [topic |-> m.topic, subscribers |-> Append(Fill(StackFill[new]), own)])
     /\ leftover_id' = NoId
     /\ UNCHANGED <<status, pc, tcp_clients, fd_owner, new_tcp_sockfd, job,
                    backlog, link, toClient, client>>

SubscribeOverrun(i, p, m) ==
  /\ m.kind = "subscribe" /\ Reads(i, p, m)
  /\ \/ \E k \in DOMAIN all_topics : /\ IsFirst(k, Matching(m.topic))
                                     /\ Len(all_topics[k].subscribers) = MaxSubscribers
     \/ /\ Matching(m.topic) = {}
        /\ \/ Len(all_topics) = MaxTopics
           \/ StackFill[Len(all_topics) + 1] >= MaxSubscribers
  /\ Crash("undefined")

(* Without an entry for this socket, the ID searched for is what the stack *)
(* slot of the copy last held: the previous unsubscriber's, unless a topic *)
(* name or a formatted message has overwritten it since.                   *)
LooksFor(i, id) ==
  \/ \E k \in DOMAIN tcp_clients : IsFirst(k, EntriesAt(i)) /\ id = tcp_clients[k].id
  \/ EntriesAt(i) = {} /\ id = leftover_id
RemovedFrom(s, id) ==
  RemovedOf({q \in DOMAIN s : s[q].subscriber \in EntriesWithId(id)})
FollowsGarbage(s, id) ==
  \E q \in DOMAIN s : s[q].subscriber = 0 /\ q - 1 \notin RemovedFrom(s, id)

Unsubscribe(i, p, m) ==
  /\ m.kind = "unsubscribe" /\ Reads(i, p, m)
  /\ Handled(i) /\ toServer' = Consumed(p)
  /\ \E id \in Ids \cup {NoId} :
       /\ LooksFor(i, id) /\ leftover_id' = id
       /\ \/ \E k \in DOMAIN all_topics :
               LET s == all_topics[k].subscribers IN
               /\ IsFirst(k, Matching(m.topic)) /\ ~FollowsGarbage(s, id)
               /\ all_topics' = [all_topics EXCEPT ![k].subscribers =
                                   Keep(s, DOMAIN s \ RemovedFrom(s, id))]
          \/ Matching(m.topic) = {} /\ UNCHANGED all_topics
  /\ UNCHANGED <<status, pc, tcp_clients, fd_owner, new_tcp_sockfd,
                 current_tcp_client, job, backlog, link, toClient, client>>

UnsubscribeUndefined(i, p, m) ==
  /\ m.kind = "unsubscribe" /\ Reads(i, p, m)
  /\ \E k \in DOMAIN all_topics, id \in Ids \cup {NoId} :
       /\ LooksFor(i, id) /\ IsFirst(k, Matching(m.topic))
       /\ FollowsGarbage(all_topics[k].subscribers, id)
  /\ Crash("undefined")

-----------------------------------------------------------------------------
(* A client process.  It reads several queued messages at a time and acts  *)
(* on the first only.                                                      *)

(* send() by the client; after a RST it is killed. *)
Sends(p, m) ==
  \/ /\ link[p] = "open" /\ toServer' = [toServer EXCEPT ![p] = Append(@, m)]
     /\ UNCHANGED <<link, cstate>>
  \/ /\ link[p] = "shut" /\ link' = [link EXCEPT ![p] = "shutrst"]
     /\ UNCHANGED <<toServer, cstate>>
  \/ /\ link[p] = "shutrst" /\ link' = [link EXCEPT ![p] = "none"]
     /\ cstate' = [cstate EXCEPT ![p] = "failed"] /\ UNCHANGED toServer

Connect(p) ==
  /\ cstate[p] = "start" /\ \A q \in After[p] : cstate[q] \in {"done", "failed"}
  /\ \/ /\ status = "running"
        /\ cstate' = [cstate EXCEPT ![p] = "running"]
        /\ link' = [link EXCEPT ![p] = "open"]
        /\ backlog' = Append(backlog, p)
     \/ /\ status # "running"
        /\ cstate' = [cstate EXCEPT ![p] = "failed"] /\ UNCHANGED <<link, backlog>>
  /\ UNCHANGED <<server, toServer, toClient, typed, asked, handed, printed>>

Announced(p) == \E k \in DOMAIN tcp_clients : /\ tcp_clients[k].is_active = 1
                  /\ Owner(tcp_clients[k].current_socket) = p
AtKeyboard(p) == cstate[p] = "running" /\ (EagerUsers \/ Announced(p))

TypeCommand(p, m) ==
  /\ AtKeyboard(p) /\ typed[p] < MaxCommands[p]
  /\ typed' = [typed EXCEPT ![p] = @ + 1]
  /\ asked' = IF m.kind = "subscribe"
              THEN [asked EXCEPT ![p] = @ \cup {m.topic}] ELSE asked
  /\ Sends(p, m)
  /\ UNCHANGED <<server, backlog, toClient, printed, handed>>

(* Closing with unread input resets the connection. *)
Exit(p) ==
  /\ AtKeyboard(p) /\ p \in MayExit
  /\ \/ /\ link[p] = "open" /\ toServer' = [toServer EXCEPT ![p] = Append(@, Bye)]
        /\ link' = [link EXCEPT ![p] = IF toClient[p] = <<>> THEN "fin" ELSE "rst"]
        /\ cstate' = [cstate EXCEPT ![p] = "done"]
     \/ /\ link[p] \in {"shut", "shutrst"} /\ UNCHANGED toServer
        /\ link' = [link EXCEPT ![p] = "none"]
        /\ cstate' = [cstate EXCEPT ![p] = IF link[p] = "shut" THEN "done"
                                                               ELSE "failed"]
  /\ toClient' = [toClient EXCEPT ![p] = <<>>]
  /\ UNCHANGED <<server, backlog, typed, asked, printed, handed>>

Gets(p, m) ==
  /\ cstate[p] = "running" /\ toClient[p] # <<>> /\ m = Head(toClient[p])
  /\ \E k \in 1 .. Len(toClient[p]) :
       toClient' = [toClient EXCEPT ![p] = SubSeq(@, k + 1, Len(@))]

AnswerId(p) ==
  /\ Gets(p, Ask) /\ Sends(p, IdReply(p))
  /\ UNCHANGED <<server, backlog, typed, asked, printed, handed>>

PrintMessage(p, n) ==
  /\ Gets(p, Data(n)) /\ printed' = [printed EXCEPT ![p] = Append(@, n)]
  /\ Sends(p, GotIt)
  /\ UNCHANGED <<server, backlog, typed, asked, handed>>

(* The server has closed its end before this message can be read. *)
CloseOnRequest(p) ==
  /\ Gets(p, CloseClient)
  /\ cstate' = [cstate EXCEPT ![p] = "done"] /\ link' = [link EXCEPT ![p] = "none"]
  /\ UNCHANGED <<server, backlog, toServer, typed, asked, printed, handed>>

(* The connection ended without "close client": recv() fails, or an empty   *)
(* message is acknowledged until the RST that answers makes a send fatal.   *)
ConnectionLost(p) ==
  /\ cstate[p] = "running" /\ toClient[p] = <<>> /\ link[p] \in {"shut", "shutrst"}
  /\ cstate' = [cstate EXCEPT ![p] = "failed"] /\ link' = [link EXCEPT ![p] = "none"]
  /\ UNCHANGED <<server, backlog, toServer, toClient, typed, asked, printed, handed>>

-----------------------------------------------------------------------------
HandleInput(i) ==
  \/ ReadNothing(i) \/ ReadFails(i)
  \/ \E p \in Procs :
       \/ IgnoreGotIt(i, p) \/ Register(i, p) \/ ClientTableOverrun(i, p)
       \/ RefuseDuplicate(i, p) \/ Reconnect(i, p) \/ Disconnect(i, p)
       \/ \E m \in Commands : Subscribe(i, p, m) \/ SubscribeOverrun(i, p, m)
                              \/ Unsubscribe(i, p, m) \/ UnsubscribeUndefined(i, p, m)

Server ==
  \/ Select \/ Accept \/ AcceptFails \/ StopServer
  \/ \E t \in Topics : ReceiveDatagram(t) \/ TopicTableOverrun(t)
  \/ SendToActive \/ SendFails \/ AwaitAck \/ StoreOrSkip \/ FanOutUndefined
  \/ Replay \/ AwaitGotIt
  \/ \E i \in Fds : HandleInput(i)

ClientReads(p) == AnswerId(p) \/ CloseOnRequest(p) \/ ConnectionLost(p)
                  \/ \E n \in Message : PrintMessage(p, n)

User(p) == Connect(p) \/ Exit(p) \/ \E m \in Commands : TypeCommand(p, m)

(* Nothing to do: select() blocks, or the server is gone.  Without this     *)
(* step a deadlock of the model is a server blocked in recv() for a message *)
(* nobody is going to send.                                                 *)
Idle == (status # "running" \/ (AtSelect /\ Pending = {})) /\ UNCHANGED vars

Next == Server \/ (\E p \in Procs : ClientReads(p) \/ User(p)) \/ Idle

(* The server runs whenever it can, and a client reads what it is sent; no *)
(* user has to type anything.                                              *)
Fairness == WF_vars(Server) /\ \A p \in Procs : WF_vars(ClientReads(p))

Spec == Init /\ [][Next]_vars
FairSpec == Spec /\ Fairness

=============================================================================
