--------------------------- MODULE BrokerProperties ---------------------------
(* What the publish/subscribe application should guarantee.  The first      *)
(* group holds whatever clients and users do; the second in the situations  *)
(* the runs describe.                                                       *)
EXTENDS Broker

InSeq(n, s) == \E x \in DOMAIN s : s[x] = n

(* A client that comes back is found again: no two entries of tcp_clients   *)
(* have one ID, however connections, refusals and reconnections interleave. *)
RegistryIdsUnique ==
  \A j, k \in DOMAIN tcp_clients :
    tcp_clients[j].id = tcp_clients[k].id => j = k

(* No two topics have one name, although a datagram compares whole names    *)
(* and a subscribe looks for substrings: a datagram fans out once.          *)
TopicNamesUnique ==
  \A j, k \in DOMAIN all_topics :
    all_topics[j].topic = all_topics[k].topic => j = k

(* A subscription points at a registered client or is the stack garbage     *)
(* that an unregistered sender or an unset n_subscribers leaves there;      *)
(* never at an entry of tcp_clients that has not been filled in.            *)
SubscribersResolve ==
  \A k \in DOMAIN all_topics : \A q \in DOMAIN all_topics[k].subscribers :
    all_topics[k].subscribers[q].subscriber \in 0 .. Len(tcp_clients)

(* A connected client has stored messages only while they are replayed to   *)
(* it: nothing is stored behind its back, nothing is left when it is done.  *)
Replaying == pc \in {"flush", "gotit"}
StoredOnlyOffline ==
  \A k \in DOMAIN tcp_clients :
    tcp_clients[k].unreceived # <<>> /\ tcp_clients[k].is_active = 1
      => Replaying /\ flushing = k

(* A handler that waits inside its loop has something to wait for: a fan-out *)
(* has a subscriber left and a datagram to send, a replay has a stored      *)
(* message of a registered client.                                          *)
HandlerHasWork ==
  /\ pc \in {"fanout", "ack"} => todo # <<>> /\ published # <<>>
  /\ Replaying => /\ flushing \in DOMAIN tcp_clients
                  /\ tcp_clients[flushing].unreceived # <<>>

(* Subscriptions and the pointer kept across calls refer to clients by      *)
(* position: an entry keeps its position and its ID for ever.               *)
EntriesStay ==
  [][\A k \in DOMAIN tcp_clients :
       k \in DOMAIN tcp_clients' /\ tcp_clients'[k].id = tcp_clients[k].id]_vars

-----------------------------------------------------------------------------
(* The socket of a connected client's entry is open and leads to a process  *)
(* with that ID: what is sent over it reaches the right client.             *)
ActiveSocketIsOwn ==
  status = "running" =>
    \A k \in DOMAIN tcp_clients : tcp_clients[k].is_active = 1 =>
      LET p == Owner(tcp_clients[k].current_socket)
      IN p # NoProc /\ IdOf[p] = tcp_clients[k].id

(* Two things can spoil that.  A descriptor that was freed goes to another  *)
(* client while the entry that had it before still names it (server.c:324), *)
(* so that the first entry with the socket is not the connected one; and    *)
(* the connection closed for a duplicate ID is the last one accepted, which *)
(* need not be the one with the duplicate (server.c:268).  Orderly says that *)
(* neither happens; it holds when nobody leaves or one client comes back.   *)
(* A client that comes back is still refused when the "disconnected." of    *)
(* its last process was taken for an ACK; it is then its own new connection *)
(* that is closed (RefusesLast).                                            *)
SocketsApart ==
  \A j, k \in DOMAIN tcp_clients :
    tcp_clients[j].is_active = 1
    /\ tcp_clients[j].current_socket = tcp_clients[k].current_socket => j = k
RefusesLast ==
  \A i \in Fds, p \in Procs :
    /\ Reads(i, p, IdReply(p))
    /\ \E k \in EntriesWithId(IdOf[p]) : tcp_clients[k].is_active = 1
    => new_tcp_sockfd = i
Orderly == SocketsApart /\ RefusesLast

(* Every subscription was filled in by a subscribe whose sender had been     *)
(* registered: none is stack garbage, so that no fan-out follows any.       *)
NoGarbage ==
  \A k \in DOMAIN all_topics : \A q \in DOMAIN all_topics[k].subscribers :
    all_topics[k].subscribers[q].subscriber # 0

(* Waiting for an ACK after every send keeps messages apart: what the       *)
(* server has sent to a process is what it has printed and what is on its   *)
(* way, although the client drops all but the first message of a recv().    *)
DataIn(s) == LET d == Subsequence(s, {x \in DOMAIN s : s[x].kind = "data"})
             IN [x \in DOMAIN d |-> d[x].n]
NoLoss ==
  \A p \in Procs : cstate[p] = "running" /\ link[p] = "open" =>
    handed[p] = printed[p] \o DataIn(toClient[p])

(* While an answer is awaited from a process, no command of its user is on  *)
(* the way: it would be taken for the answer (server.c:232), the next       *)
(* message would be sent before the last was printed, and the client, which *)
(* drops what comes after the first message of a recv(), would drop it.     *)
Awaited(p) ==
  \E k \in DOMAIN tcp_clients :
    /\ tcp_clients[k].is_active = 1 /\ Owner(tcp_clients[k].current_socket) = p
    /\ (pc = "ack" /\ k = Addressee) \/ (pc = "gotit" /\ k = flushing)
NoCrossing ==
  \A p \in Procs : Awaited(p) => \A x \in DOMAIN toServer[p] :
    toServer[p][x].kind \notin {"subscribe", "unsubscribe"}

(* A command that crosses is the only way to lose a message: if none ever    *)
(* crosses, nothing is lost, however many commands are typed between.       *)
LostOnlyByCrossing == []NoCrossing => []NoLoss

(* A client prints messages only of topics its user asked for.              *)
NoUnsolicited ==
  \A p \in Procs : \A x \in DOMAIN printed[p] :
    \E t \in asked[p] : <<t, published[printed[p][x]]>> \in Substring

(* With several processes of one ID, one of them asked. *)
PrintsWanted == \A p \in Procs : \A x \in DOMAIN printed[p] :
  \E q \in Procs : IdOf[q] = IdOf[p]
    /\ \E t \in asked[q] : <<t, published[printed[p][x]]>> \in Substring

(* When a topic loses subscriptions they are those of the client whose      *)
(* socket was just handled: the subscriptions of all others stay, in their  *)
(* order, whatever the shifting loop skips.                                 *)
RemovedOnlyOf(c, s, t) == \E kept \in SUBSET DOMAIN s :
  /\ t = Subsequence(s, kept)
  /\ \A q \in DOMAIN s \ kept : s[q].subscriber = c
OthersKeepTheirs ==
  [][\A k \in DOMAIN all_topics :
       LET s == all_topics[k].subscribers
           t == all_topics'[k].subscribers
       IN Len(t) < Len(s) =>
            \E i \in ready \ ready' : \E c \in EntriesAt(i) : RemovedOnlyOf(c, s, t)]_vars

(* Store-and-forward loses nothing: once the client with ID id has got a    *)
(* message of a topic it is subscribed to with SF = 1, every later message  *)
(* of that topic has been sent to one of its processes, or is stored, or is *)
(* the one being fanned out.  (For runs where nobody unsubscribes.)         *)
StoresFor(id, t) == \A k \in DOMAIN all_topics : all_topics[k].topic = t =>
  \A q \in DOMAIN all_topics[k].subscribers :
    LET s == all_topics[k].subscribers[q]
    IN  s.subscriber \in EntriesWithId(id) => s.SF = 1
Got(id, n) == \E p \in Procs : IdOf[p] = id /\ InSeq(n, handed[p])
StoredFor(id, n) == \E k \in EntriesWithId(id) : InSeq(n, tcp_clients[k].unreceived)
NoGap ==
  status = "running" => \A id \in Ids : \A n, m \in DOMAIN published :
    /\ n < m /\ published[n] = published[m] /\ StoresFor(id, published[n])
    /\ Got(id, n) \/ StoredFor(id, n)
    => Got(id, m) \/ StoredFor(id, m) \/ (m = Len(published) /\ todo # <<>>)

(* Across disconnections and replays, the processes of one client print     *)
(* each message once and in the order the server received them.             *)
InOrderOnce ==
  [][\A p, q \in Procs : IdOf[p] = IdOf[q] /\ Len(printed'[p]) > Len(printed[p])
       => \A x \in DOMAIN printed[q] :
            printed[q][x] < printed'[p][Len(printed'[p])]]_vars

(* A client that has connected is registered sooner or later, unless it or  *)
(* the server ends first.                                                   *)
Registered(p) == EntriesWithId(IdOf[p]) # {}
ConnectServed == \A p \in Procs :
  cstate[p] = "running"
    ~> Registered(p) \/ cstate[p] # "running" \/ status # "running"

(* A message the server has sent to a process is printed there.             *)
Delivered == \A p \in Procs, n \in Message :
               InSeq(n, handed[p]) ~> InSeq(n, printed[p])

(* The server is never stuck in one handler: it comes back to select(), or  *)
(* it has ended.                                                            *)
ServerReturns == []<>(AtSelect \/ status # "running")

(* A client whose ID nobody else uses stays connected while the server runs *)
(* (README.txt:67: only the connection with the taken ID is interrupted).   *)
OthersStayConnected ==
  status = "running" => \A p \in Procs :
    cstate[p] = "running" /\ (\A q \in Procs : IdOf[q] = IdOf[p] => q = p)
      => link[p] = "open"

=============================================================================
