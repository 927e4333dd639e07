---------------------------- MODULE BrokerProofs ----------------------------
(* Proofs about Broker: for any number of processes, IDs, topics, commands  *)
(* and datagrams, and any table sizes.                                      *)
EXTENDS BrokerProperties, SubsequenceProofs

-----------------------------------------------------------------------------
(* Keep returns elements of the sequence it is given. *)
LEMMA KeepType ==
  ASSUME NEW T, NEW s \in Seq(T), NEW R
  PROVE  Keep(s, DOMAIN s \ R) \in Seq(T)
  BY SubsequenceType DEF Keep

-----------------------------------------------------------------------------
(* Types.  TypeOK alone is not inductive: the message a handler sends or    *)
(* the rest of its list has a type only because HandlerHasWork says there   *)
(* is one.                                                                  *)

Typed == TypeOK /\ HandlerHasWork

(* The server starts with empty tables and nothing to do. *)
LEMMA InitTyped == Init => Typed
  BY ConstantsOK DEF Init, Typed, TypeOK, HandlerHasWork, Replaying, Ids

(* A step that changes nothing preserves types. *)
LEMMA IdleTyped == ASSUME Typed, UNCHANGED vars PROVE Typed'
  BY DEF Typed, TypeOK, HandlerHasWork, Replaying, vars, server, network, client, registry, stale, job

(* What the tables hold, position by position. *)
LEMMA TableEntries ==
  ASSUME TypeOK
  PROVE  /\ DOMAIN tcp_clients = 1 .. Len(tcp_clients) /\ Len(tcp_clients) \in Nat
         /\ \A k \in DOMAIN tcp_clients :
              /\ tcp_clients[k] \in ClientEntry
              /\ tcp_clients[k].unreceived \in Seq(Message)
         /\ DOMAIN all_topics = 1 .. Len(all_topics) /\ Len(all_topics) \in Nat
         /\ \A k \in DOMAIN all_topics :
              /\ all_topics[k] \in TopicEntry
              /\ all_topics[k].topic \in Topics
              /\ all_topics[k].subscribers \in Seq(Subscription)
<1>1. tcp_clients \in Seq(ClientEntry) /\ all_topics \in Seq(TopicEntry)
  BY DEF TypeOK
<1>2. /\ DOMAIN tcp_clients = 1 .. Len(tcp_clients) /\ Len(tcp_clients) \in Nat
      /\ DOMAIN all_topics = 1 .. Len(all_topics) /\ Len(all_topics) \in Nat
  BY <1>1, LenProperties
<1>3. \A k \in DOMAIN tcp_clients : tcp_clients[k] \in ClientEntry
  BY <1>1, <1>2, ElementOfSeq
<1>4. \A k \in DOMAIN all_topics : all_topics[k] \in TopicEntry
  BY <1>1, <1>2, ElementOfSeq
<1>5. \A e \in ClientEntry : e.unreceived \in Seq(Message)
  BY DEF ClientEntry
<1>6. \A e \in TopicEntry : e.topic \in Topics /\ e.subscribers \in Seq(Subscription)
  BY DEF TopicEntry
<1>7. QED
  BY <1>2, <1>3, <1>4, <1>5, <1>6

(* The states of a connection. *)
Links == {"none", "open", "fin", "rst", "dead", "shut", "shutrst"}

(* The end of the server process closes its connections and no more. *)
LEMMA HaltTyped ==
  ASSUME Typed, NEW s \in {"exited", "died", "undefined"}, Halt(s),
         toClient' \in [Procs -> Seq(ClientMessages)]
  PROVE  Typed'
<1>1. \A p \in Procs : AfterClose(p, toServer) \in Links
  BY DEF AfterClose, Links, Typed, TypeOK
<1>2. link' \in [Procs -> Links]
  BY <1>1 DEF Halt
<1>3. toServer' \in [Procs -> Seq(ServerMessages)]
  BY EmptySeq DEF Halt
<1>4. QED
  BY <1>2, <1>3 DEF Typed, TypeOK, HandlerHasWork, Replaying, Halt, Links,
     client, registry, stale, job

(* The same, when it dies without having sent anything. *)
LEMMA CrashTyped ==
  ASSUME Typed, NEW s \in {"died", "undefined"}, Crash(s) PROVE Typed'
  BY HaltTyped DEF Crash, Typed, TypeOK

(* exit at the server: "close client" is queued for some clients. *)
LEMMA StopTyped == ASSUME Typed, StopServer PROVE Typed'
<1>1. CloseClient \in ClientMessages
  BY DEF ClientMessages
<1>2. \A p \in Procs : /\ toClient[p] \in Seq(ClientMessages)
                       /\ Append(toClient[p], CloseClient) \in Seq(ClientMessages)
  BY <1>1, AppendProperties DEF Typed, TypeOK
<1>3. toClient' \in [Procs -> Seq(ClientMessages)]
  BY <1>2 DEF StopServer
<1>4. \E s \in {"exited", "died"} : Halt(s)
  BY DEF StopServer
<1>5. QED
  BY <1>3, <1>4, HaltTyped

(* select(): only descriptors the server watches become ready. *)
LEMMA SelectTyped == ASSUME Typed, Select PROVE Typed'
  BY DEF Typed, TypeOK, HandlerHasWork, Replaying, Select, Pending, Waiting, OpenFds, client, registry, stale, job, network

(* A send() by the server to a process. *)
LEMMA TransmitTyped ==
  ASSUME Typed, NEW p \in Procs, NEW m \in ClientMessages, Transmit(p, m)
  PROVE  toClient' \in [Procs -> Seq(ClientMessages)] /\ link' \in [Procs -> Links]
<1>1. Append(toClient[p], m) \in Seq(ClientMessages)
  BY AppendProperties DEF Typed, TypeOK
<1>2. toClient' \in [Procs -> Seq(ClientMessages)]
  BY <1>1 DEF Typed, TypeOK, Transmit
<1>3. link' \in [Procs -> Links]
  BY DEF Typed, TypeOK, Transmit, Links
<1>4. QED
  BY <1>2, <1>3

(* accept(), and the question for the ID. *)
LEMMA AcceptTyped == ASSUME Typed, Accept PROVE Typed'
<1>1. PICK f \in Fds, p \in Procs :
        /\ backlog # <<>> /\ backlog' = Tail(backlog)
        /\ fd_owner' = [fd_owner EXCEPT ![f] = p]
        /\ new_tcp_sockfd' = f /\ Transmit(p, Ask)
  BY DEF Accept
<1>2. toClient' \in [Procs -> Seq(ClientMessages)] /\ link' \in [Procs -> Links]
  <2>1. Ask \in ClientMessages
    BY DEF ClientMessages
  <2>2. QED
    BY <1>1, <2>1, TransmitTyped
<1>3. backlog' \in Seq(Procs) /\ fd_owner' \in [Fds -> Procs \cup {NoProc}]
  BY <1>1, HeadTailProperties DEF Typed, TypeOK
<1>4. ready' \subseteq ready
  BY DEF Accept, Handled
<1>5. QED
  BY <1>1, <1>2, <1>3, <1>4 DEF Typed, TypeOK, HandlerHasWork, Replaying, Accept,
     Links, client, registry, job

(* A datagram, and its topic if that is new. *)
LEMMA DatagramTyped ==
  ASSUME Typed, NEW t \in Topics, ReceiveDatagram(t) PROVE Typed'
<1>1. published' \in Seq(Topics) /\ Len(published') <= MaxPublish /\ published' # <<>>
  <2>1. published \in Seq(Topics) /\ Len(published) \in Nat
    BY LenProperties DEF Typed, TypeOK
  <2>2. published' = Append(published, t) /\ Len(published) < MaxPublish
    BY DEF ReceiveDatagram
  <2>3. published' \in Seq(Topics) /\ Len(published') = Len(published) + 1
    BY <2>1, <2>2, AppendProperties
  <2>4. published' # <<>>
    BY <2>1, <2>3, EmptySeq
  <2>5. QED
    BY <2>1, <2>2, <2>3, <2>4, ConstantsOK
<1>2. all_topics' \in Seq(TopicEntry) /\ Len(all_topics') <= MaxTopics
  <2>1. [topic |-> t, subscribers |-> <<>>] \in TopicEntry
    BY EmptySeq DEF TopicEntry
  <2> DEFINE e == [topic |-> t, subscribers |-> <<>>]
  <2>2. CASE UNCHANGED all_topics
    BY <2>2 DEF Typed, TypeOK
  <2>3. CASE Len(all_topics) < MaxTopics /\ all_topics' = Append(all_topics, e)
    <3> HIDE DEF e
    <3>1. Len(all_topics') = Len(all_topics) + 1 /\ all_topics' \in Seq(TopicEntry)
      BY <2>1, <2>3, AppendProperties DEF Typed, TypeOK, e
    <3>2. QED
      BY <2>3, <3>1, ConstantsOK, TableEntries DEF Typed
  <2>4. QED
    BY <2>2, <2>3 DEF ReceiveDatagram
<1>3. \E rest \in Seq(Subscription) : Resume(rest)
  BY TableEntries, EmptySeq DEF Typed, ReceiveDatagram, TopicsNamed
<1>4. todo' \in Seq(Subscription) /\ pc' \in {"loop", "fanout"}
      /\ (pc' = "fanout" => todo' # <<>>)
  BY <1>3 DEF Resume
<1>5. QED
  BY <1>1, <1>2, <1>4 DEF Typed, TypeOK, HandlerHasWork, Replaying,
     ReceiveDatagram, Turn, Handled, client, network

(* A recv() inside a handler. *)
LEMMA ReceiveTyped ==
  ASSUME Typed, NEW p, Receive(p)
  PROVE  toServer' \in [Procs -> Seq(ServerMessages)] /\ link' \in [Procs -> Links]
<1>1. \A q \in Procs : toServer[q] # <<>> => Tail(toServer[q]) \in Seq(ServerMessages)
  BY HeadTailProperties DEF Typed, TypeOK
<1>2. QED
  BY <1>1 DEF Typed, TypeOK, Receive, Links

(* The next element of a list and what remains of it. *)
LEMMA RestTyped ==
  ASSUME Typed, todo # <<>>
  PROVE  /\ Head(todo) \in Subscription /\ Addressee \in 0 .. MaxClients
         /\ Tail(todo) \in Seq(Subscription)
<1>1. Head(todo) \in Subscription /\ Tail(todo) \in Seq(Subscription)
  BY HeadTailProperties DEF Typed, TypeOK
<1>2. QED
  BY <1>1 DEF Addressee, Subscription

(* A message to a connected subscriber: there is a datagram to send. *)
LEMMA SendTyped == ASSUME Typed, SendToActive PROVE Typed'
<1> DEFINE s == tcp_clients[Addressee].current_socket
           n == Len(published)
<1>1. pc = "fanout" /\ todo # <<>> /\ published # <<>>
  BY DEF SendToActive, ToActive, FanningOut, Typed, HandlerHasWork
<1>2. fd_owner[s] \in Procs /\ n \in Message
  <2>1. Owner(s) # NoProc
    BY DEF SendToActive, CanSend
  <2>2. fd_owner[s] \in Procs
    BY <2>1 DEF Owner, Typed, TypeOK
  <2>3. n \in Message
    BY <1>1, EmptySeq, LenProperties, ConstantsOK DEF Typed, TypeOK, Message
  <2>4. QED
    BY <2>2, <2>3
<1>3. toClient' \in [Procs -> Seq(ClientMessages)] /\ link' \in [Procs -> Links]
  <2>1. Transmit(fd_owner[s], Data(n))
    BY DEF SendToActive
  <2>2. Data(n) \in ClientMessages
    BY <1>2 DEF ClientMessages
  <2> HIDE DEF s, n
  <2>3. QED
    BY <1>2, <2>1, <2>2, TransmitTyped
<1>4. handed' \in [Procs -> Seq(Message)]
  <2>1. handed' = [handed EXCEPT ![fd_owner[s]] = Append(@, n)]
    BY DEF SendToActive
  <2> HIDE DEF s, n
  <2>2. Append(handed[fd_owner[s]], n) \in Seq(Message)
    BY <1>2, AppendProperties DEF Typed, TypeOK
  <2>3. QED
    BY <1>2, <2>1, <2>2 DEF Typed, TypeOK
<1>5. QED
  BY <1>1, <1>3, <1>4 DEF Typed, TypeOK, HandlerHasWork, Replaying, SendToActive,
     Links, registry, stale, job

(* After one subscriber the fan-out goes on only if another is left. *)
LEMMA ResumeTyped ==
  ASSUME NEW rest \in Seq(Subscription), Resume(rest)
  PROVE  /\ todo' \in Seq(Subscription) /\ pc' \in {"loop", "fanout"}
         /\ pc' = "fanout" => todo' # <<>>
  BY DEF Resume

(* The ACK: the first subscription is done with. *)
LEMMA AckTyped == ASSUME Typed, AwaitAck PROVE Typed'
<1>1. toServer' \in [Procs -> Seq(ServerMessages)] /\ link' \in [Procs -> Links]
  BY ReceiveTyped DEF AwaitAck
<1>2. todo # <<>> /\ published # <<>>
  BY DEF AwaitAck, Typed, HandlerHasWork
<1>3. /\ todo' \in Seq(Subscription) /\ pc' \in {"loop", "fanout"}
      /\ pc' = "fanout" => todo' # <<>>
  BY <1>2, RestTyped, ResumeTyped DEF AwaitAck
<1>4. QED
  BY <1>1, <1>2, <1>3 DEF Typed, TypeOK, HandlerHasWork, Replaying, AwaitAck,
     Links, client, registry, stale

(* Changing one entry of tcp_clients keeps the table's type. *)
LEMMA EntryTyped ==
  ASSUME Typed, NEW k \in DOMAIN tcp_clients, NEW e \in ClientEntry,
         tcp_clients' = [tcp_clients EXCEPT ![k] = e]
  PROVE  /\ tcp_clients' \in Seq(ClientEntry) /\ Len(tcp_clients') = Len(tcp_clients)
         /\ DOMAIN tcp_clients' = DOMAIN tcp_clients
  BY ExceptSeq DEF Typed, TypeOK

(* A message stored for, or skipped by, a subscriber that is away. *)
LEMMA StoreTyped == ASSUME Typed, StoreOrSkip PROVE Typed'
<1> DEFINE a == Addressee
<1>1. pc = "fanout" /\ todo # <<>> /\ published # <<>>
  BY DEF StoreOrSkip, ToInactive, FanningOut, Typed, HandlerHasWork
<1>2. /\ todo' \in Seq(Subscription) /\ pc' \in {"loop", "fanout"}
      /\ pc' = "fanout" => todo' # <<>>
  BY <1>1, RestTyped, ResumeTyped DEF StoreOrSkip
<1>3. tcp_clients' \in Seq(ClientEntry) /\ Len(tcp_clients') = Len(tcp_clients)
  <2>1. CASE UNCHANGED tcp_clients
    BY <2>1 DEF Typed, TypeOK
  <2>2. CASE tcp_clients' = [tcp_clients EXCEPT ![Addressee].unreceived =
                               Append(@, Len(published))]
    <3>1. CASE a \in DOMAIN tcp_clients
      <4> DEFINE u == Append(tcp_clients[a].unreceived, Len(published))
                 e == [tcp_clients[a] EXCEPT !.unreceived = u]
      <4>1. Len(published) \in Message
        BY <1>1, EmptySeq, LenProperties, ConstantsOK DEF Typed, TypeOK, Message
      <4>2. u \in Seq(Message)
        BY <3>1, <4>1, TableEntries, AppendProperties DEF Typed
      <4>3. e \in ClientEntry
        <5> HIDE DEF u
        <5>1. QED
          BY <3>1, <4>2, TableEntries DEF ClientEntry, Typed
      <4>4. tcp_clients' = [tcp_clients EXCEPT ![a] = e]
        BY <2>2
      <4> HIDE DEF e, a
      <4>5. QED
        BY <3>1, <4>3, <4>4, EntryTyped
    <3>2. CASE a \notin DOMAIN tcp_clients
      <4>1. tcp_clients' = tcp_clients
        BY <2>2, <3>2, TableEntries DEF Typed, TypeOK
      <4>2. QED
        BY <4>1 DEF Typed, TypeOK
    <3>3. QED
      BY <3>1, <3>2
  <2>3. QED
    BY <2>1, <2>2 DEF StoreOrSkip
<1>4. QED
  BY <1>1, <1>2, <1>3 DEF Typed, TypeOK, HandlerHasWork, Replaying, StoreOrSkip,
     client, network, stale

(* A recv() that returns 0. *)
LEMMA ReadNothingTyped == ASSUME Typed, NEW i, ReadNothing(i) PROVE Typed'
  BY DEF Typed, TypeOK, HandlerHasWork, Replaying, ReadNothing, Turn, Handled,
     client, network, registry, stale, job

(* What a handler that read a message leaves of the input. *)
LEMMA ConsumedTyped ==
  ASSUME Typed, NEW i, NEW p, NEW m, Reads(i, p, m)
  PROVE  /\ Consumed(p) \in [Procs -> Seq(ServerMessages)]
         /\ pc = "loop" /\ i \in Fds /\ p = fd_owner[i]
         /\ p \in Procs \cup {NoProc}
<1>1. p \in Procs => toServer[p] # <<>> /\ Tail(toServer[p]) \in Seq(ServerMessages)
  BY HeadTailProperties DEF Typed, TypeOK, Reads
<1>2. Consumed(p) \in [Procs -> Seq(ServerMessages)]
  BY <1>1 DEF Typed, TypeOK, Consumed
<1>3. QED
  BY <1>2 DEF Reads, Turn, Typed, TypeOK

(* A GOT_IT that nobody waits for. *)
LEMMA IgnoreTyped ==
  ASSUME Typed, NEW i, NEW p, IgnoreGotIt(i, p) PROVE Typed'
  BY ConsumedTyped DEF Typed, TypeOK, HandlerHasWork, Replaying, IgnoreGotIt,
     Handled, client, registry, stale, job

(* A new entry, within the table. *)
LEMMA RegisterTyped ==
  ASSUME Typed, NEW i, NEW p \in Procs, Register(i, p) PROVE Typed'
<1> DEFINE e == NewEntry(i, p)
<1>1. /\ Consumed(p) \in [Procs -> Seq(ServerMessages)]
      /\ pc = "loop" /\ i \in Fds
  BY ConsumedTyped DEF Register
<1>2. e \in ClientEntry
  <2>1. IdOf[p] \in Ids
    BY DEF Ids
  <2>2. QED
    BY <1>1, <2>1, EmptySeq DEF NewEntry, ClientEntry
<1>3. tcp_clients' = Append(tcp_clients, e) /\ Len(tcp_clients) < MaxClients
  BY DEF Register
<1>4. tcp_clients' \in Seq(ClientEntry) /\ Len(tcp_clients') = Len(tcp_clients) + 1
  <2> HIDE DEF e
  <2>1. QED
    BY <1>2, <1>3, AppendProperties DEF Typed, TypeOK
<1>5. Len(tcp_clients') <= MaxClients /\ Len(tcp_clients) <= Len(tcp_clients')
  BY <1>3, <1>4, ConstantsOK, TableEntries DEF Typed
<1>6. current_tcp_client' \in 0 .. Len(tcp_clients') /\ flushing' \in 0 .. Len(tcp_clients')
  BY <1>4, <1>5, TableEntries DEF Register, stale, job, Typed, TypeOK
<1>7. QED
  BY <1>1, <1>4, <1>5, <1>6 DEF Typed, TypeOK, HandlerHasWork, Replaying,
     Register, Handled, client, stale, job

(* A refused ID, which closes the last connection accepted. *)
LEMMA RefuseTyped ==
  ASSUME Typed, NEW i, NEW p \in Procs, RefuseDuplicate(i, p) PROVE Typed'
<1> DEFINE q == Owner(new_tcp_sockfd)
<1>1. CASE Crash("died")
  BY <1>1, CrashTyped
<1>2. CASE ~Crash("died")
  <2>1. Consumed(p) \in [Procs -> Seq(ServerMessages)] /\ pc = "loop"
    BY ConsumedTyped DEF RefuseDuplicate
  <2>2. /\ CanSend(new_tcp_sockfd) /\ Handled(i)
        /\ toServer' = [Consumed(p) EXCEPT ![q] = <<>>]
        /\ toClient' = IF link[q] = "open"
                       THEN [toClient EXCEPT ![q] = Append(@, CloseClient)]
                       ELSE toClient
        /\ link' = [link EXCEPT ![q] = AfterClose(q, Consumed(p))]
        /\ fd_owner' = [fd_owner EXCEPT ![new_tcp_sockfd] = NoProc]
        /\ UNCHANGED <<status, pc, registry, stale, job, backlog, client>>
    BY <1>2 DEF RefuseDuplicate
  <2>3. q \in Procs
    BY <2>2 DEF CanSend, Owner, Typed, TypeOK
  <2>4. Append(toClient[q], CloseClient) \in Seq(ClientMessages)
    <3>1. CloseClient \in ClientMessages /\ toClient[q] \in Seq(ClientMessages)
      BY <2>3 DEF ClientMessages, Typed, TypeOK
    <3> HIDE DEF q
    <3>2. QED
      BY <3>1, AppendProperties
  <2>5. toClient' \in [Procs -> Seq(ClientMessages)]
    <3> HIDE DEF q
    <3>1. QED
      BY <2>2, <2>4 DEF Typed, TypeOK
  <2>6. toServer' \in [Procs -> Seq(ServerMessages)]
    <3> HIDE DEF q
    <3>1. QED
      BY <2>1, <2>2, EmptySeq
  <2>7. link' \in [Procs -> Links]
    <3>1. AfterClose(q, Consumed(p)) \in Links
      BY <2>3 DEF AfterClose, Links, Typed, TypeOK
    <3> HIDE DEF q
    <3>2. QED
      BY <2>2, <3>1 DEF Typed, TypeOK, Links
  <2>8. fd_owner' \in [Fds -> Procs \cup {NoProc}]
    BY <2>2 DEF Typed, TypeOK
  <2>9. QED
    BY <2>1, <2>2, <2>5, <2>6, <2>7, <2>8 DEF Typed, TypeOK, HandlerHasWork,
       Replaying, Handled, Links, client, registry, stale, job
<1>3. QED
  BY <1>1, <1>2

(* A returning client: its replay starts if something is stored. *)
LEMMA ReconnectTyped ==
  ASSUME Typed, NEW i, NEW p \in Procs, Reconnect(i, p) PROVE Typed'
<1>1. Consumed(p) \in [Procs -> Seq(ServerMessages)] /\ pc = "loop" /\ i \in Fds
  BY ConsumedTyped DEF Reconnect
<1>2. PICK k \in DOMAIN tcp_clients :
        /\ tcp_clients' = [tcp_clients EXCEPT ![k].is_active = 1,
                                              ![k].current_socket = i]
        /\ flushing' = k
        /\ pc' = IF tcp_clients[k].unreceived = <<>> THEN "loop" ELSE "flush"
  BY DEF Reconnect
<1> DEFINE e == [tcp_clients[k] EXCEPT !.is_active = 1, !.current_socket = i]
<1>3. e \in ClientEntry /\ e.unreceived = tcp_clients[k].unreceived
  BY <1>1, TableEntries DEF ClientEntry, Typed
<1>4. tcp_clients' = [tcp_clients EXCEPT ![k] = e]
  <2>1. tcp_clients \in [DOMAIN tcp_clients -> ClientEntry]
    BY TableEntries DEF Typed, TypeOK
  <2>2. QED
    BY <1>2, <2>1
<1>5. /\ tcp_clients' \in Seq(ClientEntry) /\ Len(tcp_clients') = Len(tcp_clients)
      /\ DOMAIN tcp_clients' = DOMAIN tcp_clients
  <2> HIDE DEF e
  <2>1. QED
    BY <1>3, <1>4, EntryTyped
<1>6. tcp_clients'[k].unreceived = tcp_clients[k].unreceived
  <2>1. tcp_clients'[k] = e
    <3> HIDE DEF e
    <3>1. QED
      BY <1>4
  <2>2. QED
    BY <1>3, <2>1
<1>7. flushing' \in 0 .. Len(tcp_clients')
  BY <1>2, <1>5, TableEntries DEF Typed
<1>8. HandlerHasWork'
  BY <1>1, <1>2, <1>5, <1>6 DEF HandlerHasWork, Replaying
<1>9. QED
  BY <1>1, <1>2, <1>5, <1>7, <1>8 DEF Typed, TypeOK,
     Reconnect, Handled, client, stale

(* The next stored message: there is one. *)
LEMMA ReplayTyped == ASSUME Typed, Replay PROVE Typed'
<1> DEFINE s == tcp_clients[flushing].current_socket
           n == Head(tcp_clients[flushing].unreceived)
<1>1. CASE Crash("died")
  BY <1>1, CrashTyped
<1>2. CASE ~Crash("died")
  <2>1. /\ CanSend(s) /\ Transmit(fd_owner[s], Data(n))
        /\ handed' = [handed EXCEPT ![fd_owner[s]] = Append(@, n)]
        /\ pc' = "gotit" /\ pc = "flush"
        /\ UNCHANGED <<status, ready, registry, fd_owner, stale, job,
                     backlog, toServer, cstate, typed, asked, printed>>
    BY <1>2 DEF Replay
  <2>2. n \in Message
    <3>1. /\ flushing \in DOMAIN tcp_clients
          /\ tcp_clients[flushing].unreceived # <<>>
      BY <2>1 DEF Typed, HandlerHasWork, Replaying
    <3>2. QED
      BY <3>1, TableEntries, HeadTailProperties DEF Typed
  <2>3. fd_owner[s] \in Procs
    BY <2>1 DEF CanSend, Owner, Typed, TypeOK
  <2>4. Data(n) \in ClientMessages
    BY <2>2 DEF ClientMessages
  <2> HIDE DEF s, n
  <2>5. toClient' \in [Procs -> Seq(ClientMessages)] /\ link' \in [Procs -> Links]
    BY <2>1, <2>3, <2>4, TransmitTyped
  <2>6. handed' \in [Procs -> Seq(Message)]
    <3>1. Append(handed[fd_owner[s]], n) \in Seq(Message)
      BY <2>2, <2>3, AppendProperties DEF Typed, TypeOK
    <3>2. QED
      BY <2>1, <2>3, <3>1 DEF Typed, TypeOK
  <2>7. QED
    BY <2>1, <2>5, <2>6 DEF Typed, TypeOK, HandlerHasWork, Replaying, Links,
       registry, stale, job
<1>3. QED
  BY <1>1, <1>2

(* GOT_IT, or something else that is dropped. *)
LEMMA GotItTyped == ASSUME Typed, AwaitGotIt PROVE Typed'
<1>1. /\ flushing \in DOMAIN tcp_clients /\ pc = "gotit"
      /\ tcp_clients[flushing].unreceived # <<>>
  BY DEF AwaitGotIt, Typed, HandlerHasWork, Replaying
<1>2. toServer' \in [Procs -> Seq(ServerMessages)] /\ link' \in [Procs -> Links]
  BY ReceiveTyped DEF AwaitGotIt
<1> DEFINE rest == Unanswered(flushing)
           e == [tcp_clients[flushing] EXCEPT !.unreceived = rest]
<1>3. /\ tcp_clients' \in Seq(ClientEntry) /\ Len(tcp_clients') = Len(tcp_clients)
      /\ DOMAIN tcp_clients' = DOMAIN tcp_clients
      /\ pc' \in {"loop", "flush", "gotit"}
      /\ pc' # "loop" => tcp_clients'[flushing].unreceived # <<>>
  <2>1. CASE UNCHANGED <<tcp_clients, pc>>
    BY <1>1, <2>1 DEF Typed, TypeOK
  <2>2. CASE /\ tcp_clients' = [tcp_clients EXCEPT ![flushing].unreceived = rest]
             /\ pc' = IF rest = <<>> THEN "loop" ELSE "flush"
    <3>1. rest \in Seq(Message)
      BY <1>1, TableEntries, HeadTailProperties DEF Typed, Unanswered
    <3>2. e \in ClientEntry /\ e.unreceived = rest
      <4> HIDE DEF rest
      <4>1. QED
        BY <1>1, <3>1, TableEntries DEF ClientEntry, Typed
    <3>3. tcp_clients' = [tcp_clients EXCEPT ![flushing] = e]
      BY <2>2
    <3> HIDE DEF e
    <3>4. /\ tcp_clients' \in Seq(ClientEntry) /\ Len(tcp_clients') = Len(tcp_clients)
          /\ DOMAIN tcp_clients' = DOMAIN tcp_clients
      BY <1>1, <3>2, <3>3, EntryTyped
    <3>5. tcp_clients'[flushing].unreceived = rest
      BY <1>1, <3>2, <3>3
    <3>6. QED
      BY <2>2, <3>4, <3>5
  <2>3. QED
    BY <2>1, <2>2 DEF AwaitGotIt
<1>4. HandlerHasWork'
  BY <1>1, <1>3 DEF HandlerHasWork, Replaying, AwaitGotIt, job
<1>5. QED
  BY <1>2, <1>3, <1>4 DEF Typed, TypeOK, AwaitGotIt, Links, client, stale, job

(* A client that leaves. *)
LEMMA DisconnectTyped ==
  ASSUME Typed, NEW i, NEW p \in Procs, Disconnect(i, p) PROVE Typed'
<1>1. Consumed(p) \in [Procs -> Seq(ServerMessages)] /\ pc = "loop" /\ i \in Fds
  BY ConsumedTyped DEF Disconnect
<1>2. CASE \E k \in DOMAIN tcp_clients :
             /\ tcp_clients' = Deactivated(k)
             /\ fd_owner' = [fd_owner EXCEPT ![i] = NoProc]
             /\ toServer' = [toServer EXCEPT ![p] = <<>>]
             /\ link' = [link EXCEPT ![p] = AfterClose(p, Consumed(p))]
  <2>1. PICK k \in DOMAIN tcp_clients : tcp_clients' = Deactivated(k)
    BY <1>2
  <2> DEFINE e == [tcp_clients[k] EXCEPT !.is_active = 0]
  <2>2. e \in ClientEntry
    BY TableEntries DEF ClientEntry, Typed
  <2>3. tcp_clients' = [tcp_clients EXCEPT ![k] = e]
    BY <2>1 DEF Deactivated
  <2>4. tcp_clients' \in Seq(ClientEntry) /\ Len(tcp_clients') = Len(tcp_clients)
    <3> HIDE DEF e
    <3>1. QED
      BY <2>2, <2>3, EntryTyped
  <2>5. toServer' \in [Procs -> Seq(ServerMessages)]
    BY <1>2, EmptySeq DEF Typed, TypeOK
  <2>6. link' \in [Procs -> Links]
    <3>1. AfterClose(p, Consumed(p)) \in Links
      BY DEF AfterClose, Links, Typed, TypeOK
    <3>2. QED
      BY <1>2, <3>1 DEF Typed, TypeOK, Links
  <2>7. fd_owner' \in [Fds -> Procs \cup {NoProc}]
    BY <1>2 DEF Typed, TypeOK
  <2>8. QED
    BY <1>1, <2>4, <2>5, <2>6, <2>7 DEF Typed, TypeOK, HandlerHasWork, Replaying,
       Disconnect, Handled, Links, client, stale, job
<1>3. CASE toServer' = Consumed(p) /\ UNCHANGED <<tcp_clients, fd_owner, link>>
  BY <1>1, <1>3 DEF Typed, TypeOK, HandlerHasWork, Replaying, Disconnect,
     Handled, client, stale, job
<1>4. QED
  BY <1>2, <1>3 DEF Disconnect

(* Changing one entry of all_topics keeps the table's type. *)
LEMMA TopicEntryTyped ==
  ASSUME Typed, NEW k \in DOMAIN all_topics, NEW e \in TopicEntry,
         all_topics' = [all_topics EXCEPT ![k] = e]
  PROVE  all_topics' \in Seq(TopicEntry) /\ Len(all_topics') = Len(all_topics)
  BY ExceptSeq DEF Typed, TypeOK

(* Replacing the subscribers of one topic keeps the table's type. *)
LEMMA TopicTyped ==
  ASSUME Typed, NEW k \in DOMAIN all_topics, NEW s \in Seq(Subscription),
         all_topics' = [all_topics EXCEPT ![k].subscribers = s]
  PROVE  /\ all_topics' \in Seq(TopicEntry) /\ Len(all_topics') = Len(all_topics)
<1> DEFINE e == [all_topics[k] EXCEPT !.subscribers = s]
<1>1. e \in TopicEntry
  BY TableEntries DEF TopicEntry, Typed
<1>2. all_topics' = [all_topics EXCEPT ![k] = e]
  OBVIOUS
<1> HIDE DEF e
<1>3. QED
  BY <1>1, <1>2, TopicEntryTyped

(* What the slots of a new topic hold before the first subscription. *)
LEMMA FillTyped ==
  ASSUME NEW g \in Nat, MaxClients \in Nat
  PROVE  Fill(g) \in Seq(Subscription) /\ Len(Fill(g)) = g
<1>1. [subscriber |-> 0, SF |-> 0] \in Subscription
  BY DEF Subscription
<1>2. Fill(g) \in [1 .. g -> Subscription]
  BY <1>1 DEF Fill
<1>3. QED
  BY <1>2, IsASeq, SeqDef, LenProperties DEF Fill

(* A subscription, to an old or a new topic. *)
LEMMA SubscribeTyped ==
  ASSUME Typed, NEW i, NEW p \in Procs, NEW m \in Commands, Subscribe(i, p, m)
  PROVE  Typed'
<1> DEFINE own == [subscriber |-> current_tcp_client', SF |-> m.SF]
           new == Len(all_topics) + 1
<1>1. Consumed(p) \in [Procs -> Seq(ServerMessages)] /\ pc = "loop"
  BY ConsumedTyped DEF Subscribe
<1>2. m.topic \in Topics /\ m.SF \in {0, 1}
  BY ConstantsOK
<1>3. current_tcp_client' \in 0 .. Len(tcp_clients)
  <2>1. \A c \in EntriesAt(i) : c \in 1 .. Len(tcp_clients)
    BY TableEntries DEF EntriesAt, Typed
  <2>2. QED
    BY <2>1, TableEntries DEF Subscribe, Typed, TypeOK
<1>4. own \in Subscription
  BY <1>2, <1>3, TableEntries, ConstantsOK DEF Subscription, Typed, TypeOK
<1>5. all_topics' \in Seq(TopicEntry) /\ Len(all_topics') <= MaxTopics
  <2>1. ASSUME NEW k \in DOMAIN all_topics,
               all_topics' = [all_topics EXCEPT ![k].subscribers = Append(@, own)]
        PROVE  all_topics' \in Seq(TopicEntry) /\ Len(all_topics') <= MaxTopics
    <3> DEFINE s == Append(all_topics[k].subscribers, own)
    <3>1. s \in Seq(Subscription)
      <4> HIDE DEF own
      <4>1. QED
        BY <1>4, TableEntries, AppendProperties DEF Typed
    <3>2. all_topics' = [all_topics EXCEPT ![k].subscribers = s]
      BY <2>1
    <3> HIDE DEF s
    <3>3. QED
      BY <3>1, <3>2, TopicTyped DEF Typed, TypeOK
  <2>2. ASSUME Len(all_topics) < MaxTopics,
               all_topics' = Append(all_topics,
                 [topic |-> m.topic, subscribers |-> Append(Fill(StackFill[new]), own)])
        PROVE  all_topics' \in Seq(TopicEntry) /\ Len(all_topics') <= MaxTopics
    <3> DEFINE s == Append(Fill(StackFill[new]), own)
               e == [topic |-> m.topic, subscribers |-> s]
    <3>1. new \in 1 .. MaxTopics
      BY <2>2, TableEntries, ConstantsOK DEF Typed
    <3>2. Fill(StackFill[new]) \in Seq(Subscription)
      <4> HIDE DEF new
      <4>1. QED
        BY <3>1, FillTyped, ConstantsOK
    <3>3. s \in Seq(Subscription)
      <4> HIDE DEF own, new
      <4>1. QED
        BY <1>4, <3>2, AppendProperties
    <3>4. e \in TopicEntry
      <4> HIDE DEF s
      <4>1. QED
        BY <1>2, <3>3 DEF TopicEntry
    <3>5. all_topics' = Append(all_topics, e)
      BY <2>2
    <3>6. Len(all_topics') = Len(all_topics) + 1 /\ all_topics' \in Seq(TopicEntry)
      <4> HIDE DEF e
      <4>1. QED
        BY <3>4, <3>5, AppendProperties DEF Typed, TypeOK
    <3>7. QED
      BY <2>2, <3>6, TableEntries, ConstantsOK DEF Typed
  <2>3. QED
    BY <2>1, <2>2 DEF Subscribe
<1>6. QED
  BY <1>1, <1>3, <1>5 DEF Typed, TypeOK, HandlerHasWork, Replaying, Subscribe,
     Handled, client, job

(* The subscriptions an unsubscribe leaves. *)
LEMMA UnsubscribeTyped ==
  ASSUME Typed, NEW i, NEW p \in Procs, NEW m \in Commands, Unsubscribe(i, p, m)
  PROVE  Typed'
<1>1. Consumed(p) \in [Procs -> Seq(ServerMessages)] /\ pc = "loop"
  BY ConsumedTyped DEF Unsubscribe
<1>2. PICK id \in Ids \cup {NoId} :
        /\ leftover_id' = id
        /\ \/ \E k \in DOMAIN all_topics :
                LET s == all_topics[k].subscribers IN
                all_topics' = [all_topics EXCEPT ![k].subscribers =
                                    Keep(s, DOMAIN s \ RemovedFrom(s, id))]
           \/ UNCHANGED all_topics
  BY DEF Unsubscribe
<1>3. all_topics' \in Seq(TopicEntry) /\ Len(all_topics') <= MaxTopics
  <2>1. ASSUME NEW k \in DOMAIN all_topics,
               all_topics' = [all_topics EXCEPT ![k].subscribers =
                 Keep(all_topics[k].subscribers, DOMAIN all_topics[k].subscribers
                        \ RemovedFrom(all_topics[k].subscribers, id))]
        PROVE  all_topics' \in Seq(TopicEntry) /\ Len(all_topics') <= MaxTopics
    <3> DEFINE s == all_topics[k].subscribers
               r == RemovedFrom(s, id)
               t == Keep(s, DOMAIN s \ r)
    <3>1. t \in Seq(Subscription)
      <4>1. s \in Seq(Subscription)
        BY TableEntries DEF Typed
      <4> HIDE DEF s, r
      <4>2. QED
        BY <4>1, KeepType
    <3>2. all_topics' = [all_topics EXCEPT ![k].subscribers = t]
      BY <2>1
    <3> HIDE DEF t
    <3>3. QED
      BY <3>1, <3>2, TopicTyped DEF Typed, TypeOK
  <2>2. QED
    BY <1>2, <2>1 DEF Typed, TypeOK
<1>4. QED
  BY <1>1, <1>2, <1>3 DEF Typed, TypeOK, HandlerHasWork, Replaying, Unsubscribe,
     Handled, client, job

(* A client's send() leaves well-typed queues, links and client states. *)
LEMMA SendsTyped ==
  ASSUME Typed, NEW p \in Procs, NEW m \in ServerMessages, Sends(p, m)
  PROVE  /\ toServer' \in [Procs -> Seq(ServerMessages)]
         /\ link' \in [Procs -> Links]
         /\ cstate' \in [Procs -> {"start", "running", "done", "failed"}]
<1>1. Append(toServer[p], m) \in Seq(ServerMessages)
  BY AppendProperties DEF Typed, TypeOK
<1>2. QED
  BY <1>1 DEF Sends, Typed, TypeOK, Links

(* A client's recv() leaves a well-typed queue. *)
LEMMA GetsTyped ==
  ASSUME Typed, NEW p \in Procs, NEW m, Gets(p, m)
  PROVE  toClient' \in [Procs -> Seq(ClientMessages)]
<1>1. PICK k \in 1 .. Len(toClient[p]) :
        toClient' = [toClient EXCEPT ![p] = SubSeq(@, k + 1, Len(@))]
  BY DEF Gets
<1>2. toClient[p] \in Seq(ClientMessages)
  BY DEF Typed, TypeOK
<1>3. SubSeq(toClient[p], k + 1, Len(toClient[p])) \in Seq(ClientMessages)
  BY <1>2
<1>4. QED
  BY <1>1, <1>3 DEF Typed, TypeOK

(* A client process that starts. *)
LEMMA ConnectTyped ==
  ASSUME Typed, NEW p \in Procs, Connect(p) PROVE Typed'
<1>1. backlog' \in Seq(Procs)
  <2>1. backlog \in Seq(Procs) /\ Append(backlog, p) \in Seq(Procs)
    BY AppendProperties DEF Typed, TypeOK
  <2>2. backlog' = backlog \/ backlog' = Append(backlog, p)
    BY DEF Connect
  <2>3. QED
    BY <2>1, <2>2
<1>2. QED
  BY <1>1 DEF Typed, TypeOK, HandlerHasWork, Replaying, Connect, server,
     registry, stale, job

(* A command typed at a client. *)
LEMMA TypeCommandTyped ==
  ASSUME Typed, NEW p \in Procs, NEW m \in Commands, TypeCommand(p, m) PROVE Typed'
<1>1. m \in ServerMessages /\ m.topic \in Topics
  BY ConstantsOK DEF ServerMessages
<1>2. /\ toServer' \in [Procs -> Seq(ServerMessages)] /\ link' \in [Procs -> Links]
      /\ cstate' \in [Procs -> {"start", "running", "done", "failed"}]
  BY <1>1, SendsTyped DEF TypeCommand
<1>3. typed' \in [Procs -> Nat] /\ asked' \in [Procs -> SUBSET Topics]
  BY <1>1 DEF TypeCommand, Typed, TypeOK
<1>4. QED
  BY <1>2, <1>3 DEF Typed, TypeOK, HandlerHasWork, Replaying, TypeCommand,
     Links, server, registry, stale, job

(* exit typed at a client. *)
LEMMA ExitTyped ==
  ASSUME Typed, NEW p \in Procs, Exit(p) PROVE Typed'
<1>1. Append(toServer[p], Bye) \in Seq(ServerMessages)
  <2>1. Bye \in ServerMessages
    BY DEF ServerMessages
  <2>2. QED
    BY <2>1, AppendProperties DEF Typed, TypeOK
<1>2. toServer' \in [Procs -> Seq(ServerMessages)]
  BY <1>1 DEF Exit, Typed, TypeOK
<1>3. toClient' \in [Procs -> Seq(ClientMessages)]
  BY EmptySeq DEF Exit, Typed, TypeOK
<1>4. link' \in [Procs -> Links]
  BY DEF Exit, Typed, TypeOK, Links
<1>5. cstate' \in [Procs -> {"start", "running", "done", "failed"}]
  BY DEF Exit, Typed, TypeOK
<1>6. QED
  BY <1>2, <1>3, <1>4, <1>5 DEF Typed, TypeOK, HandlerHasWork, Replaying, Exit,
     Links, server, registry, stale, job

(* What a client does with what it receives. *)
LEMMA ClientReadsTyped ==
  ASSUME Typed, NEW p \in Procs, ClientReads(p) PROVE Typed'
<1>1. CASE AnswerId(p)
  <2>1. IdReply(p) \in ServerMessages
    BY DEF ServerMessages
  <2>2. QED
    BY <1>1, <2>1, SendsTyped, GetsTyped DEF AnswerId, Typed, TypeOK,
       HandlerHasWork, Replaying, Links, server, registry, stale, job
<1>2. CASE CloseOnRequest(p)
  BY <1>2, GetsTyped DEF CloseOnRequest, Typed, TypeOK, HandlerHasWork,
     Replaying, Links, server, registry, stale, job
<1>3. CASE ConnectionLost(p)
  BY <1>3 DEF ConnectionLost, Typed, TypeOK, HandlerHasWork, Replaying, Links,
     server, registry, stale, job
<1>4. ASSUME NEW n \in Message, PrintMessage(p, n) PROVE Typed'
  <2>1. GotIt \in ServerMessages
    BY DEF ServerMessages
  <2>2. Append(printed[p], n) \in Seq(Message)
    BY AppendProperties DEF Typed, TypeOK
  <2>3. QED
    BY <1>4, <2>1, <2>2, SendsTyped, GetsTyped DEF PrintMessage, Typed, TypeOK,
       HandlerHasWork, Replaying, Links, server, registry, stale, job
<1>5. QED
  BY <1>1, <1>2, <1>3, <1>4 DEF ClientReads

(* The actions after which the server is gone. *)
LEMMA FailureTyped ==
  ASSUME Typed,
         \/ AcceptFails \/ SendFails \/ FanOutUndefined
         \/ \E t \in Topics : TopicTableOverrun(t)
         \/ \E i \in Fds : ReadFails(i)
         \/ \E i \in Fds, p \in Procs : ClientTableOverrun(i, p)
         \/ \E i \in Fds, p \in Procs, m \in Commands :
               SubscribeOverrun(i, p, m) \/ UnsubscribeUndefined(i, p, m)
  PROVE  Typed'
<1>1. Crash("died") \/ Crash("undefined")
  BY DEF AcceptFails, SendFails, FanOutUndefined, TopicTableOverrun, ReadFails,
     ClientTableOverrun, SubscribeOverrun, UnsubscribeUndefined
<1>2. QED
  BY <1>1, CrashTyped

(* Every handler of input on a client socket. *)
LEMMA HandleInputTyped ==
  ASSUME Typed, NEW i \in Fds, HandleInput(i) PROVE Typed'
<1>1. CASE ReadNothing(i)
  BY <1>1, ReadNothingTyped
<1>2. CASE ReadFails(i)
  BY <1>2, FailureTyped
<1>3. ASSUME NEW p \in Procs,
             \/ IgnoreGotIt(i, p) \/ Register(i, p) \/ ClientTableOverrun(i, p)
             \/ RefuseDuplicate(i, p) \/ Reconnect(i, p) \/ Disconnect(i, p)
      PROVE  Typed'
  BY <1>3, IgnoreTyped, RegisterTyped, FailureTyped, RefuseTyped, ReconnectTyped,
     DisconnectTyped
<1>4. ASSUME NEW p \in Procs, NEW m \in Commands,
             Subscribe(i, p, m) \/ SubscribeOverrun(i, p, m)
             \/ Unsubscribe(i, p, m) \/ UnsubscribeUndefined(i, p, m)
      PROVE  Typed'
  BY <1>4, SubscribeTyped, FailureTyped, UnsubscribeTyped
<1>5. QED
  BY <1>1, <1>2, <1>3, <1>4 DEF HandleInput

(* Every step of the system preserves types. *)
LEMMA NextTyped == ASSUME Typed, [Next]_vars PROVE Typed'
<1>1. CASE Server
  <2>1. CASE Select \/ Accept \/ AcceptFails \/ StopServer
    BY <2>1, SelectTyped, AcceptTyped, FailureTyped, StopTyped
  <2>2. CASE \E t \in Topics : ReceiveDatagram(t) \/ TopicTableOverrun(t)
    BY <2>2, DatagramTyped, FailureTyped
  <2>3. CASE SendToActive \/ SendFails \/ AwaitAck \/ StoreOrSkip \/ FanOutUndefined
    BY <2>3, SendTyped, FailureTyped, AckTyped, StoreTyped
  <2>4. CASE Replay \/ AwaitGotIt
    BY <2>4, ReplayTyped, GotItTyped
  <2>5. CASE \E i \in Fds : HandleInput(i)
    BY <2>5, HandleInputTyped
  <2>6. QED
    BY <1>1, <2>1, <2>2, <2>3, <2>4, <2>5 DEF Server
<1>2. ASSUME NEW p \in Procs, ClientReads(p) \/ User(p) PROVE Typed'
  BY <1>2, ClientReadsTyped, ConnectTyped, ExitTyped, TypeCommandTyped DEF User
<1>3. CASE Idle \/ UNCHANGED vars
  BY <1>3, IdleTyped DEF Idle
<1>4. QED
  BY <1>1, <1>2, <1>3 DEF Next

(* Every variable keeps its type: the tables within the bounds the code     *)
(* declares, every position stored in them inside the table it points into. *)
THEOREM TypeCorrect == Spec => []TypeOK
<1>1. Init => Typed
  BY InitTyped
<1>2. Typed /\ [Next]_vars => Typed'
  BY NextTyped
<1>3. Typed => TypeOK
  BY DEF Typed
<1>4. QED
  BY <1>1, <1>2, <1>3, PTL DEF Spec

(* Inside a handler there is always something left to do: the fan-out never *)
(* runs past its subscribers, nor the replay past the stored messages.      *)
THEOREM HandlersHaveWork == Spec => []HandlerHasWork
<1>1. Typed => HandlerHasWork
  BY DEF Typed
<1>2. QED
  BY <1>1, InitTyped, NextTyped, PTL DEF Spec

-----------------------------------------------------------------------------
(* What a step does to the tables. *)

(* The actions that change tcp_clients. *)
ChangesClients ==
  \/ StoreOrSkip \/ AwaitGotIt
  \/ \E i \in Fds, p \in Procs : Register(i, p) \/ Reconnect(i, p) \/ Disconnect(i, p)

(* The actions that change all_topics. *)
ChangesTopics ==
  \/ \E t \in Topics : ReceiveDatagram(t)
  \/ \E i \in Fds, p \in Procs, m \in Commands :
        Subscribe(i, p, m) \/ Unsubscribe(i, p, m)

(* A client's step, and a step that does nothing, leave the server alone. *)
LEMMA OutsideStep ==
  ASSUME \/ \E p \in Procs : ClientReads(p) \/ User(p)
         \/ Idle \/ UNCHANGED vars
  PROVE  UNCHANGED server
<1>1. \A p \in Procs : ClientReads(p) => UNCHANGED server
  BY DEF ClientReads, AnswerId, PrintMessage, CloseOnRequest, ConnectionLost
<1>2. \A p \in Procs : User(p) => UNCHANGED server
  BY DEF User, Connect, Exit, TypeCommand
<1>3. Idle \/ UNCHANGED vars => UNCHANGED server
  BY DEF Idle, vars
<1>4. QED
  BY <1>1, <1>2, <1>3

(* Every other step leaves the clients and topics as they are. *)
LEMMA TablesStep ==
  ASSUME [Next]_vars
  PROVE  /\ ChangesClients \/ UNCHANGED tcp_clients
         /\ ChangesTopics \/ UNCHANGED all_topics
<1>1. CASE UNCHANGED server
  BY <1>1 DEF server, registry
<1>2. CASE Server
  <2>1. CASE Crash("died") \/ Crash("undefined") \/ StopServer
    BY <2>1 DEF Crash, Halt, StopServer, registry
  <2>2. CASE Select \/ Accept \/ SendToActive \/ AwaitAck \/ Replay
    BY <2>1, <2>2 DEF Select, Accept, SendToActive, AwaitAck, Replay, registry
  <2>3. CASE \E t \in Topics : ReceiveDatagram(t)
    BY <2>3 DEF ReceiveDatagram, ChangesTopics
  <2>4. CASE StoreOrSkip \/ AwaitGotIt
    BY <2>4 DEF StoreOrSkip, AwaitGotIt, ChangesClients
  <2>5. ASSUME NEW i \in Fds, ReadNothing(i)
        PROVE  UNCHANGED tcp_clients /\ UNCHANGED all_topics
    BY <2>5 DEF ReadNothing, registry
  <2>6. ASSUME NEW i \in Fds, NEW p \in Procs, IgnoreGotIt(i, p) \/ RefuseDuplicate(i, p)
        PROVE  \/ UNCHANGED tcp_clients /\ UNCHANGED all_topics
               \/ Crash("died")
    BY <2>6 DEF IgnoreGotIt, RefuseDuplicate, registry
  <2>7. ASSUME NEW i \in Fds, NEW p \in Procs,
               Register(i, p) \/ Reconnect(i, p) \/ Disconnect(i, p)
        PROVE  ChangesClients /\ UNCHANGED all_topics
    BY <2>7 DEF Register, Reconnect, Disconnect, ChangesClients
  <2>8. ASSUME NEW i \in Fds, NEW p \in Procs, NEW m \in Commands,
               Subscribe(i, p, m) \/ Unsubscribe(i, p, m)
        PROVE  ChangesTopics /\ UNCHANGED tcp_clients
    BY <2>8 DEF Subscribe, Unsubscribe, ChangesTopics
  <2>9. \/ Select \/ Accept \/ SendToActive \/ AwaitAck \/ Replay \/ StopServer
        \/ \E t \in Topics : ReceiveDatagram(t)
        \/ StoreOrSkip \/ AwaitGotIt \/ \E i \in Fds : HandleInput(i)
        \/ Crash("died") \/ Crash("undefined")
    BY <1>2 DEF Server, AcceptFails, SendFails, FanOutUndefined, TopicTableOverrun
  <2>10. ASSUME NEW i \in Fds, HandleInput(i)
         PROVE \/ ReadNothing(i)
               \/ \E p \in Procs :
                    \/ IgnoreGotIt(i, p) \/ Register(i, p) \/ RefuseDuplicate(i, p)
                    \/ Reconnect(i, p) \/ Disconnect(i, p)
                    \/ \E m \in Commands : Subscribe(i, p, m) \/ Unsubscribe(i, p, m)
               \/ Crash("died") \/ Crash("undefined")
    BY <2>10 DEF HandleInput, ReadFails, ClientTableOverrun, SubscribeOverrun,
       UnsubscribeUndefined
  <2>11. QED
    BY <2>1, <2>2, <2>3, <2>4, <2>5, <2>6, <2>7, <2>8, <2>9, <2>10
<1>3. QED
  BY <1>1, <1>2, OutsideStep DEF Next

(* The entries of tcp_clients keep their IDs; at most one is added, with an *)
(* ID no entry has.                                                         *)
SameIds ==
  /\ Len(tcp_clients') = Len(tcp_clients)
  /\ \A k \in DOMAIN tcp_clients : tcp_clients'[k].id = tcp_clients[k].id
NewId ==
  \E e \in ClientEntry : EntriesWithId(e.id) = {} /\ tcp_clients' = Append(tcp_clients, e)

(* Changing one entry without its ID keeps all IDs. *)
LEMMA EntryChanged ==
  ASSUME Typed, NEW k \in DOMAIN tcp_clients, NEW e \in ClientEntry,
         e.id = tcp_clients[k].id, tcp_clients' = [tcp_clients EXCEPT ![k] = e]
  PROVE  SameIds
  BY EntryTyped, TableEntries DEF SameIds, Typed, TypeOK

(* Of all the steps, only Register adds an entry and none changes an ID. *)
LEMMA EntriesStep == ASSUME Typed, [Next]_vars PROVE SameIds \/ NewId
<1>1. CASE UNCHANGED tcp_clients
  BY <1>1 DEF SameIds
<1>2. ASSUME NEW k \in DOMAIN tcp_clients, NEW v \in Seq(Message),
             tcp_clients' = [tcp_clients EXCEPT ![k].unreceived = v]
      PROVE  SameIds
  <2> DEFINE e == [tcp_clients[k] EXCEPT !.unreceived = v]
  <2>1. e \in ClientEntry /\ e.id = tcp_clients[k].id
    BY TableEntries DEF ClientEntry, Typed
  <2>2. tcp_clients' = [tcp_clients EXCEPT ![k] = e]
    BY <1>2
  <2> HIDE DEF e
  <2>3. QED
    BY <2>1, <2>2, EntryChanged
<1>3. CASE StoreOrSkip
  <2>1. todo # <<>> /\ published # <<>>
    BY <1>3 DEF StoreOrSkip, ToInactive, FanningOut, Typed, HandlerHasWork
  <2>2. Len(published) \in Message
    BY <2>1, EmptySeq, LenProperties, ConstantsOK DEF Typed, TypeOK, Message
  <2>3. CASE UNCHANGED tcp_clients
    BY <2>3, <1>1
  <2>4. CASE tcp_clients' = [tcp_clients EXCEPT ![Addressee].unreceived =
                               Append(@, Len(published))]
    <3>1. CASE Addressee \in DOMAIN tcp_clients
      <4> DEFINE k == Addressee
                 v == Append(tcp_clients[k].unreceived, Len(published))
      <4>1. v \in Seq(Message)
        BY <2>2, <3>1, TableEntries, AppendProperties DEF Typed
      <4>2. tcp_clients' = [tcp_clients EXCEPT ![k].unreceived = v]
        BY <2>4
      <4> HIDE DEF k, v
      <4>3. k \in DOMAIN tcp_clients
        BY <3>1 DEF k
      <4>4. QED
        BY <1>2, <4>1, <4>2, <4>3
    <3>2. CASE Addressee \notin DOMAIN tcp_clients
      <4>1. tcp_clients' = tcp_clients
        BY <2>4, <3>2, TableEntries DEF Typed, TypeOK
      <4>2. QED
        BY <4>1, <1>1
    <3>3. QED
      BY <3>1, <3>2
  <2>5. QED
    BY <1>3, <2>3, <2>4 DEF StoreOrSkip
<1>4. CASE AwaitGotIt
  <2> DEFINE k == flushing
             v == Unanswered(k)
  <2>1. k \in DOMAIN tcp_clients /\ tcp_clients[k].unreceived # <<>>
    BY <1>4 DEF AwaitGotIt, Typed, HandlerHasWork, Replaying
  <2>2. v \in Seq(Message)
    BY <2>1, TableEntries, HeadTailProperties DEF Typed, Unanswered
  <2>3. \/ tcp_clients' = [tcp_clients EXCEPT ![k].unreceived = v]
        \/ UNCHANGED tcp_clients
    BY <1>4 DEF AwaitGotIt
  <2> HIDE DEF k, v
  <2>4. QED
    BY <1>1, <1>2, <2>1, <2>2, <2>3
<1>5. ASSUME NEW i \in Fds, NEW p \in Procs, Reconnect(i, p) PROVE SameIds
  <2>1. PICK k \in DOMAIN tcp_clients :
          tcp_clients' = [tcp_clients EXCEPT ![k].is_active = 1,
                                             ![k].current_socket = i]
    BY <1>5 DEF Reconnect
  <2> DEFINE e == [tcp_clients[k] EXCEPT !.is_active = 1, !.current_socket = i]
  <2>2. e \in ClientEntry /\ e.id = tcp_clients[k].id
    BY TableEntries DEF ClientEntry, Typed
  <2>3. tcp_clients' = [tcp_clients EXCEPT ![k] = e]
    <3>1. tcp_clients \in [DOMAIN tcp_clients -> ClientEntry]
      BY TableEntries DEF Typed, TypeOK
    <3>2. QED
      BY <2>1, <3>1
  <2> HIDE DEF e
  <2>4. QED
    BY <2>2, <2>3, EntryChanged
<1>6. ASSUME NEW i \in Fds, NEW p \in Procs, Disconnect(i, p) PROVE SameIds
  <2>1. CASE UNCHANGED tcp_clients
    BY <2>1 DEF SameIds
  <2>2. CASE \E k \in DOMAIN tcp_clients : tcp_clients' = Deactivated(k)
    <3>1. PICK k \in DOMAIN tcp_clients : tcp_clients' = Deactivated(k)
      BY <2>2
    <3> DEFINE e == [tcp_clients[k] EXCEPT !.is_active = 0]
    <3>2. e \in ClientEntry /\ e.id = tcp_clients[k].id
      BY TableEntries DEF ClientEntry, Typed
    <3>3. tcp_clients' = [tcp_clients EXCEPT ![k] = e]
      BY <3>1 DEF Deactivated
    <3> HIDE DEF e
    <3>4. QED
      BY <3>2, <3>3, EntryChanged
  <2>3. QED
    BY <1>6, <2>1, <2>2 DEF Disconnect
<1>7. ASSUME NEW i \in Fds, NEW p \in Procs, Register(i, p) PROVE NewId
  <2> DEFINE e == NewEntry(i, p)
  <2>1. e \in ClientEntry /\ e.id = IdOf[p]
    BY EmptySeq DEF NewEntry, ClientEntry, Ids
  <2>2. EntriesWithId(IdOf[p]) = {} /\ tcp_clients' = Append(tcp_clients, e)
    BY <1>7 DEF Register
  <2> HIDE DEF e
  <2>3. QED
    BY <2>1, <2>2 DEF NewId
<1>8. QED
  BY <1>1, <1>3, <1>4, <1>5, <1>6, <1>7, TablesStep DEF ChangesClients

(* An entry of tcp_clients keeps its place and its ID. *)
LEMMA Stays ==
  ASSUME Typed, [Next]_vars
  PROVE  \A k \in DOMAIN tcp_clients :
           k \in DOMAIN tcp_clients' /\ tcp_clients'[k].id = tcp_clients[k].id
<1>1. TypeOK /\ TypeOK'
  BY NextTyped DEF Typed
<1>2. /\ DOMAIN tcp_clients = 1 .. Len(tcp_clients) /\ Len(tcp_clients) \in Nat
      /\ DOMAIN tcp_clients' = 1 .. Len(tcp_clients')
  BY <1>1, LenProperties DEF TypeOK
<1>3. CASE SameIds
  BY <1>2, <1>3 DEF SameIds
<1>4. CASE NewId
  <2>1. PICK e \in ClientEntry : tcp_clients' = Append(tcp_clients, e)
    BY <1>4 DEF NewId
  <2>2. /\ Len(tcp_clients') = Len(tcp_clients) + 1
        /\ \A k \in 1 .. Len(tcp_clients) : tcp_clients'[k] = tcp_clients[k]
    BY <2>1, <1>1, AppendProperties DEF TypeOK
  <2>3. QED
    BY <1>2, <2>2
<1>5. QED
  BY <1>3, <1>4, EntriesStep

(* Subscriptions refer to clients by position, so this is what keeps them   *)
(* right whatever connections come and go.                                  *)
THEOREM EntriesAlwaysStay == Spec => EntriesStay
<1>1. Init => Typed
  BY InitTyped
<1>2. Typed /\ [Next]_vars => Typed'
  BY NextTyped
<1>3. Typed /\ [Next]_vars =>
        [\A k \in DOMAIN tcp_clients :
           k \in DOMAIN tcp_clients' /\ tcp_clients'[k].id = tcp_clients[k].id]_vars
  BY Stays
<1>4. QED
  BY <1>1, <1>2, <1>3, PTL DEF Spec, EntriesStay

-----------------------------------------------------------------------------
(* However connections, refusals and reconnections interleave, an ID is     *)
(* never registered twice.                                                  *)
LEMMA IdsStep ==
  ASSUME Typed, RegistryIdsUnique, [Next]_vars PROVE RegistryIdsUnique'
<1>1. TypeOK /\ TypeOK'
  BY NextTyped DEF Typed
<1>2. /\ DOMAIN tcp_clients = 1 .. Len(tcp_clients) /\ Len(tcp_clients) \in Nat
      /\ DOMAIN tcp_clients' = 1 .. Len(tcp_clients')
  BY <1>1, LenProperties DEF TypeOK
<1>3. CASE SameIds
  BY <1>2, <1>3 DEF SameIds, RegistryIdsUnique
<1>4. CASE NewId
  <2>1. PICK e \in ClientEntry : EntriesWithId(e.id) = {}
                                 /\ tcp_clients' = Append(tcp_clients, e)
    BY <1>4 DEF NewId
  <2>2. /\ Len(tcp_clients') = Len(tcp_clients) + 1
        /\ \A k \in 1 .. Len(tcp_clients) : tcp_clients'[k] = tcp_clients[k]
        /\ tcp_clients'[Len(tcp_clients) + 1] = e
    BY <2>1, <1>1, AppendProperties DEF TypeOK
  <2>3. \A k \in DOMAIN tcp_clients : tcp_clients[k].id # e.id
    BY <2>1 DEF EntriesWithId
  <2>4. QED
    BY <1>2, <2>2, <2>3 DEF RegistryIdsUnique
<1>5. QED
  BY <1>3, <1>4, EntriesStep

(* Every ID has at most one entry in tcp_clients. *)
THEOREM IdsUnique == Spec => []RegistryIdsUnique
<1>1. Init => Typed /\ RegistryIdsUnique
  BY InitTyped DEF Init, RegistryIdsUnique
<1>2. Typed /\ RegistryIdsUnique /\ [Next]_vars => (Typed /\ RegistryIdsUnique)'
  BY NextTyped, IdsStep
<1>3. QED
  BY <1>1, <1>2, PTL DEF Spec

-----------------------------------------------------------------------------
(* What a step does to all_topics: nothing; a datagram adds an unknown name *)
(* with no subscriber; a subscribe adds one subscription to a topic, or a   *)
(* topic no name of which contains the one asked for; an unsubscribe keeps  *)
(* some subscriptions of one topic.                                         *)
Own(m) == [subscriber |-> current_tcp_client', SF |-> m.SF]
NewTopic(t, s) ==
  TopicsNamed(t) = {} /\ all_topics' = Append(all_topics, [topic |-> t, subscribers |-> s])
SetSubscribers(k, s) == all_topics' = [all_topics EXCEPT ![k].subscribers = s]
AmongOld(s) == \A q \in DOMAIN s : s[q].subscriber \in 0 .. Len(tcp_clients)

Older == {x \in Subscription : x.subscriber \in 0 .. Len(tcp_clients)}
(* The two ways to say that subscriptions refer to filled entries agree. *)
LEMMA OlderSeq ==
  ASSUME NEW s PROVE s \in Seq(Older) <=> s \in Seq(Subscription) /\ AmongOld(s)
<1>1. ASSUME s \in Seq(Older) PROVE s \in Seq(Subscription) /\ AmongOld(s)
  <2>1. \A q \in 1 .. Len(s) : s[q] \in Older
    BY <1>1, ElementOfSeq
  <2>2. DOMAIN s = 1 .. Len(s) /\ Len(s) \in Nat /\ s = [q \in 1 .. Len(s) |-> s[q]]
    BY <1>1, LenProperties
  <2>3. AmongOld(s)
    BY <2>1, <2>2 DEF AmongOld, Older
  <2>4. \A q \in 1 .. Len(s) : s[q] \in Subscription
    BY <2>1 DEF Older
  <2>5. s \in [1 .. Len(s) -> Subscription]
    BY <2>2, <2>4
  <2>6. QED
    BY <2>2, <2>3, <2>5, SeqDef
<1>2. ASSUME s \in Seq(Subscription), AmongOld(s) PROVE s \in Seq(Older)
  <2>1. \A q \in 1 .. Len(s) : s[q] \in Subscription
    BY <1>2, ElementOfSeq
  <2>2. DOMAIN s = 1 .. Len(s) /\ Len(s) \in Nat /\ s = [q \in 1 .. Len(s) |-> s[q]]
    BY <1>2, LenProperties
  <2>3. \A q \in 1 .. Len(s) : s[q] \in Older
    BY <1>2, <2>1, <2>2 DEF AmongOld, Older
  <2>4. s \in [1 .. Len(s) -> Older]
    BY <2>2, <2>3
  <2>5. QED
    BY <2>2, <2>4, SeqDef
<1>3. QED
  BY <1>1, <1>2

(* These are all the changes to all_topics there are. *)
LEMMA TopicsStep ==
  ASSUME Typed, SubscribersResolve, [Next]_vars
  PROVE  \/ UNCHANGED all_topics
         \/ \E t \in Topics, s \in Seq(Subscription) : NewTopic(t, s) /\ AmongOld(s)
         \/ \E k \in DOMAIN all_topics, s \in Seq(Subscription) :
               SetSubscribers(k, s) /\ AmongOld(s)
<1> USE TableEntries DEF Typed
<1>1. ASSUME NEW t \in Topics, ReceiveDatagram(t)
      PROVE  UNCHANGED all_topics
             \/ \E s \in Seq(Subscription) : NewTopic(t, s) /\ AmongOld(s)
  <2>1. <<>> \in Seq(Subscription) /\ AmongOld(<<>>)
    BY EmptySeq DEF AmongOld
  <2>2. QED
    BY <1>1, <2>1 DEF ReceiveDatagram, NewTopic
<1>2. ASSUME NEW i \in Fds, NEW p \in Procs, NEW m \in Commands, Subscribe(i, p, m)
      PROVE  \/ \E s \in Seq(Subscription) : NewTopic(m.topic, s) /\ AmongOld(s)
             \/ \E k \in DOMAIN all_topics, s \in Seq(Subscription) :
                   SetSubscribers(k, s) /\ AmongOld(s)
  <2>1. current_tcp_client' \in 0 .. Len(tcp_clients)
    <3>1. \A c \in EntriesAt(i) : c \in 1 .. Len(tcp_clients)
      BY DEF EntriesAt
    <3>2. QED
      BY <1>2, <3>1 DEF Subscribe, TypeOK
  <2>2. Own(m) \in Subscription /\ Own(m).subscriber \in 0 .. Len(tcp_clients)
    BY <2>1, ConstantsOK DEF Own, Subscription, TypeOK
  <2>3. ASSUME NEW s \in Seq(Subscription), AmongOld(s)
        PROVE  Append(s, Own(m)) \in Seq(Subscription) /\ AmongOld(Append(s, Own(m)))
    <3>1. Append(s, Own(m)) \in Seq(Subscription)
      BY <2>2, AppendProperties
    <3>2. /\ DOMAIN Append(s, Own(m)) = 1 .. Len(s) + 1 /\ DOMAIN s = 1 .. Len(s)
          /\ Len(s) \in Nat /\ Append(s, Own(m))[Len(s) + 1] = Own(m)
          /\ \A q \in 1 .. Len(s) : Append(s, Own(m))[q] = s[q]
      BY <2>2, AppendProperties, LenProperties
    <3>3. QED
      BY <2>2, <2>3, <3>1, <3>2 DEF AmongOld
  <2>4. ASSUME NEW k \in DOMAIN all_topics,
               all_topics' = [all_topics EXCEPT ![k].subscribers = Append(@, Own(m))]
        PROVE  \E s \in Seq(Subscription) : SetSubscribers(k, s) /\ AmongOld(s)
    <3>1. all_topics[k].subscribers \in Seq(Subscription)
          /\ AmongOld(all_topics[k].subscribers)
      BY DEF SubscribersResolve, AmongOld
    <3>2. SetSubscribers(k, Append(all_topics[k].subscribers, Own(m)))
      BY <2>4 DEF SetSubscribers
    <3>3. QED
      BY <2>3, <3>1, <3>2
  <2>5. ASSUME Matching(m.topic) = {}, Len(all_topics) < MaxTopics,
               all_topics' = Append(all_topics,
                 [topic |-> m.topic,
                  subscribers |-> Append(Fill(StackFill[Len(all_topics) + 1]), Own(m))])
        PROVE  \E s \in Seq(Subscription) : NewTopic(m.topic, s) /\ AmongOld(s)
    <3> DEFINE f == Fill(StackFill[Len(all_topics) + 1])
    <3>1. StackFill[Len(all_topics) + 1] \in Nat
      BY <2>5, ConstantsOK
    <3>2. f \in Seq(Subscription)
      BY <3>1, FillTyped, ConstantsOK
    <3>3. AmongOld(f)
      BY DEF AmongOld, Fill
    <3>4. TopicsNamed(m.topic) = {}
      <4>1. m.topic \in Topics
        BY ConstantsOK
      <4>2. <<m.topic, m.topic>> \in Substring
        BY <4>1, ConstantsOK
      <4>3. QED
        BY <2>5, <4>2 DEF Matching, TopicsNamed
    <3>5. NewTopic(m.topic, Append(f, Own(m)))
      BY <2>5, <3>4 DEF NewTopic
    <3> HIDE DEF f
    <3>6. QED
      BY <2>3, <3>2, <3>3, <3>5
  <2>6. QED
    BY <1>2, <2>4, <2>5 DEF Subscribe, Own
<1>3. ASSUME NEW i \in Fds, NEW p \in Procs, NEW m \in Commands, Unsubscribe(i, p, m)
      PROVE  \/ UNCHANGED all_topics
             \/ \E k \in DOMAIN all_topics, s \in Seq(Subscription) :
                   SetSubscribers(k, s) /\ AmongOld(s)
  <2>1. ASSUME NEW k \in DOMAIN all_topics, NEW id,
               all_topics' = [all_topics EXCEPT ![k].subscribers =
                 Keep(all_topics[k].subscribers, DOMAIN all_topics[k].subscribers
                        \ RemovedFrom(all_topics[k].subscribers, id))]
        PROVE  \E s \in Seq(Subscription) : SetSubscribers(k, s) /\ AmongOld(s)
    <3> DEFINE s == all_topics[k].subscribers
               r == RemovedFrom(s, id)
               t == Keep(s, DOMAIN s \ r)
    <3>1. s \in Seq(Older)
      <4>1. s \in Seq(Subscription) /\ AmongOld(s)
        BY DEF SubscribersResolve, AmongOld
      <4> HIDE DEF s
      <4>2. QED
        BY <4>1, OlderSeq
    <3>2. SetSubscribers(k, t)
      BY <2>1 DEF SetSubscribers
    <3>3. t \in Seq(Older)
      <4> HIDE DEF s, r
      <4>1. QED
        BY <3>1, KeepType
    <3> HIDE DEF t
    <3>4. QED
      BY <3>2, <3>3, OlderSeq
  <2>2. QED
    BY <1>3, <2>1 DEF Unsubscribe
<1>4. QED
  BY <1>1, <1>2, <1>3, TablesStep, ConstantsOK DEF ChangesTopics

(* They keep subscribers resolvable and names apart. *)
LEMMA TopicsInvStep ==
  ASSUME Typed, SubscribersResolve, TopicNamesUnique, [Next]_vars
  PROVE  SubscribersResolve' /\ TopicNamesUnique'
<1>1. TypeOK /\ TypeOK'
  BY NextTyped DEF Typed
<1>2. /\ DOMAIN all_topics = 1 .. Len(all_topics) /\ Len(all_topics) \in Nat
      /\ DOMAIN all_topics' = 1 .. Len(all_topics')
      /\ Len(tcp_clients) \in Nat /\ Len(tcp_clients') \in Nat
  BY <1>1, LenProperties DEF TypeOK
<1>3. Len(tcp_clients) <= Len(tcp_clients')
  <2>1. CASE SameIds
    BY <1>2, <2>1 DEF SameIds
  <2>2. CASE NewId
    <3>1. PICK e \in ClientEntry : tcp_clients' = Append(tcp_clients, e)
      BY <2>2 DEF NewId
    <3>2. Len(tcp_clients') = Len(tcp_clients) + 1
      BY <1>1, <3>1, AppendProperties DEF TypeOK
    <3>3. QED
      BY <1>2, <3>2
  <2>3. QED
    BY <2>1, <2>2, EntriesStep
<1>4. CASE UNCHANGED all_topics
  <2>1. TopicNamesUnique'
    BY <1>4 DEF TopicNamesUnique
  <2>2. SubscribersResolve'
    BY <1>2, <1>3, <1>4 DEF SubscribersResolve
  <2>3. QED
    BY <2>1, <2>2
<1>5. ASSUME NEW t \in Topics, NEW s \in Seq(Subscription), NewTopic(t, s), AmongOld(s)
      PROVE  SubscribersResolve' /\ TopicNamesUnique'
  <2> DEFINE e == [topic |-> t, subscribers |-> s]
  <2>1. e \in TopicEntry /\ e.topic = t /\ e.subscribers = s
    BY DEF TopicEntry
  <2>2. all_topics' = Append(all_topics, e) /\ TopicsNamed(t) = {}
    BY <1>5 DEF NewTopic
  <2> HIDE DEF e
  <2>3. /\ Len(all_topics') = Len(all_topics) + 1
        /\ \A k \in 1 .. Len(all_topics) : all_topics'[k] = all_topics[k]
        /\ all_topics'[Len(all_topics) + 1] = e
    BY <1>1, <2>1, <2>2, AppendProperties DEF TypeOK
  <2>4. \A k \in DOMAIN all_topics : all_topics[k].topic # t
    BY <2>2 DEF TopicsNamed
  <2>5. TopicNamesUnique'
    BY <1>2, <2>1, <2>3, <2>4 DEF TopicNamesUnique
  <2>6. \A q \in DOMAIN s : s[q].subscriber \in 0 .. Len(tcp_clients')
    BY <1>2, <1>3, <1>5 DEF AmongOld
  <2>7. \A k \in 1 .. Len(all_topics) : \A q \in DOMAIN all_topics[k].subscribers :
          all_topics[k].subscribers[q].subscriber \in 0 .. Len(tcp_clients')
    BY <1>2, <1>3 DEF SubscribersResolve
  <2>8. SubscribersResolve'
    BY <1>2, <2>1, <2>3, <2>6, <2>7 DEF SubscribersResolve
  <2>9. QED
    BY <2>5, <2>8
<1>6. ASSUME NEW k \in DOMAIN all_topics, NEW s \in Seq(Subscription),
             SetSubscribers(k, s), AmongOld(s)
      PROVE  SubscribersResolve' /\ TopicNamesUnique'
  <2>1. all_topics \in [1 .. Len(all_topics) -> TopicEntry]
    BY <1>1, <1>2, TableEntries, LenProperties DEF TypeOK
  <2>2. /\ DOMAIN all_topics' = DOMAIN all_topics
        /\ \A j \in DOMAIN all_topics : all_topics'[j].topic = all_topics[j].topic
        /\ \A j \in DOMAIN all_topics : j # k => all_topics'[j] = all_topics[j]
        /\ all_topics'[k].subscribers = s
    BY <1>2, <1>6, <2>1 DEF SetSubscribers, TopicEntry
  <2>3. TopicNamesUnique'
    BY <2>2 DEF TopicNamesUnique
  <2>4. \A q \in DOMAIN s : s[q].subscriber \in 0 .. Len(tcp_clients')
    BY <1>2, <1>3, <1>6 DEF AmongOld
  <2>5. \A j \in DOMAIN all_topics : \A q \in DOMAIN all_topics[j].subscribers :
          all_topics[j].subscribers[q].subscriber \in 0 .. Len(tcp_clients')
    BY <1>2, <1>3 DEF SubscribersResolve
  <2>6. SubscribersResolve'
    BY <2>2, <2>4, <2>5 DEF SubscribersResolve
  <2>7. QED
    BY <2>3, <2>6
<1>7. QED
  BY <1>4, <1>5, <1>6, TopicsStep

(* There are no topics at first. *)
LEMMA TopicsInit == Init => SubscribersResolve /\ TopicNamesUnique
  BY DEF Init, SubscribersResolve, TopicNamesUnique

(* A subscriber pointer is garbage or leads to a filled entry. *)
THEOREM SubscribersAlwaysResolve == Spec => []SubscribersResolve
<1>1. Init => Typed /\ SubscribersResolve /\ TopicNamesUnique
  BY InitTyped, TopicsInit
<1>2. Typed /\ SubscribersResolve /\ TopicNamesUnique /\ [Next]_vars
        => (Typed /\ SubscribersResolve /\ TopicNamesUnique)'
  BY NextTyped, TopicsInvStep
<1>3. QED
  BY <1>1, <1>2, PTL DEF Spec

(* A name is in all_topics once, although the two places that add one look  *)
(* for it differently: a datagram fans out once.                            *)
THEOREM TopicsUnique == Spec => []TopicNamesUnique
<1>1. Init => Typed /\ SubscribersResolve /\ TopicNamesUnique
  BY InitTyped, TopicsInit
<1>2. Typed /\ SubscribersResolve /\ TopicNamesUnique /\ [Next]_vars
        => (Typed /\ SubscribersResolve /\ TopicNamesUnique)'
  BY NextTyped, TopicsInvStep
<1>3. QED
  BY <1>1, <1>2, PTL DEF Spec

-----------------------------------------------------------------------------
(* Stored messages belong to clients that are away, or to the one they are  *)
(* being replayed to.  What a step does to pc, flushing and the entries:    *)
ReplayStays == pc' = pc /\ flushing' = flushing
Quiet == ~Replaying /\ ~Replaying'

(* Only Reconnect starts a replay and only AwaitGotIt ends one. *)
LEMMA ReplayStep ==
  ASSUME [Next]_vars PROVE ReplayStays \/ Quiet \/ Replay \/ ChangesClients
<1>1. CASE UNCHANGED server
  BY <1>1 DEF server, job, ReplayStays
<1>2. CASE Server
  <2>1. CASE Crash("died") \/ Crash("undefined") \/ StopServer
    BY <2>1 DEF Crash, Halt, StopServer, job, ReplayStays
  <2>2. CASE Select \/ Accept
    BY <2>2 DEF Select, Accept, job, ReplayStays
  <2>3. CASE SendToActive \/ AwaitAck
    BY <2>3 DEF SendToActive, AwaitAck, Resume, ToActive, FanningOut, Quiet, Replaying
  <2>4. CASE \E t \in Topics : ReceiveDatagram(t)
    BY <2>4 DEF ReceiveDatagram, Resume, Turn, Quiet, Replaying
  <2>5. ASSUME NEW i \in Fds, HandleInput(i)
        PROVE  ReplayStays \/ ChangesClients
    <3>1. CASE ReadNothing(i)
      BY <3>1 DEF ReadNothing, job, ReplayStays
    <3>2. ASSUME NEW p \in Procs, IgnoreGotIt(i, p) \/ RefuseDuplicate(i, p)
          PROVE  ReplayStays
      BY <3>2 DEF IgnoreGotIt, RefuseDuplicate, Crash, Halt, job, ReplayStays
    <3>3. ASSUME NEW p \in Procs, NEW m \in Commands,
                 Subscribe(i, p, m) \/ Unsubscribe(i, p, m)
          PROVE  ReplayStays
      BY <3>3 DEF Subscribe, Unsubscribe, job, ReplayStays
    <3>4. CASE Crash("died") \/ Crash("undefined")
      BY <3>4 DEF Crash, Halt, job, ReplayStays
    <3>5. QED
      BY <2>5, <3>1, <3>2, <3>3, <3>4 DEF HandleInput, ReadFails, ChangesClients,
         ClientTableOverrun, SubscribeOverrun, UnsubscribeUndefined
  <2>6. QED
    BY <1>2, <2>1, <2>2, <2>3, <2>4, <2>5 DEF Server, AcceptFails, SendFails,
       FanOutUndefined, TopicTableOverrun, ChangesClients
<1>3. QED
  BY <1>1, <1>2, OutsideStep DEF Next

(* So no step leaves a connected client with stored messages. *)
LEMMA StoredStep ==
  ASSUME Typed, StoredOnlyOffline, [Next]_vars PROVE StoredOnlyOffline'
<1>1. TypeOK /\ TypeOK'
  BY NextTyped DEF Typed
<1>2. tcp_clients \in [1 .. Len(tcp_clients) -> ClientEntry]
      /\ DOMAIN tcp_clients = 1 .. Len(tcp_clients) /\ Len(tcp_clients) \in Nat
  BY <1>1, LenProperties, TableEntries DEF TypeOK
<1>3. CASE UNCHANGED tcp_clients /\ (ReplayStays \/ Quiet \/ Replay)
  BY <1>3 DEF StoredOnlyOffline, ReplayStays, Quiet, Replaying, Replay, Crash,
     Halt, stale, job, registry
<1>4. CASE StoreOrSkip
  <2>1. CASE UNCHANGED tcp_clients
    BY <1>4, <2>1 DEF StoredOnlyOffline, Replaying, StoreOrSkip, ToInactive, FanningOut
  <2>2. CASE /\ tcp_clients' = [tcp_clients EXCEPT ![Addressee].unreceived =
                                   Append(@, Len(published))]
             /\ tcp_clients[Addressee].is_active = 0 /\ ~Replaying
    BY <1>2, <2>2 DEF StoredOnlyOffline, ClientEntry
  <2>3. QED
    BY <1>4, <2>1, <2>2 DEF StoreOrSkip, ToInactive, FanningOut, Replaying
<1>5. CASE AwaitGotIt
  <2> DEFINE rest == Unanswered(flushing)
  <2>1. CASE UNCHANGED <<tcp_clients, pc>>
    BY <1>5, <2>1 DEF StoredOnlyOffline, Replaying, AwaitGotIt, job
  <2>2. CASE /\ tcp_clients' = [tcp_clients EXCEPT ![flushing].unreceived = rest]
             /\ pc' = IF rest = <<>> THEN "loop" ELSE "flush"
    <3>1. flushing' = flushing
      BY <1>5 DEF AwaitGotIt, job
    <3> HIDE DEF rest
    <3>2. QED
      BY <1>2, <2>2, <3>1 DEF StoredOnlyOffline, Replaying, ClientEntry
  <2>3. QED
    BY <1>5, <2>1, <2>2 DEF AwaitGotIt
<1>6. ASSUME NEW i \in Fds, NEW p \in Procs, Reconnect(i, p)
      PROVE  StoredOnlyOffline'
  <2>1. PICK k \in DOMAIN tcp_clients :
          /\ tcp_clients' = [tcp_clients EXCEPT ![k].is_active = 1,
                                                ![k].current_socket = i]
          /\ flushing' = k
          /\ pc' = IF tcp_clients[k].unreceived = <<>> THEN "loop" ELSE "flush"
    BY <1>6 DEF Reconnect
  <2>2. ~Replaying
    BY <1>6 DEF Reconnect, Reads, Turn, Replaying
  <2>3. QED
    BY <1>2, <2>1, <2>2 DEF StoredOnlyOffline, Replaying, ClientEntry
<1>7. ASSUME NEW i \in Fds, NEW p \in Procs, Register(i, p)
      PROVE  StoredOnlyOffline'
  <2> DEFINE e == NewEntry(i, p)
  <2>1. e \in ClientEntry /\ e.unreceived = <<>>
    BY EmptySeq DEF NewEntry, ClientEntry, Ids
  <2>2. tcp_clients' = Append(tcp_clients, e) /\ ~Replaying /\ UNCHANGED pc
    BY <1>7 DEF Register, Reads, Turn, Replaying
  <2> HIDE DEF e
  <2>3. /\ DOMAIN tcp_clients' = 1 .. Len(tcp_clients) + 1
        /\ \A k \in 1 .. Len(tcp_clients) : tcp_clients'[k] = tcp_clients[k]
        /\ tcp_clients'[Len(tcp_clients) + 1] = e
    BY <1>1, <2>1, <2>2, AppendProperties DEF TypeOK
  <2>4. QED
    BY <1>2, <2>1, <2>2, <2>3 DEF StoredOnlyOffline
<1>8. ASSUME NEW i \in Fds, NEW p \in Procs, Disconnect(i, p)
      PROVE  StoredOnlyOffline'
  <2>1. ~Replaying /\ UNCHANGED pc
    BY <1>8 DEF Disconnect, Reads, Turn, Replaying
  <2>2. CASE UNCHANGED tcp_clients
    BY <2>1, <2>2 DEF StoredOnlyOffline, Replaying
  <2>3. CASE \E k \in DOMAIN tcp_clients : tcp_clients' = Deactivated(k)
    BY <1>2, <2>1, <2>3 DEF StoredOnlyOffline, Deactivated, ClientEntry
  <2>4. QED
    BY <1>8, <2>2, <2>3 DEF Disconnect
<1>9. UNCHANGED tcp_clients => ReplayStays \/ Quiet \/ Replay
                               \/ ChangesClients
  BY ReplayStep
<1>10. QED
  BY <1>3, <1>4, <1>5, <1>6, <1>7, <1>8, <1>9, TablesStep DEF ChangesClients

(* Nothing is stored for a client that is connected, except while what was  *)
(* stored is being replayed to it.                                          *)
THEOREM StoredForTheAbsent == Spec => []StoredOnlyOffline
<1>1. Init => Typed /\ StoredOnlyOffline
  BY InitTyped DEF Init, StoredOnlyOffline
<1>2. Typed /\ StoredOnlyOffline /\ [Next]_vars => (Typed /\ StoredOnlyOffline)'
  BY NextTyped, StoredStep
<1>3. QED
  BY <1>1, <1>2, PTL DEF Spec

=============================================================================
