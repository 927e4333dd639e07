----------------------- MODULE BrokerConnectionProofs -----------------------
(* Proofs about the connections of Broker: which process a descriptor, a    *)
(* queue and an entry of tcp_clients belong to.                             *)
EXTENDS BrokerProofs

-----------------------------------------------------------------------------
(* Queues: what may be in them, and where. *)
Holds(s, kind) == \E x \in DOMAIN s : s[x].kind = kind

First(s, kind) == \A x \in DOMAIN s : s[x].kind = kind => x = 1
Once(s, kind) ==
  \A x, y \in DOMAIN s : s[x].kind = kind /\ s[y].kind = kind => x = y

(* The sequence t is s from position d + 1 on, or part of that. *)
Later(s, t, d) == \A x \in DOMAIN t : x + d \in DOMAIN s /\ t[x] = s[x + d]

(* A queue is left alone, loses its head, or is thrown away. *)
Shrinks(s, t) == t = s \/ t = <<>> \/ (s # <<>> /\ t = Tail(s))

-----------------------------------------------------------------------------
(* What a step does to connections: one of five things. *)
Owns(p) == \E f \in Fds : fd_owner[f] = p

Said(p) == \/ toClient'[p] = toClient[p]
           \/ /\ Owns(p)
              /\ \E m \in ClientMessages :
                   /\ m.kind # "ID_CLIENT?" /\ toClient'[p] = Append(toClient[p], m)
                   /\ m.kind = "data" => handed'[p] = Append(handed[p], m.n)

(* The server uses the connections it has, *)
Serving ==
  /\ UNCHANGED <<backlog, fd_owner, cstate>>
  /\ \A p \in Procs : Shrinks(toServer[p], toServer'[p]) /\ Said(p)

(* or closes one, *)
Closing(f) ==
  /\ fd_owner[f] \in Procs /\ fd_owner' = [fd_owner EXCEPT ![f] = NoProc]
  /\ UNCHANGED <<backlog, cstate>>
  /\ \A p \in Procs : Shrinks(toServer[p], toServer'[p]) /\ Said(p)
  /\ toServer'[fd_owner[f]] = <<>>

(* or accepts one; *)
Accepting(f, p) ==
  /\ backlog # <<>> /\ p = Head(backlog) /\ backlog' = Tail(backlog)
  /\ fd_owner[f] = NoProc /\ fd_owner' = [fd_owner EXCEPT ![f] = p]
  /\ toClient' \in {toClient, [toClient EXCEPT ![p] = Append(@, Ask)]}
  /\ UNCHANGED <<toServer, cstate>>

(* a process starts, *)
Starting(p) ==
  /\ cstate[p] = "start"
  /\ \/ cstate' = [cstate EXCEPT ![p] = "running"] /\ backlog' = Append(backlog, p)
     \/ cstate' = [cstate EXCEPT ![p] = "failed"] /\ UNCHANGED backlog
  /\ UNCHANGED <<fd_owner, toServer, toClient>>

(* or reads and writes. *)
Drops(p) == \E k \in 1 .. Len(toClient[p]) :
              toClient' = [toClient EXCEPT ![p] = SubSeq(@, k + 1, Len(@))]
Says(p, m) ==
  /\ toServer' = [toServer EXCEPT ![p] = Append(@, m)]
  /\ m.kind = "ID_CLIENT:" => /\ toClient[p] # <<>> /\ Head(toClient[p]) = Ask
                              /\ Drops(p)
  /\ m.kind \in {"subscribe", "unsubscribe"} => AtKeyboard(p)
  /\ m.kind = "subscribe" => m.topic \in asked'[p]
  /\ m.kind = "disconnected." => p \in MayExit
Acting(p) ==
  /\ UNCHANGED <<backlog, fd_owner, tcp_clients>>
  /\ cstate[p] # "start"
  /\ \E c \in {"running", "done", "failed"} : cstate' = [cstate EXCEPT ![p] = c]
  /\ toClient' = toClient \/ toClient' = [toClient EXCEPT ![p] = <<>>] \/ Drops(p)
  /\ UNCHANGED toServer \/ \E m \in ServerMessages : Says(p, m)

-----------------------------------------------------------------------------
(* What is always true of connections. *)
Waits(p) == cstate[p] = "start" \/ InSeq(p, backlog)

(* A process is in the backlog once, and before that it has not started. *)
BacklogOnce ==
  /\ \A x, y \in DOMAIN backlog : backlog[x] = backlog[y] => x = y
  /\ \A p \in Procs : cstate[p] = "start" => ~InSeq(p, backlog)

(* Until it is accepted it owns no descriptor, is told nothing and has not  *)
(* said who it is.                                                          *)
WaitsInSilence ==
  \A p \in Procs : Waits(p) =>
    ~Owns(p) /\ toClient[p] = <<>> /\ ~Holds(toServer[p], "ID_CLIENT:")

(* A process is behind one descriptor. *)
OneDescriptor ==
  \A f, g \in Fds : fd_owner[f] # NoProc /\ fd_owner[f] = fd_owner[g] => f = g

(* It is asked for its ID before it is told anything else, and answers once. *)
AskedFirst ==
  \A p \in Procs :
    /\ First(toClient[p], "ID_CLIENT?")
    /\ Holds(toClient[p], "ID_CLIENT?") => ~Holds(toServer[p], "ID_CLIENT:")
AnswersOnce == \A p \in Procs : Once(toServer[p], "ID_CLIENT:")

Connections == /\ BacklogOnce /\ WaitsInSilence /\ OneDescriptor
               /\ AskedFirst /\ AnswersOnce

(* A process the server does not know yet: it has still to be asked for its *)
(* ID, to answer, or to be heard.                                           *)
NotYet(p) == Waits(p) \/ Holds(toClient[p], "ID_CLIENT?") \/ Holds(toServer[p], "ID_CLIENT:")

(* It is behind no connected entry; and the socket of a connected entry     *)
(* leads to a process of its own.                                           *)
UnknownApart == \A p \in Procs : NotYet(p) => ~Announced(p)
SocketsOwn ==
  \A k \in DOMAIN tcp_clients : tcp_clients[k].is_active = 1 =>
    LET p == Owner(tcp_clients[k].current_socket)
    IN p # NoProc /\ IdOf[p] = tcp_clients[k].id

(* A command that is on its way comes from a process that was announced. *)
CommandsAnnounced ==
  \A p \in Procs : Holds(toServer[p], "subscribe") \/ Holds(toServer[p], "unsubscribe")
                     => Announced(p)

-----------------------------------------------------------------------------
(* Facts about queues. *)

LEMMA LaterHolds ==
  ASSUME NEW s, NEW t, NEW d, Later(s, t, d), NEW kind, Holds(t, kind)
  PROVE  Holds(s, kind)
  BY DEF Later, Holds

LEMMA ShrinksLater ==
  ASSUME NEW T, NEW s \in Seq(T), NEW t, Shrinks(s, t)
  PROVE  t \in Seq(T) /\ \E d \in {0, 1} : Later(s, t, d)
<1>1. CASE t = s
  <2>1. DOMAIN s = 1 .. Len(s) /\ \A x \in 1 .. Len(s) : x + 0 = x
    BY LenProperties
  <2>2. Later(s, t, 0)
    BY <1>1, <2>1 DEF Later
  <2>3. QED
    BY <1>1, <2>2
<1>2. CASE t = <<>>
  <2>1. t \in Seq(T) /\ Later(s, t, 0)
    BY <1>2, EmptySeq DEF Later
  <2>2. QED
    BY <2>1
<1>3. CASE s # <<>> /\ t = Tail(s)
  <2>1. /\ t \in Seq(T) /\ Len(t) = Len(s) - 1 /\ Len(s) \in Nat
        /\ DOMAIN s = 1 .. Len(s) /\ \A x \in 1 .. Len(t) : t[x] = s[x + 1]
    BY <1>3, HeadTailProperties, LenProperties
  <2>2. DOMAIN t = 1 .. Len(t)
    BY <2>1, LenProperties
  <2>3. Later(s, t, 1)
    BY <2>1, <2>2 DEF Later
  <2>4. QED
    BY <2>1, <2>3
<1>4. QED
  BY <1>1, <1>2, <1>3 DEF Shrinks

LEMMA DropsLater ==
  ASSUME NEW T, NEW s \in Seq(T), NEW k \in 1 .. Len(s)
  PROVE  LET t == SubSeq(s, k + 1, Len(s))
         IN  t \in Seq(T) /\ Later(s, t, k)
<1>1. PICK t : t = SubSeq(s, k + 1, Len(s))
  OBVIOUS
<1>2. Len(s) \in Nat /\ DOMAIN s = 1 .. Len(s) /\ k \in Nat /\ k >= 1 /\ k <= Len(s)
      /\ \A x \in 1 .. Len(s) : s[x] \in T
  BY LenProperties, ElementOfSeq
<1>3. /\ \A x \in k + 1 .. Len(s) : s[x] \in T
      /\ k + 1 \in Int /\ Len(s) \in Int
  BY <1>2
<1>4. /\ t \in Seq(T)
      /\ Len(t) = IF k + 1 <= Len(s) THEN Len(s) - (k + 1) + 1 ELSE 0
      /\ \A x \in 1 .. Len(s) - (k + 1) + 1 : t[x] = s[k + 1 + x - 1]
  BY <1>1, <1>3, SubSeqProperties
<1>5. Len(t) = Len(s) - k /\ Len(s) - (k + 1) + 1 = Len(s) - k
  <2>1. Len(s) - (k + 1) + 1 = Len(s) - k
    BY <1>2
  <2>2. CASE k + 1 <= Len(s)
    BY <1>4, <2>1, <2>2
  <2>3. CASE ~(k + 1 <= Len(s))
    <3>1. k = Len(s)
      <4>1. \A a, b \in Nat : b <= a /\ ~(b + 1 <= a) => b = a
        OBVIOUS
      <4>2. QED
        BY <1>2, <2>3, <4>1
    <3>2. Len(t) = 0
      BY <1>4, <2>3
    <3>3. Len(s) - k = 0
      BY <1>2, <3>1
    <3>4. QED
      BY <2>1, <3>2, <3>3
  <2>4. QED
    BY <2>2, <2>3
<1>6. DOMAIN t = 1 .. Len(s) - k
  BY <1>4, <1>5, LenProperties
<1>7. ASSUME NEW x \in DOMAIN t PROVE x + k \in DOMAIN s /\ t[x] = s[x + k]
  <2>1. x \in 1 .. Len(s) - k /\ k + 1 + x - 1 = x + k /\ x + k \in 1 .. Len(s)
    BY <1>2, <1>6
  <2>2. QED
    BY <1>2, <1>4, <1>5, <2>1
<1>8. QED
  BY <1>1, <1>4, <1>7 DEF Later

LEMMA AppendElements ==
  ASSUME NEW T, NEW s \in Seq(T), NEW m \in T
  PROVE  /\ DOMAIN Append(s, m) = 1 .. Len(s) + 1 /\ DOMAIN s = 1 .. Len(s)
         /\ Len(s) \in Nat /\ Append(s, m)[Len(s) + 1] = m
         /\ \A x \in 1 .. Len(s) : Append(s, m)[x] = s[x]
  BY AppendProperties, LenProperties

LEMMA AppendHolds ==
  ASSUME NEW T, NEW s \in Seq(T), NEW m \in T, NEW kind
  PROVE  Holds(Append(s, m), kind) <=> Holds(s, kind) \/ m.kind = kind
<1>1. PICK t : t = Append(s, m)
  OBVIOUS
<1>2. PICK n : n = Len(s)
  OBVIOUS
<1>3. /\ DOMAIN t = 1 .. n + 1 /\ DOMAIN s = 1 .. n /\ n \in Nat /\ t[n + 1] = m
      /\ \A x \in 1 .. n : t[x] = s[x]
  BY <1>1, <1>2, AppendElements
<1>4. \A x : x \in 1 .. n + 1 <=> x \in 1 .. n \/ x = n + 1
  BY <1>3
<1>5. QED
  BY <1>1, <1>3, <1>4 DEF Holds

(* The head is gone when the tail is all there is. *)
LEMMA HeadGone ==
  ASSUME NEW T, NEW s \in Seq(T), s # <<>>, NEW kind, Head(s).kind = kind,
         Once(s, kind)
  PROVE  Holds(s, kind) /\ ~Holds(Tail(s), kind)
<1>1. /\ Len(s) \in Nat \ {0} /\ DOMAIN s = 1 .. Len(s) /\ Head(s) = s[1]
      /\ Tail(s) \in Seq(T) /\ Len(Tail(s)) = Len(s) - 1
      /\ \A x \in 1 .. Len(Tail(s)) : Tail(s)[x] = s[x + 1]
  BY EmptySeq, LenProperties, HeadTailProperties
<1>2. DOMAIN Tail(s) = 1 .. Len(s) - 1
  BY <1>1, LenProperties
<1>3. ASSUME NEW x \in 1 .. Len(s) - 1, Tail(s)[x].kind = kind PROVE FALSE
  <2>1. x + 1 \in DOMAIN s /\ 1 \in DOMAIN s /\ x + 1 # 1 /\ Tail(s)[x] = s[x + 1]
    BY <1>1
  <2>2. QED
    BY <1>1, <1>3, <2>1 DEF Once
<1>4. Holds(s, kind)
  BY <1>1 DEF Holds
<1>5. QED
  BY <1>2, <1>3, <1>4 DEF Holds

(* The messages of both sides have a kind. *)
LEMMA Kinds ==
  /\ Ask.kind = "ID_CLIENT?" /\ CloseClient.kind = "close client"
  /\ \A n : Data(n).kind = "data"
  /\ \A p : IdReply(p).kind = "ID_CLIENT:"
  /\ GotIt.kind = "GOT_IT" /\ Bye.kind = "disconnected."
  /\ \A m \in Commands : m.kind \in {"subscribe", "unsubscribe"}
  BY ConstantsOK DEF Ask, CloseClient, Data, IdReply, GotIt, Bye

-----------------------------------------------------------------------------
(* Every step does one of the five things. *)

LEMMA SaysNothing == ASSUME UNCHANGED toClient PROVE \A p \in Procs : Said(p)
  BY DEF Said

(* A message to a process that owns a descriptor. *)
LEMMA TransmitSaid ==
  ASSUME TypeOK, NEW q \in Procs, Owns(q), NEW m \in ClientMessages,
         m.kind # "ID_CLIENT?",
         m.kind = "data" => handed' = [handed EXCEPT ![q] = Append(@, m.n)],
         toClient' = toClient \/ toClient' = [toClient EXCEPT ![q] = Append(@, m)]
  PROVE  \A p \in Procs : Said(p)
  BY DEF Said, TypeOK

LEMMA ConsumedShrinks ==
  ASSUME TypeOK, NEW q \in Procs,
         \/ toServer' = toServer
         \/ toServer[q] # <<>> /\ toServer' = Consumed(q)
         \/ toServer' = [toServer EXCEPT ![q] = <<>>]
  PROVE  \A p \in Procs : Shrinks(toServer[p], toServer'[p])
  BY DEF Shrinks, Consumed, TypeOK

LEMMA HaltShrinks ==
  ASSUME NEW s, Halt(s)
  PROVE  /\ UNCHANGED <<backlog, fd_owner, cstate, tcp_clients, all_topics>>
         /\ \A p \in Procs : toServer'[p] = <<>>
         /\ \A p \in Procs : Shrinks(toServer[p], toServer'[p])
  BY DEF Halt, registry, client, Shrinks

LEMMA CrashServes == ASSUME NEW s, Crash(s) PROVE Serving
  BY HaltShrinks, SaysNothing DEF Crash, Serving

LEMMA StopServes == ASSUME TypeOK, StopServer PROVE Serving
<1>1. /\ UNCHANGED <<backlog, fd_owner, cstate>>
      /\ \A p \in Procs : Shrinks(toServer[p], toServer'[p])
  BY HaltShrinks DEF StopServer
<1>2. ASSUME NEW p \in Procs PROVE Said(p)
  <2>1. \/ toClient'[p] = toClient[p]
        \/ /\ toClient'[p] = Append(toClient[p], CloseClient)
           /\ \E k \in DOMAIN tcp_clients : Owner(tcp_clients[k].current_socket) = p
    BY DEF StopServer
  <2>2. CloseClient \in ClientMessages /\ CloseClient.kind \notin {"ID_CLIENT?", "data"}
    BY DEF ClientMessages, CloseClient
  <2>3. ASSUME NEW k \in DOMAIN tcp_clients, Owner(tcp_clients[k].current_socket) = p
        PROVE  Owns(p)
    <3>1. tcp_clients[k].current_socket \in Fds
      BY TableEntries DEF ClientEntry
    <3>2. QED
      BY <2>3, <3>1 DEF Owns, Owner
  <2>4. QED
    BY <2>1, <2>2, <2>3 DEF Said
<1>3. QED
  BY <1>1, <1>2 DEF Serving

LEMMA AcceptAccepts ==
  ASSUME Typed, Accept PROVE \E f \in Fds, p \in Procs : Accepting(f, p)
<1>1. PICK f \in Fds, p \in Procs :
        /\ IsFirst(f, Fds \ OpenFds) /\ backlog # <<>> /\ p = Head(backlog)
        /\ backlog' = Tail(backlog) /\ fd_owner' = [fd_owner EXCEPT ![f] = p]
        /\ Transmit(p, Ask)
  BY DEF Accept
<1>2. UNCHANGED <<toServer, cstate>>
  BY DEF Accept, client
<1>3. fd_owner[f] = NoProc
  BY <1>1 DEF IsFirst, OpenFds
<1>4. toClient' = toClient \/ toClient' = [toClient EXCEPT ![p] = Append(@, Ask)]
  BY <1>1 DEF Transmit
<1>5. Accepting(f, p)
  BY <1>1, <1>2, <1>3, <1>4 DEF Accepting
<1>6. QED
  BY <1>5

(* The process behind the socket of an entry, when something can be sent.   *)
LEMMA SendOwns ==
  ASSUME TypeOK, NEW k \in DOMAIN tcp_clients, CanSend(tcp_clients[k].current_socket)
  PROVE  LET q == fd_owner[tcp_clients[k].current_socket]
         IN  q \in Procs /\ Owns(q)
<1>1. tcp_clients[k].current_socket \in Fds
  BY TableEntries DEF ClientEntry
<1>2. QED
  BY <1>1 DEF CanSend, Owner, Owns, TypeOK

LEMMA DataMessage ==
  ASSUME NEW n \in Message
  PROVE  Data(n) \in ClientMessages /\ Data(n).kind # "ID_CLIENT?" /\ Data(n).n = n
  BY DEF ClientMessages, Data

LEMMA SendServes == ASSUME Typed, SendToActive PROVE Serving
<1>1. /\ UNCHANGED <<tcp_clients, backlog, fd_owner, cstate, toServer>>
      /\ ToActive /\ pc = "fanout"
  BY DEF SendToActive, registry, ToActive, FanningOut
<1>2. PICK k : k = Addressee
  OBVIOUS
<1>3. PICK q : q = fd_owner[tcp_clients[k].current_socket]
  OBVIOUS
<1>4. PICK n : n = Len(published)
  OBVIOUS
<1>5. CanSend(tcp_clients[k].current_socket) /\ Transmit(q, Data(n))
  BY <1>2, <1>3, <1>4 DEF SendToActive
<1>6. n \in Message
  <2>1. published \in Seq(Topics) /\ Len(published) <= MaxPublish /\ published # <<>>
    BY <1>1 DEF TypeOK, Typed, HandlerHasWork
  <2>2. n \in Nat \ {0} /\ n <= MaxPublish
    BY <1>4, <2>1, LenProperties, EmptySeq
  <2>3. QED
    BY <2>2, ConstantsOK DEF Message
<1>7. q \in Procs /\ Owns(q)
  <2>1. CASE tcp_clients[k].current_socket \in Fds
    BY <1>3, <1>5, <2>1 DEF CanSend, Owner, Owns, Typed, TypeOK
  <2>2. CASE tcp_clients[k].current_socket \notin Fds
    BY <1>5, <2>2 DEF CanSend, Owner
  <2>3. QED
    BY <2>1, <2>2
<1>8. /\ toClient' = toClient \/ toClient' = [toClient EXCEPT ![q] = Append(@, Data(n))]
      /\ handed' = [handed EXCEPT ![q] = Append(@, n)]
  BY <1>2, <1>3, <1>4, <1>5 DEF Transmit, SendToActive
<1>9. \A p \in Procs : Said(p)
  BY <1>6, <1>7, <1>8, DataMessage, TransmitSaid DEF Typed
<1>10. QED
  BY <1>1, <1>9 DEF Serving, Shrinks

LEMMA ReplayIsServing == ASSUME Typed, Replay PROVE Serving
<1>1. CASE Crash("died")
  BY <1>1, CrashServes
<1>2. CASE ~Crash("died")
  <2>1. PICK s : s = tcp_clients[flushing].current_socket
    OBVIOUS
  <2>2. PICK q : q = fd_owner[s]
    OBVIOUS
  <2>3. PICK n : n = Head(tcp_clients[flushing].unreceived)
    OBVIOUS
  <2>4. /\ CanSend(s) /\ Transmit(q, Data(n)) /\ pc = "flush"
        /\ UNCHANGED <<backlog, fd_owner, cstate, toServer>>
        /\ handed' = [handed EXCEPT ![q] = Append(@, n)]
    BY <1>2, <2>1, <2>2, <2>3 DEF Replay
  <2>5. n \in Message
    <3>1. flushing \in DOMAIN tcp_clients /\ tcp_clients[flushing].unreceived # <<>>
      BY <2>4 DEF Typed, HandlerHasWork, Replaying
    <3>2. QED
      BY <2>3, <3>1, TableEntries, HeadTailProperties DEF Typed
  <2>6. q \in Procs /\ Owns(q)
    <3>1. s \in Fds /\ fd_owner[s] # NoProc
      BY <2>4 DEF CanSend, Owner
    <3>2. QED
      BY <2>2, <3>1 DEF Owns, Typed, TypeOK
  <2>7. toClient' = toClient \/ toClient' = [toClient EXCEPT ![q] = Append(@, Data(n))]
    BY <2>4 DEF Transmit
  <2>8. \A p \in Procs : Said(p)
    BY <2>4, <2>5, <2>6, <2>7, DataMessage, TransmitSaid DEF Typed
  <2>9. QED
    BY <2>4, <2>8 DEF Serving, Shrinks
<1>3. QED
  BY <1>1, <1>2

(* A recv() while a handler waits. *)
LEMMA ReceiveShrinks ==
  ASSUME TypeOK, NEW q, Receive(q)
  PROVE  \A p \in Procs : Shrinks(toServer[p], toServer'[p])
<1>1. CASE toServer' = toServer
  BY <1>1 DEF Shrinks
<1>2. CASE toServer[q] # <<>> /\ toServer' = [toServer EXCEPT ![q] = Tail(@)]
  BY <1>2 DEF Shrinks, TypeOK
<1>3. QED
  BY <1>1, <1>2 DEF Receive

LEMMA WaitServes == ASSUME TypeOK, AwaitAck \/ AwaitGotIt PROVE Serving
<1>1. UNCHANGED <<backlog, fd_owner, cstate, toClient>>
  BY DEF AwaitAck, AwaitGotIt, client
<1>2. \E q : Receive(q)
  BY DEF AwaitAck, AwaitGotIt
<1>3. QED
  BY <1>1, <1>2, ReceiveShrinks, SaysNothing DEF Serving

(* Steps that do not touch connections at all. *)
LEMMA QuietServes ==
  ASSUME \/ Select \/ StoreOrSkip \/ \E t \in Topics : ReceiveDatagram(t)
         \/ \E i \in Fds : ReadNothing(i)
  PROVE  Serving /\ UNCHANGED <<backlog, fd_owner, cstate, toServer, toClient>>
<1>1. UNCHANGED <<backlog, fd_owner, cstate, toServer, toClient>>
  BY DEF Select, StoreOrSkip, ReceiveDatagram, ReadNothing, network, client
<1>2. QED
  BY <1>1, SaysNothing DEF Serving, Shrinks

(* Handlers that read a message and leave the connection open. *)
LEMMA ReadServes ==
  ASSUME TypeOK, NEW i \in Fds, NEW p \in Procs,
         \/ IgnoreGotIt(i, p) \/ Register(i, p) \/ Reconnect(i, p)
         \/ \E m \in Commands : Subscribe(i, p, m) \/ Unsubscribe(i, p, m)
  PROVE  Serving
<1>1. UNCHANGED <<backlog, fd_owner, cstate, toClient>> /\ toServer' = Consumed(p)
      /\ toServer[p] # <<>>
  BY DEF IgnoreGotIt, Register, Reconnect, Subscribe, Unsubscribe, client, Reads
<1>2. QED
  BY <1>1, ConsumedShrinks, SaysNothing DEF Serving

(* A client that leaves. *)
LEMMA LeaveCloses ==
  ASSUME TypeOK, NEW i \in Fds, NEW p \in Procs, Disconnect(i, p)
  PROVE  Serving \/ (Closing(i) /\ fd_owner[i] = p)
<1>1. /\ UNCHANGED <<backlog, cstate, toClient>>
      /\ fd_owner[i] = p /\ toServer[p] # <<>>
  BY DEF Disconnect, client, Reads
<1>2. CASE UNCHANGED fd_owner /\ toServer' = Consumed(p)
  BY <1>1, <1>2, ConsumedShrinks, SaysNothing DEF Serving
<1>3. CASE /\ fd_owner' = [fd_owner EXCEPT ![i] = NoProc]
           /\ toServer' = [toServer EXCEPT ![p] = <<>>]
  <2>1. toServer'[p] = <<>>
    BY <1>3 DEF TypeOK
  <2>2. \A q \in Procs : Shrinks(toServer[q], toServer'[q])
    BY <1>3, ConsumedShrinks
  <2>3. QED
    BY <1>1, <1>3, <2>1, <2>2, SaysNothing DEF Closing
<1>4. QED
  BY <1>2, <1>3 DEF Disconnect

(* A duplicate ID. *)
LEMMA RefuseCloses ==
  ASSUME TypeOK, NEW i \in Fds, NEW p \in Procs, RefuseDuplicate(i, p)
  PROVE  \/ Crash("died")
         \/ new_tcp_sockfd \in Fds /\ Closing(new_tcp_sockfd)
            /\ UNCHANGED tcp_clients
<1>1. CASE Crash("died")
  BY <1>1
<1>2. CASE ~Crash("died")
  <2>1. PICK q : q = Owner(new_tcp_sockfd)
    OBVIOUS
  <2>2. /\ CanSend(new_tcp_sockfd)
        /\ toServer' = [Consumed(p) EXCEPT ![q] = <<>>]
        /\ toClient' = IF link[q] = "open"
                       THEN [toClient EXCEPT ![q] = Append(@, CloseClient)]
                       ELSE toClient
        /\ fd_owner' = [fd_owner EXCEPT ![new_tcp_sockfd] = NoProc]
        /\ UNCHANGED <<tcp_clients, backlog, cstate>>
        /\ toServer[p] # <<>>
    BY <1>2, <2>1 DEF RefuseDuplicate, registry, client, Reads
  <2>3. new_tcp_sockfd \in Fds /\ q = fd_owner[new_tcp_sockfd] /\ q # NoProc
    BY <2>1, <2>2 DEF CanSend, Owner
  <2>4. q \in Procs /\ Owns(q)
    BY <2>3 DEF Owns, TypeOK
  <2>5. \A r \in Procs : Said(r)
    <3>1. CloseClient \in ClientMessages /\ CloseClient.kind \notin {"ID_CLIENT?", "data"}
      BY DEF ClientMessages, CloseClient
    <3>2. QED
      BY <2>2, <2>4, <3>1, TransmitSaid
  <2>6. toServer'[q] = <<>> /\ \A r \in Procs : Shrinks(toServer[r], toServer'[r])
    BY <2>2, <2>4 DEF Consumed, Shrinks, TypeOK
  <2>7. QED
    BY <2>2, <2>3, <2>4, <2>5, <2>6 DEF Closing
<1>3. QED
  BY <1>1, <1>2

-----------------------------------------------------------------------------
(* Processes. *)

LEMMA ConnectStarts == ASSUME NEW p \in Procs, Connect(p) PROVE Starting(p)
  BY DEF Connect, Starting, server

(* What send() does to the sender's queue and state. *)
LEMMA SendsActs ==
  ASSUME TypeOK, NEW p \in Procs, NEW m, cstate[p] = "running", Sends(p, m)
  PROVE  /\ UNCHANGED toServer \/ toServer' = [toServer EXCEPT ![p] = Append(@, m)]
         /\ \E c \in {"running", "done", "failed"} : cstate' = [cstate EXCEPT ![p] = c]
<1>1. cstate = [cstate EXCEPT ![p] = "running"]
  BY DEF TypeOK
<1>2. QED
  BY <1>1 DEF Sends

LEMMA TypeActs ==
  ASSUME TypeOK, NEW p \in Procs, NEW m \in Commands, TypeCommand(p, m)
  PROVE  Acting(p)
<1>1. /\ UNCHANGED <<backlog, fd_owner, tcp_clients, toClient>>
      /\ AtKeyboard(p) /\ cstate[p] = "running" /\ Sends(p, m)
  BY DEF TypeCommand, AtKeyboard, server, registry
<1>2. m \in ServerMessages /\ m.kind # "ID_CLIENT:" /\ m.kind # "disconnected."
  BY Kinds DEF ServerMessages
<1>3. m.kind = "subscribe" => m.topic \in asked'[p]
  BY DEF TypeCommand, TypeOK
<1>4. UNCHANGED toServer \/ \E x \in ServerMessages : Says(p, x)
  BY <1>1, <1>2, <1>3, SendsActs DEF Says
<1>5. \E c \in {"running", "done", "failed"} : cstate' = [cstate EXCEPT ![p] = c]
  BY <1>1, SendsActs
<1>6. QED
  BY <1>1, <1>4, <1>5 DEF Acting

LEMMA ExitActs == ASSUME TypeOK, NEW p \in Procs, Exit(p) PROVE Acting(p)
<1>1. /\ UNCHANGED <<backlog, fd_owner, tcp_clients>>
      /\ cstate[p] = "running" /\ p \in MayExit
      /\ toClient' = [toClient EXCEPT ![p] = <<>>]
      /\ \E c \in {"running", "done", "failed"} : cstate' = [cstate EXCEPT ![p] = c]
      /\ UNCHANGED toServer \/ toServer' = [toServer EXCEPT ![p] = Append(@, Bye)]
  BY DEF Exit, AtKeyboard, server, registry
<1>2. Bye \in ServerMessages /\ Bye.kind = "disconnected."
  BY DEF ServerMessages, Bye
<1>3. UNCHANGED toServer \/ \E x \in ServerMessages : Says(p, x)
  BY <1>1, <1>2 DEF Says
<1>4. QED
  BY <1>1, <1>3 DEF Acting

(* A process acts on the first message it has received, and drops more. *)
LEMMA GetsDrops ==
  ASSUME NEW p \in Procs, NEW m, Gets(p, m)
  PROVE  /\ cstate[p] = "running" /\ toClient[p] # <<>> /\ Head(toClient[p]) = m
         /\ Drops(p)
  BY DEF Gets, Drops

LEMMA AnswerActs == ASSUME TypeOK, NEW p \in Procs, AnswerId(p) PROVE Acting(p)
<1>1. /\ UNCHANGED <<backlog, fd_owner, tcp_clients>>
      /\ Gets(p, Ask) /\ Sends(p, IdReply(p))
  BY DEF AnswerId, server, registry
<1>2. IdReply(p) \in ServerMessages /\ IdReply(p).kind = "ID_CLIENT:"
  BY DEF ServerMessages, IdReply
<1>3. UNCHANGED toServer \/ \E x \in ServerMessages : Says(p, x)
  BY <1>1, <1>2, GetsDrops, SendsActs DEF Says
<1>4. \E c \in {"running", "done", "failed"} : cstate' = [cstate EXCEPT ![p] = c]
  BY <1>1, GetsDrops, SendsActs
<1>5. QED
  BY <1>1, <1>3, <1>4, GetsDrops DEF Acting

LEMMA PrintActs ==
  ASSUME TypeOK, NEW p \in Procs, NEW n \in Message, PrintMessage(p, n) PROVE Acting(p)
<1>1. /\ UNCHANGED <<backlog, fd_owner, tcp_clients>>
      /\ Gets(p, Data(n)) /\ Sends(p, GotIt)
  BY DEF PrintMessage, server, registry
<1>2. GotIt \in ServerMessages /\ GotIt.kind = "GOT_IT"
  BY DEF ServerMessages, GotIt
<1>3. UNCHANGED toServer \/ \E x \in ServerMessages : Says(p, x)
  BY <1>1, <1>2, GetsDrops, SendsActs DEF Says
<1>4. \E c \in {"running", "done", "failed"} : cstate' = [cstate EXCEPT ![p] = c]
  BY <1>1, GetsDrops, SendsActs
<1>5. QED
  BY <1>1, <1>3, <1>4, GetsDrops DEF Acting

LEMMA EndActs ==
  ASSUME NEW p \in Procs, CloseOnRequest(p) \/ ConnectionLost(p) PROVE Acting(p)
<1>1. CASE CloseOnRequest(p)
  BY <1>1, GetsDrops DEF CloseOnRequest, Acting, server, registry
<1>2. CASE ConnectionLost(p)
  BY <1>2 DEF ConnectionLost, Acting, server, registry
<1>3. QED
  BY <1>1, <1>2

LEMMA StillServes == ASSUME UNCHANGED vars PROVE Serving
  BY SaysNothing DEF Serving, Shrinks, vars, network, server, client

(* The five kinds of steps; the first three are the server's. *)
ServerActs == Serving \/ (\E f \in Fds : Closing(f))
              \/ (\E f \in Fds, p \in Procs : Accepting(f, p))
Event == ServerActs \/ \E p \in Procs : Starting(p) \/ Acting(p)

LEMMA InputEvents ==
  ASSUME TypeOK, NEW i \in Fds, HandleInput(i) PROVE ServerActs
<1>1. CASE ReadNothing(i)
  BY <1>1, QuietServes DEF ServerActs
<1>2. CASE ReadFails(i)
  BY <1>2, CrashServes DEF ServerActs, ReadFails
<1>3. ASSUME NEW p \in Procs,
             \/ IgnoreGotIt(i, p) \/ Register(i, p) \/ Reconnect(i, p)
             \/ \E m \in Commands : Subscribe(i, p, m) \/ Unsubscribe(i, p, m)
      PROVE  ServerActs
  BY <1>3, ReadServes DEF ServerActs
<1>4. ASSUME NEW p \in Procs,
             \/ ClientTableOverrun(i, p)
             \/ \E m \in Commands : SubscribeOverrun(i, p, m) \/ UnsubscribeUndefined(i, p, m)
      PROVE  ServerActs
  BY <1>4, CrashServes DEF ServerActs, ClientTableOverrun, SubscribeOverrun, UnsubscribeUndefined
<1>5. ASSUME NEW p \in Procs, Disconnect(i, p) PROVE ServerActs
  BY <1>5, LeaveCloses DEF ServerActs
<1>6. ASSUME NEW p \in Procs, RefuseDuplicate(i, p) PROVE ServerActs
  BY <1>6, RefuseCloses, CrashServes DEF ServerActs
<1>7. QED
  BY <1>1, <1>2, <1>3, <1>4, <1>5, <1>6 DEF HandleInput

LEMMA ServerEvent == ASSUME Typed, Server PROVE ServerActs
<1> TypeOK
  BY DEF Typed
<1>1. Select \/ StoreOrSkip \/ (\E t \in Topics : ReceiveDatagram(t)) => ServerActs
  BY QuietServes DEF ServerActs
<1>2. Accept => ServerActs
  BY AcceptAccepts DEF ServerActs
<1>3. StopServer => ServerActs
  BY StopServes DEF ServerActs
<1>4. AcceptFails \/ SendFails \/ FanOutUndefined
      \/ (\E t \in Topics : TopicTableOverrun(t)) => ServerActs
  BY CrashServes DEF ServerActs, AcceptFails, SendFails, FanOutUndefined, TopicTableOverrun
<1>5. SendToActive => ServerActs
  BY SendServes DEF ServerActs
<1>6. Replay => ServerActs
  BY ReplayIsServing DEF ServerActs
<1>7. AwaitAck \/ AwaitGotIt => ServerActs
  BY WaitServes DEF ServerActs
<1>8. (\E i \in Fds : HandleInput(i)) => ServerActs
  BY InputEvents
<1>9. QED
  BY <1>1, <1>2, <1>3, <1>4, <1>5, <1>6, <1>7, <1>8 DEF Server


LEMMA EventStep == ASSUME Typed, [Next]_vars PROVE Event
<1> TypeOK
  BY DEF Typed
<1>1. ASSUME NEW p \in Procs, ClientReads(p) PROVE Event
  BY <1>1, AnswerActs, EndActs, PrintActs DEF Event, ClientReads
<1>2. ASSUME NEW p \in Procs, User(p) PROVE Event
  BY <1>2, ConnectStarts, ExitActs, TypeActs DEF Event, User
<1>3. ASSUME Idle \/ UNCHANGED vars PROVE Event
  BY <1>3, StillServes DEF Event, ServerActs, Idle
<1>4. ASSUME Server PROVE Event
  BY <1>4, ServerEvent DEF Event
<1>5. QED
  BY <1>1, <1>2, <1>3, <1>4 DEF Next

-----------------------------------------------------------------------------
(* What becomes of queues, in those terms. *)

LEMMA OnceLater ==
  ASSUME NEW T, NEW t \in Seq(T), NEW s, NEW d \in Nat, Later(s, t, d),
         NEW kind, Once(s, kind)
  PROVE  Once(t, kind)
<1>1. DOMAIN t = 1 .. Len(t) /\ Len(t) \in Nat
  BY LenProperties
<1>2. ASSUME NEW x \in DOMAIN t, NEW y \in DOMAIN t, t[x].kind = kind, t[y].kind = kind
      PROVE  x = y
  <2>1. x + d = y + d
    BY <1>2 DEF Later, Once
  <2>2. x \in Nat /\ y \in Nat
    BY <1>1
  <2>3. QED
    BY <2>1, <2>2
<1>3. QED
  BY <1>2 DEF Once

LEMMA FirstLater ==
  ASSUME NEW T, NEW t \in Seq(T), NEW s, NEW d \in Nat \ {0}, Later(s, t, d),
         NEW kind, First(s, kind)
  PROVE  ~Holds(t, kind)
<1>1. DOMAIN t = 1 .. Len(t) /\ Len(t) \in Nat
  BY LenProperties
<1>2. ASSUME NEW x \in DOMAIN t, t[x].kind = kind PROVE FALSE
  <2>1. x + d = 1
    BY <1>2 DEF Later, First
  <2>2. x \in Nat \ {0}
    BY <1>1
  <2>3. QED
    BY <2>1, <2>2
<1>3. QED
  BY <1>2 DEF Holds

LEMMA AppendFirst ==
  ASSUME NEW T, NEW s \in Seq(T), NEW m \in T, NEW kind, First(s, kind), m.kind # kind
  PROVE  First(Append(s, m), kind)
<1>1. PICK t : t = Append(s, m)
  OBVIOUS
<1>2. PICK n : n = Len(s)
  OBVIOUS
<1>3. /\ DOMAIN t = 1 .. n + 1 /\ DOMAIN s = 1 .. n /\ n \in Nat /\ t[n + 1] = m
      /\ \A x \in 1 .. n : t[x] = s[x]
  BY <1>1, <1>2, AppendElements
<1>4. \A x : x \in 1 .. n + 1 <=> x \in 1 .. n \/ x = n + 1
  BY <1>3
<1>5. QED
  BY <1>1, <1>3, <1>4 DEF First

LEMMA AppendOnce ==
  ASSUME NEW T, NEW s \in Seq(T), NEW m \in T, NEW kind, Once(s, kind),
         m.kind = kind => ~Holds(s, kind)
  PROVE  Once(Append(s, m), kind)
<1>1. PICK t : t = Append(s, m)
  OBVIOUS
<1>2. PICK n : n = Len(s)
  OBVIOUS
<1>3. /\ DOMAIN t = 1 .. n + 1 /\ DOMAIN s = 1 .. n /\ n \in Nat /\ t[n + 1] = m
      /\ \A x \in 1 .. n : t[x] = s[x]
  BY <1>1, <1>2, AppendElements
<1>4. \A x : x \in 1 .. n + 1 <=> x \in 1 .. n \/ x = n + 1
  BY <1>3
<1>5. QED
  BY <1>1, <1>3, <1>4 DEF Once, Holds

(* A process whose queues are used and not filled anew. *)
Settled(p) ==
  /\ Holds(toClient'[p], "ID_CLIENT?") => Holds(toClient[p], "ID_CLIENT?")
  /\ First(toClient[p], "ID_CLIENT?") => First(toClient'[p], "ID_CLIENT?")
  /\ Holds(toServer'[p], "ID_CLIENT:") => Holds(toServer[p], "ID_CLIENT:")
  /\ Once(toServer[p], "ID_CLIENT:") => Once(toServer'[p], "ID_CLIENT:")

LEMMA SettledServer ==
  ASSUME TypeOK, NEW p \in Procs, Shrinks(toServer[p], toServer'[p]), NEW kind
  PROVE  /\ Holds(toServer'[p], kind) => Holds(toServer[p], kind)
         /\ Once(toServer[p], kind) => Once(toServer'[p], kind)
<1>1. PICK s \in Seq(ServerMessages) : s = toServer[p]
  BY DEF TypeOK
<1>2. PICK t : t = toServer'[p]
  OBVIOUS
<1>3. t \in Seq(ServerMessages) /\ \E d \in {0, 1} : Later(s, t, d)
  BY <1>1, <1>2, ShrinksLater
<1>4. PICK d \in {0, 1} : Later(s, t, d)
  BY <1>3
<1>5. d \in Nat
  BY <1>4
<1>6. Once(s, kind) => Once(t, kind)
  BY <1>3, <1>4, <1>5, OnceLater
<1>7. Holds(t, kind) => Holds(s, kind)
  BY <1>4, LaterHolds
<1>8. QED
  BY <1>1, <1>2, <1>6, <1>7

LEMMA SettledClient ==
  ASSUME TypeOK, NEW p \in Procs, Said(p)
  PROVE  /\ Holds(toClient'[p], "ID_CLIENT?") => Holds(toClient[p], "ID_CLIENT?")
         /\ First(toClient[p], "ID_CLIENT?") => First(toClient'[p], "ID_CLIENT?")
<1>1. CASE toClient'[p] = toClient[p]
  BY <1>1
<1>2. ASSUME NEW m \in ClientMessages, m.kind # "ID_CLIENT?",
             toClient'[p] = Append(toClient[p], m)
      PROVE  /\ Holds(toClient'[p], "ID_CLIENT?") => Holds(toClient[p], "ID_CLIENT?")
             /\ First(toClient[p], "ID_CLIENT?") => First(toClient'[p], "ID_CLIENT?")
  <2>1. toClient[p] \in Seq(ClientMessages)
    BY DEF TypeOK
  <2>2. Holds(Append(toClient[p], m), "ID_CLIENT?") => Holds(toClient[p], "ID_CLIENT?")
    BY <1>2, <2>1, AppendHolds
  <2>3. First(toClient[p], "ID_CLIENT?") => First(Append(toClient[p], m), "ID_CLIENT?")
    BY <1>2, <2>1, AppendFirst
  <2>4. QED
    BY <1>2, <2>2, <2>3
<1>3. QED
  BY <1>1, <1>2 DEF Said

LEMMA UsedSettled ==
  ASSUME TypeOK, NEW p \in Procs, Shrinks(toServer[p], toServer'[p]), Said(p)
  PROVE  Settled(p)
  BY SettledServer, SettledClient DEF Settled

(* A process that drops what it has read has been asked, if it was. *)
LEMMA NotHeldFirst == ASSUME NEW s, NEW kind, ~Holds(s, kind) PROVE First(s, kind)
  BY DEF Holds, First

LEMMA DropsSettled ==
  ASSUME TypeOK, NEW p \in Procs, Drops(p), First(toClient[p], "ID_CLIENT?")
  PROVE  ~Holds(toClient'[p], "ID_CLIENT?")
<1>1. PICK s \in Seq(ClientMessages) : s = toClient[p]
  BY DEF TypeOK
<1>2. PICK k \in 1 .. Len(s) : toClient' = [toClient EXCEPT ![p] = SubSeq(@, k + 1, Len(@))]
  BY <1>1 DEF Drops
<1>3. PICK t : t = SubSeq(s, k + 1, Len(s))
  OBVIOUS
<1>4. toClient'[p] = t
  BY <1>1, <1>2, <1>3 DEF TypeOK
<1>5. t \in Seq(ClientMessages) /\ Later(s, t, k)
  BY <1>3, DropsLater
<1>6. k \in Nat \ {0}
  BY <1>1, LenProperties
<1>7. ~Holds(t, "ID_CLIENT?")
  BY <1>1, <1>5, <1>6, FirstLater
<1>8. QED
  BY <1>4, <1>7

(* What a process does to its own two queues. *)
LEMMA ActingRead ==
  ASSUME TypeOK, NEW p \in Procs, Acting(p), First(toClient[p], "ID_CLIENT?")
  PROVE  /\ Holds(toClient'[p], "ID_CLIENT?") => Holds(toClient[p], "ID_CLIENT?")
         /\ First(toClient'[p], "ID_CLIENT?")
<1>1. CASE toClient' = toClient
  BY <1>1
<1>2. CASE toClient' = [toClient EXCEPT ![p] = <<>>]
  <2>1. toClient'[p] = <<>>
    BY <1>2 DEF TypeOK
  <2>2. ~Holds(<<>>, "ID_CLIENT?")
    BY EmptySeq DEF Holds
  <2>3. QED
    BY <2>1, <2>2, NotHeldFirst
<1>3. CASE Drops(p)
  BY <1>3, DropsSettled, NotHeldFirst
<1>4. QED
  BY <1>1, <1>2, <1>3 DEF Acting

LEMMA ActingWrite ==
  ASSUME TypeOK, NEW p \in Procs, Acting(p)
  PROVE  \/ toServer' = toServer
         \/ \E m \in ServerMessages : /\ Says(p, m)
                                      /\ toServer'[p] = Append(toServer[p], m)
                                      /\ toServer[p] \in Seq(ServerMessages)
<1>1. CASE UNCHANGED toServer
  BY <1>1
<1>2. ASSUME NEW m \in ServerMessages, Says(p, m)
      PROVE  toServer'[p] = Append(toServer[p], m) /\ toServer[p] \in Seq(ServerMessages)
  BY <1>2 DEF Says, TypeOK
<1>3. QED
  BY <1>1, <1>2 DEF Acting

(* It says who it is when it was asked, and was asked at the head only. *)
LEMMA AskedHead ==
  ASSUME TypeOK, NEW p \in Procs, toClient[p] # <<>>, Head(toClient[p]) = Ask
  PROVE  Holds(toClient[p], "ID_CLIENT?")
<1>1. PICK s \in Seq(ClientMessages) : s = toClient[p]
  BY DEF TypeOK
<1>2. 1 \in DOMAIN s /\ s[1] = Ask
  BY <1>1, EmptySeq, LenProperties, HeadTailProperties
<1>3. QED
  BY <1>1, <1>2, Kinds DEF Holds

LEMMA ActingSays ==
  ASSUME TypeOK, NEW p \in Procs, Acting(p), First(toClient[p], "ID_CLIENT?"),
         Holds(toClient[p], "ID_CLIENT?") => ~Holds(toServer[p], "ID_CLIENT:"),
         Once(toServer[p], "ID_CLIENT:")
  PROVE  /\ Once(toServer'[p], "ID_CLIENT:")
         /\ Holds(toClient'[p], "ID_CLIENT?") => ~Holds(toServer'[p], "ID_CLIENT:")
         /\ Holds(toServer'[p], "ID_CLIENT:") =>
              Holds(toServer[p], "ID_CLIENT:") \/ Holds(toClient[p], "ID_CLIENT?")
<1>1. CASE toServer' = toServer
  BY <1>1, ActingRead
<1>2. ASSUME NEW m \in ServerMessages, Says(p, m),
             toServer'[p] = Append(toServer[p], m),
             toServer[p] \in Seq(ServerMessages)
      PROVE  /\ Once(toServer'[p], "ID_CLIENT:")
             /\ Holds(toClient'[p], "ID_CLIENT?") => ~Holds(toServer'[p], "ID_CLIENT:")
             /\ Holds(toServer'[p], "ID_CLIENT:") =>
                  Holds(toServer[p], "ID_CLIENT:") \/ Holds(toClient[p], "ID_CLIENT?")
  <2>1. Holds(Append(toServer[p], m), "ID_CLIENT:")
          <=> Holds(toServer[p], "ID_CLIENT:") \/ m.kind = "ID_CLIENT:"
    BY <1>2, AppendHolds
  <2>2. CASE m.kind = "ID_CLIENT:"
    <3>1. toClient[p] # <<>> /\ Head(toClient[p]) = Ask /\ Drops(p)
      BY <1>2, <2>2 DEF Says
    <3>2. Holds(toClient[p], "ID_CLIENT?")
      BY <3>1, AskedHead
    <3>3. ~Holds(toClient'[p], "ID_CLIENT?")
      BY <3>1, DropsSettled
    <3>4. Once(Append(toServer[p], m), "ID_CLIENT:")
      BY <1>2, <3>2, AppendOnce
    <3>5. QED
      BY <1>2, <3>2, <3>3, <3>4
  <2>3. CASE m.kind # "ID_CLIENT:"
    <3>1. Once(Append(toServer[p], m), "ID_CLIENT:")
      BY <1>2, <2>3, AppendOnce
    <3>2. QED
      BY <1>2, <2>1, <2>3, <3>1, ActingRead
  <2>4. QED
    BY <2>2, <2>3
<1>3. QED
  BY <1>1, <1>2, ActingWrite

(* The others. *)
LEMMA ActingOthers ==
  ASSUME TypeOK, NEW p \in Procs, Acting(p), NEW q \in Procs, q # p
  PROVE  toClient'[q] = toClient[q] /\ toServer'[q] = toServer[q]
<1>1. toServer'[q] = toServer[q]
  BY DEF Acting, Says, TypeOK
<1>2. toClient'[q] = toClient[q]
  BY DEF Acting, Drops, TypeOK
<1>3. QED
  BY <1>1, <1>2

LEMMA ActingWaits ==
  ASSUME TypeOK, NEW p \in Procs, Acting(p), NEW q \in Procs
  PROVE  /\ cstate'[q] = "start" <=> cstate[q] = "start"
         /\ Waits(q)' <=> Waits(q)
<1>1. PICK c \in {"running", "done", "failed"} : cstate' = [cstate EXCEPT ![p] = c]
  BY DEF Acting
<1>2. cstate'[q] = "start" <=> cstate[q] = "start"
  BY <1>1 DEF Acting, TypeOK
<1>3. QED
  BY <1>2 DEF Waits, InSeq, Acting

-----------------------------------------------------------------------------
(* Connections is an invariant, and a process becomes known once. *)
KnownStays == \A p \in Procs : NotYet(p)' => NotYet(p)

(* The state of a process that waits to be accepted is kept when its queues *)
(* are: what the server says goes to processes that own a descriptor.       *)
LEMMA UsedKeeps ==
  ASSUME TypeOK, Connections, UNCHANGED <<backlog, cstate>>,
         \A p \in Procs : Shrinks(toServer[p], toServer'[p]) /\ Said(p),
         \A p \in Procs : Owns(p)' => Owns(p),
         OneDescriptor'
  PROVE  Connections' /\ KnownStays
<1>1. \A p \in Procs : (Waits(p)' <=> Waits(p))
  BY DEF Waits, InSeq
<1>2. BacklogOnce'
  BY DEF Connections, BacklogOnce, InSeq
<1>3. \A p \in Procs : Settled(p)
  BY UsedSettled
<1>4. ASSUME NEW p \in Procs, Waits(p)'
      PROVE  /\ ~Owns(p)' /\ toClient'[p] = <<>> /\ ~Holds(toServer'[p], "ID_CLIENT:")
  <2>1. ~Owns(p) /\ toClient[p] = <<>> /\ ~Holds(toServer[p], "ID_CLIENT:")
    BY <1>1, <1>4 DEF Connections, WaitsInSilence
  <2>2. QED
    BY <1>3, <2>1 DEF Said, Settled
<1>5. WaitsInSilence'
  BY <1>4 DEF WaitsInSilence
<1>6. AskedFirst' /\ AnswersOnce'
  BY <1>3 DEF Connections, AskedFirst, AnswersOnce, Settled
<1>7. KnownStays
  BY <1>1, <1>3 DEF KnownStays, NotYet, Settled
<1>8. QED
  BY <1>2, <1>5, <1>6, <1>7 DEF Connections

LEMMA ServingKeeps ==
  ASSUME TypeOK, Connections, Serving PROVE Connections' /\ KnownStays
<1>1. /\ UNCHANGED <<backlog, cstate, fd_owner>>
      /\ \A p \in Procs : Shrinks(toServer[p], toServer'[p]) /\ Said(p)
  BY DEF Serving
<1>2. (\A p \in Procs : Owns(p)' => Owns(p)) /\ OneDescriptor'
  BY <1>1 DEF Owns, OneDescriptor, Connections
<1>3. QED
  BY <1>1, <1>2, UsedKeeps

LEMMA ClosingKeeps ==
  ASSUME TypeOK, Connections, NEW f \in Fds, Closing(f)
  PROVE  Connections' /\ KnownStays
<1>1. /\ UNCHANGED <<backlog, cstate>>
      /\ fd_owner' = [fd_owner EXCEPT ![f] = NoProc]
      /\ \A p \in Procs : Shrinks(toServer[p], toServer'[p]) /\ Said(p)
  BY DEF Closing
<1>2. \A g \in Fds : fd_owner'[g] # NoProc => fd_owner'[g] = fd_owner[g]
  BY <1>1 DEF TypeOK
<1>3. \A p \in Procs : Owns(p)' => Owns(p)
  BY <1>2, ConstantsOK DEF Owns
<1>4. OneDescriptor'
  BY <1>2 DEF OneDescriptor, Connections
<1>5. QED
  BY <1>1, <1>3, <1>4, UsedKeeps

(* The head of the backlog waits, and no longer does. *)
LEMMA BacklogHead ==
  ASSUME TypeOK, BacklogOnce, backlog # <<>>, backlog' = Tail(backlog), UNCHANGED cstate,
         NEW q, q = Head(backlog)
  PROVE  /\ Waits(q) /\ ~Waits(q)'
         /\ BacklogOnce'
         /\ \A p \in Procs : Waits(p)' => Waits(p)
<1>1. PICK s \in Seq(Procs) : s = backlog
  BY DEF TypeOK
<1>2. PICK t : t = Tail(s)
  OBVIOUS
<1>3. /\ Len(s) \in Nat \ {0} /\ DOMAIN s = 1 .. Len(s) /\ Head(s) = s[1] /\ Head(s) \in Procs
      /\ t \in Seq(Procs) /\ Len(t) = Len(s) - 1
      /\ \A x \in 1 .. Len(t) : t[x] = s[x + 1]
  BY <1>1, <1>2, EmptySeq, LenProperties, HeadTailProperties
<1>4. DOMAIN t = 1 .. Len(s) - 1
  BY <1>3, LenProperties
<1>5. 1 \in DOMAIN s
  BY <1>3
<1>6. \A x \in DOMAIN t : x + 1 \in DOMAIN s /\ t[x] = s[x + 1] /\ x + 1 # 1 /\ x \in Nat
  BY <1>3, <1>4
<1>7. \A x, y \in DOMAIN s : s[x] = s[y] => x = y
  BY <1>1 DEF BacklogOnce
<1>8. \A x, y \in DOMAIN t : t[x] = t[y] => x = y
  <2>1. \A x, y \in DOMAIN t : t[x] = t[y] => x + 1 = y + 1
    BY <1>6, <1>7
  <2>2. QED
    BY <1>6, <2>1
<1>9. \A p : InSeq(p, t) => InSeq(p, s)
  BY <1>6 DEF InSeq
<1>10. ~InSeq(q, t)
  <2>1. \A x \in DOMAIN t : t[x] # s[1]
    BY <1>5, <1>6, <1>7
  <2>2. QED
    BY <1>1, <1>3, <2>1 DEF InSeq
<1>11. InSeq(q, s) /\ q \in Procs
  BY <1>1, <1>3, <1>5 DEF InSeq
<1>12. cstate[q] # "start"
  BY <1>1, <1>11 DEF BacklogOnce
<1>13. backlog' = t
  BY <1>1, <1>2
<1>14. Waits(q) /\ ~Waits(q)'
  BY <1>1, <1>10, <1>11, <1>12, <1>13 DEF Waits
<1>15. BacklogOnce'
  BY <1>1, <1>8, <1>9, <1>13 DEF BacklogOnce
<1>16. \A p \in Procs : Waits(p)' => Waits(p)
  BY <1>1, <1>9, <1>13 DEF Waits
<1>17. QED
  BY <1>14, <1>15, <1>16

LEMMA AcceptingKeeps ==
  ASSUME TypeOK, Connections, NEW f \in Fds, NEW p \in Procs, Accepting(f, p)
  PROVE  Connections' /\ KnownStays /\ Waits(p) /\ ~Waits(p)'
<1>1. /\ backlog # <<>> /\ p = Head(backlog) /\ backlog' = Tail(backlog)
      /\ fd_owner[f] = NoProc /\ fd_owner' = [fd_owner EXCEPT ![f] = p]
      /\ toClient' = toClient \/ toClient' = [toClient EXCEPT ![p] = Append(@, Ask)]
      /\ toServer' = toServer /\ cstate' = cstate
  BY DEF Accepting
<1>2. /\ Waits(p) /\ ~Waits(p)' /\ BacklogOnce'
      /\ \A q \in Procs : Waits(q)' => Waits(q)
  BY <1>1, BacklogHead DEF Connections
<1>3. ~Owns(p) /\ toClient[p] = <<>> /\ ~Holds(toServer[p], "ID_CLIENT:")
  BY <1>2 DEF Connections, WaitsInSilence
<1>4. \A q \in Procs : q # p => toClient'[q] = toClient[q] /\ (Owns(q)' => Owns(q))
  <2>1. \A q \in Procs : q # p => toClient'[q] = toClient[q]
    BY <1>1 DEF TypeOK
  <2>2. ASSUME NEW q \in Procs, q # p, Owns(q)' PROVE Owns(q)
    BY <1>1, <2>2 DEF Owns, TypeOK
  <2>3. QED
    BY <2>1, <2>2
<1>5. WaitsInSilence'
  BY <1>1, <1>2, <1>4 DEF Connections, WaitsInSilence
<1>6. OneDescriptor'
  <2>1. \A g \in Fds : fd_owner[g] # p
    BY <1>3 DEF Owns
  <2>2. \A g \in Fds : fd_owner'[g] = IF g = f THEN p ELSE fd_owner[g]
    BY <1>1 DEF TypeOK
  <2>3. QED
    BY <2>1, <2>2 DEF OneDescriptor, Connections
<1>7. First(toClient'[p], "ID_CLIENT?")
  <2>1. CASE toClient' = toClient
    BY <1>3, <2>1, EmptySeq DEF First
  <2>2. CASE toClient' = [toClient EXCEPT ![p] = Append(@, Ask)]
    <3>1. toClient'[p] = Append(<<>>, Ask)
      BY <1>3, <2>2 DEF TypeOK
    <3>2. Append(<<>>, Ask) = <<Ask>> /\ DOMAIN <<Ask>> = {1}
      OBVIOUS
    <3>3. QED
      BY <3>1, <3>2 DEF First
  <2>3. QED
    BY <1>1, <2>1, <2>2
<1>8. AskedFirst'
  BY <1>1, <1>3, <1>4, <1>7 DEF Connections, AskedFirst
<1>9. AnswersOnce'
  BY <1>1 DEF Connections, AnswersOnce
<1>10. KnownStays
  BY <1>1, <1>2, <1>4 DEF KnownStays, NotYet
<1>11. QED
  BY <1>2, <1>5, <1>6, <1>8, <1>9, <1>10 DEF Connections

LEMMA StartingKeeps ==
  ASSUME TypeOK, Connections, NEW p \in Procs, Starting(p)
  PROVE  Connections' /\ KnownStays
<1>1. /\ cstate[p] = "start"
      /\ \/ cstate' = [cstate EXCEPT ![p] = "running"] /\ backlog' = Append(backlog, p)
         \/ cstate' = [cstate EXCEPT ![p] = "failed"] /\ UNCHANGED backlog
      /\ fd_owner' = fd_owner /\ toServer' = toServer /\ toClient' = toClient
  BY DEF Starting
<1>2. ~InSeq(p, backlog)
  BY <1>1 DEF Connections, BacklogOnce
<1>3. PICK s \in Seq(Procs) : s = backlog
  BY DEF TypeOK
<1>4. PICK t : t = Append(s, p)
  OBVIOUS
<1>5. PICK n : n = Len(s)
  OBVIOUS
<1>6. /\ DOMAIN t = 1 .. n + 1 /\ DOMAIN s = 1 .. n /\ n \in Nat /\ t[n + 1] = p
      /\ \A x \in 1 .. n : t[x] = s[x]
  BY <1>4, <1>5, AppendElements
<1>7. \A x : x \in 1 .. n + 1 <=> x \in 1 .. n \/ x = n + 1
  BY <1>6
<1>8. \A q : InSeq(q, t) <=> InSeq(q, s) \/ q = p
  BY <1>6, <1>7 DEF InSeq
<1>9. \A x, y \in DOMAIN t : t[x] = t[y] => x = y
  BY <1>2, <1>3, <1>6, <1>7 DEF Connections, BacklogOnce, InSeq
<1>10. backlog' \in {s, t}
  BY <1>1, <1>3, <1>4
<1>11. \A q \in Procs : /\ cstate'[q] = "start" <=> cstate[q] = "start" /\ q # p
                        /\ InSeq(q, backlog') => InSeq(q, backlog) \/ q = p
  BY <1>1, <1>3, <1>8, <1>10 DEF TypeOK
<1>12. BacklogOnce'
  <2>1. \A x, y \in DOMAIN backlog' : backlog'[x] = backlog'[y] => x = y
    BY <1>3, <1>9, <1>10 DEF Connections, BacklogOnce
  <2>2. \A q \in Procs : cstate'[q] = "start" => ~InSeq(q, backlog')
    BY <1>11 DEF Connections, BacklogOnce
  <2>3. QED
    BY <2>1, <2>2 DEF BacklogOnce
<1>13. \A q \in Procs : Waits(q)' => Waits(q)
  BY <1>1, <1>11 DEF Waits
<1>14. WaitsInSilence' /\ OneDescriptor' /\ AskedFirst' /\ AnswersOnce'
  BY <1>1, <1>13 DEF Connections, WaitsInSilence, OneDescriptor, AskedFirst, AnswersOnce, Owns
<1>15. KnownStays
  BY <1>1, <1>13 DEF KnownStays, NotYet
<1>16. QED
  BY <1>12, <1>14, <1>15 DEF Connections

LEMMA ActingKeeps ==
  ASSUME TypeOK, Connections, NEW p \in Procs, Acting(p)
  PROVE  Connections' /\ KnownStays
<1>1. backlog' = backlog /\ fd_owner' = fd_owner
  BY DEF Acting
<1>2. \A q \in Procs : /\ cstate'[q] = "start" <=> cstate[q] = "start"
                       /\ Waits(q)' <=> Waits(q)
  BY ActingWaits
<1>3. \A q \in Procs : q # p => toClient'[q] = toClient[q] /\ toServer'[q] = toServer[q]
  BY ActingOthers
<1>4. /\ First(toClient[p], "ID_CLIENT?") /\ Once(toServer[p], "ID_CLIENT:")
      /\ Holds(toClient[p], "ID_CLIENT?") => ~Holds(toServer[p], "ID_CLIENT:")
  BY DEF Connections, AskedFirst, AnswersOnce
<1>5. /\ Holds(toClient'[p], "ID_CLIENT?") => Holds(toClient[p], "ID_CLIENT?")
      /\ First(toClient'[p], "ID_CLIENT?")
  BY <1>4, ActingRead
<1>6. /\ Once(toServer'[p], "ID_CLIENT:")
      /\ Holds(toClient'[p], "ID_CLIENT?") => ~Holds(toServer'[p], "ID_CLIENT:")
      /\ Holds(toServer'[p], "ID_CLIENT:") =>
           Holds(toServer[p], "ID_CLIENT:") \/ Holds(toClient[p], "ID_CLIENT?")
  BY <1>4, ActingSays
<1>7. BacklogOnce'
  BY <1>1, <1>2 DEF Connections, BacklogOnce, InSeq
<1>8. OneDescriptor'
  BY <1>1 DEF Connections, OneDescriptor
<1>9. WaitsInSilence'
  <2>1. ASSUME Waits(p)' PROVE toClient'[p] = <<>> /\ ~Holds(toServer'[p], "ID_CLIENT:")
    <3>1. toClient[p] = <<>> /\ ~Holds(toServer[p], "ID_CLIENT:")
      BY <1>2, <2>1 DEF Connections, WaitsInSilence
    <3>2. ~Holds(<<>>, "ID_CLIENT?")
      BY EmptySeq DEF Holds
    <3>3. ~Drops(p)
      <4>1. Len(toClient[p]) = 0
        BY <3>1, EmptySeq
      <4>2. 1 .. 0 = {}
        OBVIOUS
      <4>3. QED
        BY <4>1, <4>2 DEF Drops
    <3>4. toClient'[p] = <<>>
      BY <3>1, <3>3 DEF Acting, TypeOK
    <3>5. QED
      BY <1>6, <3>1, <3>2, <3>4
  <2>2. QED
    BY <1>1, <1>2, <1>3, <2>1 DEF Connections, WaitsInSilence, Owns
<1>10. AskedFirst' /\ AnswersOnce'
  BY <1>3, <1>5, <1>6 DEF Connections, AskedFirst, AnswersOnce
<1>11. KnownStays
  BY <1>2, <1>3, <1>5, <1>6 DEF KnownStays, NotYet
<1>12. QED
  BY <1>7, <1>8, <1>9, <1>10, <1>11 DEF Connections

LEMMA ConnectionsStep ==
  ASSUME Typed, Connections, [Next]_vars PROVE Connections' /\ KnownStays
<1>1. Event /\ TypeOK
  BY EventStep DEF Typed
<1>2. QED
  BY <1>1, ServingKeeps, ClosingKeeps, AcceptingKeeps, StartingKeeps, ActingKeeps DEF Event, ServerActs

LEMMA ConnectionsInit == ASSUME Init PROVE Connections
<1>1. \A kind : ~Holds(<<>>, kind) /\ First(<<>>, kind) /\ Once(<<>>, kind)
  BY EmptySeq DEF Holds, First, Once
<1>2. \A p \in Procs : toServer[p] = <<>> /\ toClient[p] = <<>> /\ ~Owns(p)
  BY ConstantsOK DEF Init, Owns
<1>3. backlog = <<>> /\ DOMAIN backlog = {}
  BY EmptySeq DEF Init
<1>4. BacklogOnce
  BY <1>3 DEF BacklogOnce, InSeq
<1>5. OneDescriptor
  BY DEF Init, OneDescriptor
<1>6. QED
  BY <1>1, <1>2, <1>4, <1>5 DEF Connections, WaitsInSilence, AskedFirst, AnswersOnce

(* What the kernel and the processes keep of a connection, always. *)
LEMMA AlwaysConnections == Spec => [](Typed /\ Connections)
<1>1. Init => Typed /\ Connections
  BY InitTyped, ConnectionsInit
<1>2. Typed /\ Connections /\ [Next]_vars => (Typed /\ Connections)'
  BY NextTyped, ConnectionsStep
<1>3. QED
  BY <1>1, <1>2, PTL DEF Spec

-----------------------------------------------------------------------------
(* What a step does to descriptors and to the entries that name them. *)

Closes(i, p) == RefuseDuplicate(i, p) /\ ~Crash("died")

LEMMA DescriptorsStep ==
  ASSUME Typed, [Next]_vars
  PROVE  \/ UNCHANGED fd_owner
         \/ UNCHANGED tcp_clients /\ \E f \in Fds, p \in Procs : Accepting(f, p)
         \/ UNCHANGED tcp_clients /\ \E i \in Fds, p \in Procs : Closes(i, p)
         \/ \E i \in Fds, p \in Procs : Disconnect(i, p)
<1>1. CASE UNCHANGED server
  BY <1>1 DEF server
<1>2. CASE Server
  <2>1. CASE Crash("died") \/ Crash("undefined") \/ StopServer
    BY <2>1 DEF Crash, Halt, StopServer
  <2>2. CASE Select \/ SendToActive \/ AwaitAck \/ Replay \/ StoreOrSkip \/ AwaitGotIt
    BY <2>1, <2>2 DEF Select, SendToActive, AwaitAck, Replay, StoreOrSkip, AwaitGotIt
  <2>3. CASE Accept
    BY <2>3, AcceptAccepts DEF Accept, registry
  <2>4. CASE \E t \in Topics : ReceiveDatagram(t)
    BY <2>4 DEF ReceiveDatagram
  <2>5. ASSUME NEW i \in Fds, NEW p \in Procs, RefuseDuplicate(i, p), ~Crash("died")
        PROVE  UNCHANGED tcp_clients /\ Closes(i, p)
    BY <2>5 DEF RefuseDuplicate, registry, Closes
  <2>6. ASSUME NEW i \in Fds, NEW p \in Procs,
               \/ Register(i, p) \/ Reconnect(i, p) \/ IgnoreGotIt(i, p)
               \/ \E m \in Commands : Subscribe(i, p, m) \/ Unsubscribe(i, p, m)
        PROVE  UNCHANGED fd_owner
    BY <2>6 DEF Register, Reconnect, IgnoreGotIt, Subscribe, Unsubscribe
  <2>7. ASSUME NEW i \in Fds, ReadNothing(i) PROVE UNCHANGED fd_owner
    BY <2>7 DEF ReadNothing
  <2>8. \/ Select \/ Accept \/ SendToActive \/ AwaitAck \/ Replay \/ StopServer
        \/ \E t \in Topics : ReceiveDatagram(t)
        \/ StoreOrSkip \/ AwaitGotIt \/ \E i \in Fds : HandleInput(i)
        \/ Crash("died") \/ Crash("undefined")
    BY <1>2 DEF Server, AcceptFails, SendFails, FanOutUndefined, TopicTableOverrun
  <2>9. ASSUME NEW i \in Fds, HandleInput(i)
        PROVE \/ ReadNothing(i)
              \/ \E p \in Procs :
                   \/ IgnoreGotIt(i, p) \/ Register(i, p) \/ RefuseDuplicate(i, p)
                   \/ Reconnect(i, p) \/ Disconnect(i, p)
                   \/ \E m \in Commands : Subscribe(i, p, m) \/ Unsubscribe(i, p, m)
              \/ Crash("died") \/ Crash("undefined")
    BY <2>9 DEF HandleInput, ReadFails, ClientTableOverrun, SubscribeOverrun,
       UnsubscribeUndefined
  <2>10. QED
    BY <2>1, <2>2, <2>3, <2>4, <2>5, <2>6, <2>7, <2>8, <2>9
<1>3. QED
  BY <1>1, <1>2, OutsideStep DEF Next

(* An entry without its stored messages. *)
Face(e) == <<e.id, e.is_active, e.current_socket>>
SameFaces ==
  /\ DOMAIN tcp_clients' = DOMAIN tcp_clients
  /\ \A k \in DOMAIN tcp_clients : Face(tcp_clients'[k]) = Face(tcp_clients[k])

LEMMA UnreceivedOnly ==
  ASSUME TypeOK, NEW k, NEW v,
         tcp_clients' = [tcp_clients EXCEPT ![k] = [tcp_clients[k] EXCEPT !.unreceived = v]]
  PROVE  SameFaces
<1>1. tcp_clients \in Seq(ClientEntry)
  BY DEF TypeOK
<1>2. tcp_clients \in [DOMAIN tcp_clients -> ClientEntry]
  BY <1>1, LenProperties
<1>3. \A e \in ClientEntry : Face([e EXCEPT !.unreceived = v]) = Face(e)
  BY DEF ClientEntry, Face
<1>4. QED
  BY <1>2, <1>3 DEF SameFaces

LEMMA FacesStep ==
  ASSUME Typed, [Next]_vars
  PROVE  \/ SameFaces
         \/ \E i \in Fds, p \in Procs : Register(i, p) \/ Reconnect(i, p) \/ Disconnect(i, p)
<1>1. CASE UNCHANGED tcp_clients
  BY <1>1 DEF SameFaces
<1>2. CASE StoreOrSkip
  <2>1. CASE UNCHANGED tcp_clients
    BY <1>1, <2>1
  <2>2. CASE tcp_clients' = [tcp_clients EXCEPT ![Addressee].unreceived =
                               Append(@, Len(published))]
    BY <2>2, UnreceivedOnly DEF Typed
  <2>3. QED
    BY <1>2, <2>1, <2>2 DEF StoreOrSkip
<1>3. CASE AwaitGotIt
  <2>1. CASE tcp_clients' = [tcp_clients EXCEPT ![flushing].unreceived = Unanswered(flushing)]
    BY <2>1, UnreceivedOnly DEF Typed
  <2>2. QED
    BY <1>1, <1>3, <2>1 DEF AwaitGotIt
<1>4. QED
  BY <1>1, <1>2, <1>3, TablesStep DEF ChangesClients

-----------------------------------------------------------------------------
(* The socket of a connected entry is its own. *)

(* The process whose ID the server has just read is known from then on. *)
LEMMA Heard ==
  ASSUME TypeOK, Connections, NEW i, NEW p \in Procs, Reads(i, p, IdReply(p))
  PROVE  /\ NotYet(p)
         /\ toServer' = Consumed(p) /\ UNCHANGED <<backlog, cstate, toClient>> => ~NotYet(p)'
<1>1. PICK s \in Seq(ServerMessages) : s = toServer[p]
  BY DEF TypeOK
<1>2. i \in Fds /\ p = fd_owner[i] /\ s # <<>> /\ Head(s) = IdReply(p)
  BY <1>1 DEF Reads
<1>3. Head(s).kind = "ID_CLIENT:" /\ Once(s, "ID_CLIENT:")
  BY <1>1, <1>2, Kinds DEF Connections, AnswersOnce
<1>4. Holds(s, "ID_CLIENT:") /\ ~Holds(Tail(s), "ID_CLIENT:")
  BY <1>2, <1>3, HeadGone
<1>5. ~Waits(p) /\ ~Holds(toClient[p], "ID_CLIENT?")
  BY <1>1, <1>2, <1>4 DEF Connections, WaitsInSilence, AskedFirst, Owns
<1>6. ASSUME toServer' = Consumed(p) /\ UNCHANGED <<backlog, cstate, toClient>>
      PROVE  ~NotYet(p)'
  <2>1. toServer'[p] = Tail(s)
    BY <1>1, <1>6 DEF Consumed, TypeOK
  <2>2. ~Waits(p)'
    BY <1>5, <1>6 DEF Waits, InSeq
  <2>3. QED
    BY <1>4, <1>5, <1>6, <2>1, <2>2 DEF NotYet
<1>7. QED
  BY <1>1, <1>4, <1>6 DEF NotYet

(* After the step every connected entry was one before, with the same ID and *)
(* the same process behind it, or it is that of a process just heard.        *)
Behind(k) == Owner(tcp_clients[k].current_socket)
WasThere(k) ==
  /\ k \in DOMAIN tcp_clients /\ tcp_clients[k].is_active = 1
  /\ tcp_clients'[k].id = tcp_clients[k].id /\ Behind(k)' = Behind(k)
IsNew(k, p) == tcp_clients'[k].id = IdOf[p] /\ Behind(k)' = p /\ ~NotYet(p)'

LEMMA OwnAfter ==
  ASSUME SocketsOwn, UnknownApart, KnownStays,
         \A k \in DOMAIN tcp_clients' : tcp_clients'[k].is_active = 1 =>
           WasThere(k) \/ \E p \in Procs : IsNew(k, p)
  PROVE  SocketsOwn' /\ UnknownApart'
<1>1. ASSUME NEW k \in DOMAIN tcp_clients', tcp_clients'[k].is_active = 1
      PROVE  Behind(k)' # NoProc /\ IdOf[Behind(k)'] = tcp_clients'[k].id
  <2>1. CASE WasThere(k)
    BY <2>1 DEF WasThere, SocketsOwn, Behind
  <2>2. ASSUME NEW p \in Procs, IsNew(k, p)
        PROVE  Behind(k)' # NoProc /\ IdOf[Behind(k)'] = tcp_clients'[k].id
    BY <2>2, ConstantsOK DEF IsNew
  <2>3. QED
    BY <1>1, <2>1, <2>2
<1>2. SocketsOwn'
  BY <1>1 DEF SocketsOwn, Behind
<1>3. ASSUME NEW q \in Procs, NotYet(q)', Announced(q)' PROVE FALSE
  <2>1. NotYet(q) /\ ~Announced(q)
    BY <1>3 DEF KnownStays, UnknownApart
  <2>2. PICK k \in DOMAIN tcp_clients' : tcp_clients'[k].is_active = 1 /\ Behind(k)' = q
    BY <1>3 DEF Announced, Behind
  <2>3. ~WasThere(k)
    BY <2>1, <2>2 DEF WasThere, Announced, Behind
  <2>4. \A p \in Procs : ~IsNew(k, p)
    BY <1>3, <2>2 DEF IsNew
  <2>5. QED
    BY <2>2, <2>3, <2>4
<1>4. UnknownApart'
  BY <1>3 DEF UnknownApart
<1>5. QED
  BY <1>2, <1>4

(* Steps that leave the entries' faces alone. *)
LEMMA FacesOwn ==
  ASSUME SocketsOwn, UnknownApart, KnownStays, SameFaces,
         \A k \in DOMAIN tcp_clients : tcp_clients[k].is_active = 1 =>
           LET f == tcp_clients[k].current_socket IN fd_owner'[f] = fd_owner[f]
  PROVE  SocketsOwn' /\ UnknownApart'
<1>1. ASSUME NEW k \in DOMAIN tcp_clients', tcp_clients'[k].is_active = 1
      PROVE  WasThere(k)
  <2>1. /\ k \in DOMAIN tcp_clients /\ tcp_clients[k].is_active = 1
        /\ tcp_clients'[k].id = tcp_clients[k].id
        /\ tcp_clients'[k].current_socket = tcp_clients[k].current_socket
    BY <1>1 DEF SameFaces, Face
  <2>2. QED
    BY <2>1 DEF WasThere, Behind, Owner
<1>2. QED
  BY <1>1, OwnAfter

LEMMA AcceptingOwn ==
  ASSUME SocketsOwn, UnknownApart, KnownStays, TypeOK, UNCHANGED tcp_clients,
         NEW f \in Fds, NEW p \in Procs, Accepting(f, p)
  PROVE  SocketsOwn' /\ UnknownApart'
<1>1. fd_owner[f] = NoProc /\ fd_owner' = [fd_owner EXCEPT ![f] = p]
  BY DEF Accepting
<1>2. ASSUME NEW k \in DOMAIN tcp_clients, tcp_clients[k].is_active = 1
      PROVE  tcp_clients[k].current_socket \in Fds \ {f}
  BY <1>1, <1>2 DEF SocketsOwn, Owner
<1>3. ASSUME NEW k \in DOMAIN tcp_clients, tcp_clients[k].is_active = 1
      PROVE  fd_owner'[tcp_clients[k].current_socket] = fd_owner[tcp_clients[k].current_socket]
  <2>1. tcp_clients[k].current_socket \in Fds \ {f}
    BY <1>2, <1>3
  <2>2. QED
    BY <1>1, <2>1 DEF TypeOK
<1>4. SameFaces
  BY DEF SameFaces
<1>5. QED
  BY <1>3, <1>4, FacesOwn

(* The connection that is closed for a duplicate ID is the one that sent it. *)
LEMMA ClosesOwn ==
  ASSUME SocketsOwn, UnknownApart, KnownStays, TypeOK, Connections, RefusesLast,
         UNCHANGED tcp_clients, NEW i \in Fds, NEW p \in Procs, Closes(i, p)
  PROVE  SocketsOwn' /\ UnknownApart'
<1>1. /\ Reads(i, p, IdReply(p)) /\ fd_owner[i] = p
      /\ \E k \in EntriesWithId(IdOf[p]) : tcp_clients[k].is_active = 1
      /\ fd_owner' = [fd_owner EXCEPT ![new_tcp_sockfd] = NoProc]
  BY DEF Closes, RefuseDuplicate, IsFirst, Reads
<1>2. new_tcp_sockfd = i
  BY <1>1 DEF RefusesLast
<1>3. ~Announced(p)
  BY <1>1, Heard DEF UnknownApart
<1>4. ASSUME NEW k \in DOMAIN tcp_clients, tcp_clients[k].is_active = 1
      PROVE  tcp_clients[k].current_socket \in Fds \ {i}
  BY <1>1, <1>3, <1>4 DEF SocketsOwn, Owner, Announced
<1>5. ASSUME NEW k \in DOMAIN tcp_clients, tcp_clients[k].is_active = 1
      PROVE  fd_owner'[tcp_clients[k].current_socket] = fd_owner[tcp_clients[k].current_socket]
  <2>1. tcp_clients[k].current_socket \in Fds \ {i}
    BY <1>4, <1>5
  <2>2. QED
    BY <1>1, <1>2, <2>1 DEF TypeOK
<1>6. SameFaces
  BY DEF SameFaces
<1>7. QED
  BY <1>5, <1>6, FacesOwn

(* A client that leaves takes the only connected entry with its socket. *)
LEMMA DisconnectOwn ==
  ASSUME SocketsOwn, UnknownApart, KnownStays, TypeOK, SocketsApart,
         NEW i \in Fds, NEW p \in Procs, Disconnect(i, p)
  PROVE  SocketsOwn' /\ UnknownApart'
<1>1. CASE UNCHANGED <<tcp_clients, fd_owner>>
  <2>1. SameFaces
    BY <1>1 DEF SameFaces
  <2>2. QED
    BY <1>1, <2>1, FacesOwn
<1>2. ASSUME NEW k \in DOMAIN tcp_clients, IsFirst(k, EntriesAt(i)),
             tcp_clients' = Deactivated(k), fd_owner' = [fd_owner EXCEPT ![i] = NoProc]
      PROVE  SocketsOwn' /\ UnknownApart'
  <2>1. tcp_clients \in [DOMAIN tcp_clients -> ClientEntry]
    <3>1. tcp_clients \in Seq(ClientEntry)
      BY DEF TypeOK
    <3>2. QED
      BY <3>1, LenProperties
  <2>2. tcp_clients[k].current_socket = i
    BY <1>2 DEF IsFirst, EntriesAt
  <2>3. DOMAIN tcp_clients' = DOMAIN tcp_clients /\ tcp_clients'[k].is_active = 0
        /\ \A j \in DOMAIN tcp_clients : j # k => tcp_clients'[j] = tcp_clients[j]
    BY <1>2, <2>1 DEF Deactivated, ClientEntry
  <2>4. ASSUME NEW j \in DOMAIN tcp_clients', tcp_clients'[j].is_active = 1
        PROVE  WasThere(j)
    <3>1. j # k /\ j \in DOMAIN tcp_clients /\ tcp_clients'[j] = tcp_clients[j]
      BY <2>3, <2>4
    <3>2. tcp_clients[j].current_socket # i
      BY <2>2, <2>4, <3>1 DEF SocketsApart
    <3>3. \A g : g # i => Owner(g)' = Owner(g)
      BY <1>2 DEF Owner, TypeOK
    <3>4. QED
      BY <2>4, <3>1, <3>2, <3>3 DEF WasThere, Behind
  <2>5. QED
    BY <2>4, OwnAfter
<1>3. QED
  BY <1>1, <1>2 DEF Disconnect

(* A client that says who it is gets an entry with its own socket. *)
LEMMA RegisterOwn ==
  ASSUME SocketsOwn, UnknownApart, KnownStays, TypeOK, Connections,
         NEW i \in Fds, NEW p \in Procs, Register(i, p) \/ Reconnect(i, p)
  PROVE  SocketsOwn' /\ UnknownApart'
<1>1. /\ Reads(i, p, IdReply(p)) /\ p = fd_owner[i]
      /\ toServer' = Consumed(p) /\ fd_owner' = fd_owner
      /\ UNCHANGED <<backlog, cstate, toClient>>
  BY DEF Register, Reconnect, Reads, client
<1>2. ~NotYet(p)'
  BY <1>1, Heard
<1>3. PICK s \in Seq(ClientEntry) : s = tcp_clients
  BY DEF TypeOK
<1>4. s \in [DOMAIN s -> ClientEntry] /\ DOMAIN s = 1 .. Len(s) /\ Len(s) \in Nat
  BY LenProperties
<1>5. CASE Register(i, p)
  <2>1. PICK e : e = NewEntry(i, p)
    OBVIOUS
  <2>2. e \in ClientEntry /\ e.id = IdOf[p] /\ e.current_socket = i
    BY <2>1, EmptySeq DEF NewEntry, ClientEntry, Ids
  <2>3. tcp_clients' = Append(s, e)
    BY <1>3, <1>5, <2>1 DEF Register
  <2>4. PICK n : n = Len(s)
    OBVIOUS
  <2>5. /\ DOMAIN tcp_clients' = 1 .. n + 1 /\ DOMAIN s = 1 .. n /\ n \in Nat
        /\ tcp_clients'[n + 1] = e
        /\ \A x \in 1 .. n : tcp_clients'[x] = s[x]
    BY <2>2, <2>3, <2>4, AppendElements
  <2>6. \A x : x \in 1 .. n + 1 <=> x \in 1 .. n \/ x = n + 1
    BY <2>5
  <2>7. ASSUME NEW k \in DOMAIN tcp_clients', tcp_clients'[k].is_active = 1
        PROVE  WasThere(k) \/ IsNew(k, p)
    <3>1. CASE k \in 1 .. n
      BY <1>1, <1>3, <2>5, <2>7, <3>1 DEF WasThere, Behind, Owner
    <3>2. CASE k = n + 1
      BY <1>1, <1>2, <2>2, <2>5, <3>2 DEF IsNew, Behind, Owner
    <3>3. QED
      BY <2>5, <2>6, <3>1, <3>2
  <2>8. QED
    BY <2>7, OwnAfter
<1>6. CASE Reconnect(i, p)
  <2>1. PICK k \in DOMAIN tcp_clients :
          /\ IsFirst(k, EntriesWithId(IdOf[p]))
          /\ tcp_clients' = [tcp_clients EXCEPT ![k].is_active = 1,
                                                ![k].current_socket = i]
    BY <1>6 DEF Reconnect
  <2>2. s[k].id = IdOf[p]
    BY <1>3, <2>1 DEF IsFirst, EntriesWithId
  <2>3. /\ DOMAIN tcp_clients' = DOMAIN s
        /\ tcp_clients'[k].id = IdOf[p] /\ tcp_clients'[k].current_socket = i
        /\ \A j \in DOMAIN s : j # k => tcp_clients'[j] = s[j]
    BY <1>3, <1>4, <2>1, <2>2 DEF ClientEntry
  <2>4. ASSUME NEW j \in DOMAIN tcp_clients', tcp_clients'[j].is_active = 1
        PROVE  WasThere(j) \/ IsNew(j, p)
    <3>1. CASE j # k
      BY <1>1, <1>3, <2>3, <2>4, <3>1 DEF WasThere, Behind, Owner
    <3>2. CASE j = k
      BY <1>1, <1>2, <2>3, <3>2 DEF IsNew, Behind, Owner
    <3>3. QED
      BY <3>1, <3>2
  <2>5. QED
    BY <2>4, OwnAfter
<1>7. QED
  BY <1>5, <1>6

LEMMA OwnStep ==
  ASSUME Typed, Connections, SocketsOwn, UnknownApart, Orderly, [Next]_vars
  PROVE  SocketsOwn' /\ UnknownApart'
<1>1. TypeOK /\ KnownStays /\ SocketsApart /\ RefusesLast
  BY ConnectionsStep DEF Typed, Orderly
<1>2. ASSUME NEW i \in Fds, NEW p \in Procs, Register(i, p) \/ Reconnect(i, p)
      PROVE  SocketsOwn' /\ UnknownApart'
  BY <1>1, <1>2, RegisterOwn
<1>3. ASSUME NEW i \in Fds, NEW p \in Procs, Disconnect(i, p)
      PROVE  SocketsOwn' /\ UnknownApart'
  BY <1>1, <1>3, DisconnectOwn
<1>4. ASSUME UNCHANGED tcp_clients, NEW i \in Fds, NEW p \in Procs, Closes(i, p)
      PROVE  SocketsOwn' /\ UnknownApart'
  BY <1>1, <1>4, ClosesOwn
<1>5. ASSUME UNCHANGED tcp_clients, NEW f \in Fds, NEW p \in Procs, Accepting(f, p)
      PROVE  SocketsOwn' /\ UnknownApart'
  BY <1>1, <1>5, AcceptingOwn
<1>6. ASSUME SameFaces, UNCHANGED fd_owner PROVE SocketsOwn' /\ UnknownApart'
  BY <1>1, <1>6, FacesOwn
<1>7. QED
  BY <1>2, <1>3, <1>4, <1>5, <1>6, FacesStep, DescriptorsStep

LEMMA OwnInit == ASSUME Init PROVE SocketsOwn /\ UnknownApart
<1>1. DOMAIN tcp_clients = {}
  BY EmptySeq DEF Init
<1>2. QED
  BY <1>1 DEF SocketsOwn, UnknownApart, Announced

(* While descriptors are not taken over from entries that still name them,  *)
(* and the connection refused is the one that sent the duplicate ID, every  *)
(* connected entry has the socket of a process with its ID: server.c sends  *)
(* each message to the right client.                                        *)
THEOREM SocketsAreOwn == Spec /\ []Orderly => []ActiveSocketIsOwn
<1>1. Init => Typed /\ Connections /\ SocketsOwn /\ UnknownApart
  BY InitTyped, ConnectionsInit, OwnInit
<1>2. Typed /\ Connections /\ SocketsOwn /\ UnknownApart /\ Orderly /\ [Next]_vars
        => (Typed /\ Connections /\ SocketsOwn /\ UnknownApart)'
  BY NextTyped, ConnectionsStep, OwnStep
<1>3. SocketsOwn => ActiveSocketIsOwn
  BY DEF SocketsOwn, ActiveSocketIsOwn
<1>4. QED
  BY <1>1, <1>2, <1>3, PTL DEF Spec

-----------------------------------------------------------------------------
(* When nobody leaves and no two processes share an ID, nothing of the kind *)
(* happens: every client keeps the descriptor it has got.                   *)
NobodyLeaves == MayExit = {}
IdsDiffer == \A p, q \in Procs : IdOf[p] = IdOf[q] => p = q

AllConnected == \A k \in DOMAIN tcp_clients : tcp_clients[k].is_active = 1
NoGoodbyes == \A p \in Procs : ~Holds(toServer[p], "disconnected.")

LEMMA NoGoodbyesStep ==
  ASSUME Typed, NobodyLeaves, NoGoodbyes, [Next]_vars PROVE NoGoodbyes'
<1>1. ASSUME NEW p \in Procs, Shrinks(toServer[p], toServer'[p])
      PROVE  ~Holds(toServer'[p], "disconnected.")
  BY <1>1, SettledServer DEF Typed, NoGoodbyes
<1>2. CASE Serving \/ \E f \in Fds : Closing(f)
  BY <1>1, <1>2 DEF Serving, Closing, NoGoodbyes
<1>3. CASE (\E f \in Fds, p \in Procs : Accepting(f, p)) \/ \E p \in Procs : Starting(p)
  BY <1>3 DEF Accepting, Starting, NoGoodbyes
<1>4. ASSUME NEW p \in Procs, Acting(p) PROVE NoGoodbyes'
  <2>1. CASE toServer' = toServer
    BY <2>1 DEF NoGoodbyes
  <2>2. ASSUME NEW m \in ServerMessages, Says(p, m),
               toServer'[p] = Append(toServer[p], m),
               toServer[p] \in Seq(ServerMessages)
        PROVE  NoGoodbyes'
    <3>1. m.kind # "disconnected."
      BY <2>2 DEF Says, NobodyLeaves
    <3>2. ~Holds(Append(toServer[p], m), "disconnected.")
      BY <2>2, <3>1, AppendHolds DEF NoGoodbyes
    <3>3. \A q \in Procs : q # p => toServer'[q] = toServer[q]
      BY <1>4, ActingOthers DEF Typed
    <3>4. QED
      BY <2>2, <3>2, <3>3 DEF NoGoodbyes
  <2>3. QED
    BY <1>4, <2>1, <2>2, ActingWrite DEF Typed
<1>5. QED
  BY <1>2, <1>3, <1>4, EventStep DEF Event, ServerActs

LEMMA NoDisconnect ==
  ASSUME TypeOK, NoGoodbyes, NEW i \in Fds, NEW p \in Procs, Disconnect(i, p) PROVE FALSE
<1>1. PICK s \in Seq(ServerMessages) : s = toServer[p]
  BY DEF TypeOK
<1>2. s # <<>> /\ Head(s) = Bye
  BY <1>1 DEF Disconnect, Reads
<1>3. 1 \in DOMAIN s /\ s[1] = Bye
  BY <1>2, EmptySeq, LenProperties, HeadTailProperties
<1>4. QED
  BY <1>1, <1>3, Kinds DEF NoGoodbyes, Holds

LEMMA AllConnectedStep ==
  ASSUME Typed, NoGoodbyes, AllConnected, [Next]_vars PROVE AllConnected'
<1>1. CASE SameFaces
  BY <1>1 DEF AllConnected, SameFaces, Face
<1>2. ASSUME NEW i \in Fds, NEW p \in Procs, Disconnect(i, p) PROVE FALSE
  BY <1>2, NoDisconnect DEF Typed
<1>3. PICK s \in Seq(ClientEntry) : s = tcp_clients
  BY DEF Typed, TypeOK
<1>4. s \in [DOMAIN s -> ClientEntry]
  BY LenProperties
<1>5. ASSUME NEW i \in Fds, NEW p \in Procs, Register(i, p) PROVE AllConnected'
  <2>1. PICK e : e = NewEntry(i, p)
    OBVIOUS
  <2>2. e \in ClientEntry /\ e.is_active = 1
    BY <2>1, EmptySeq DEF NewEntry, ClientEntry, Ids
  <2>3. tcp_clients' = Append(s, e)
    BY <1>3, <1>5, <2>1 DEF Register
  <2>4. PICK n : n = Len(s)
    OBVIOUS
  <2>5. /\ DOMAIN tcp_clients' = 1 .. n + 1 /\ DOMAIN s = 1 .. n /\ n \in Nat
        /\ tcp_clients'[n + 1] = e
        /\ \A x \in 1 .. n : tcp_clients'[x] = s[x]
    BY <2>2, <2>3, <2>4, AppendElements
  <2>6. \A x : x \in 1 .. n + 1 <=> x \in 1 .. n \/ x = n + 1
    BY <2>5
  <2>7. QED
    BY <1>3, <2>2, <2>5, <2>6 DEF AllConnected
<1>6. ASSUME NEW i \in Fds, NEW p \in Procs, Reconnect(i, p) PROVE AllConnected'
  <2>1. PICK k \in DOMAIN tcp_clients :
          tcp_clients[k].is_active = 0 /\ IsFirst(k, EntriesWithId(IdOf[p]))
    BY <1>6 DEF Reconnect
  <2>2. QED
    BY <2>1 DEF AllConnected
<1>7. QED
  BY <1>1, <1>2, <1>5, <1>6, FacesStep

LEMMA OrderlyStay ==
  ASSUME TypeOK, Connections, SocketsOwn, UnknownApart, AllConnected,
         RegistryIdsUnique, IdsDiffer
  PROVE  Orderly
<1>1. SocketsApart
  <2>1. ASSUME NEW j \in DOMAIN tcp_clients, NEW k \in DOMAIN tcp_clients,
               tcp_clients[j].current_socket = tcp_clients[k].current_socket
        PROVE  j = k
    <3>1. tcp_clients[j].id = tcp_clients[k].id
      BY <2>1 DEF SocketsOwn, AllConnected
    <3>2. QED
      BY <3>1 DEF RegistryIdsUnique
  <2>2. QED
    BY <2>1 DEF SocketsApart
<1>2. ASSUME NEW i \in Fds, NEW p \in Procs, Reads(i, p, IdReply(p)),
             NEW k \in EntriesWithId(IdOf[p])
      PROVE  FALSE
  <2>1. ~Announced(p)
    BY <1>2, Heard DEF UnknownApart
  <2>2. /\ k \in DOMAIN tcp_clients /\ tcp_clients[k].is_active = 1
        /\ Behind(k) # NoProc /\ IdOf[Behind(k)] = IdOf[p]
    BY DEF EntriesWithId, SocketsOwn, AllConnected, Behind
  <2>3. Behind(k) \in Procs
    <3>1. tcp_clients[k].current_socket \in Fds
      BY <2>2, TableEntries DEF ClientEntry
    <3>2. QED
      BY <2>2, <3>1 DEF Behind, Owner, TypeOK
  <2>4. Behind(k) = p
    BY <2>2, <2>3 DEF IdsDiffer
  <2>5. QED
    BY <2>1, <2>2, <2>4 DEF Announced, Behind
<1>3. RefusesLast
  BY <1>2 DEF RefusesLast
<1>4. QED
  BY <1>1, <1>3 DEF Orderly

(* So they are orderly, for any number of them: no descriptor is ever given *)
(* again and no ID refused.                                                 *)
LEMMA StayingIsOrderly ==
  ASSUME NobodyLeaves, IdsDiffer PROVE Spec => []Orderly
<1> DEFINE Inv == /\ Typed /\ RegistryIdsUnique /\ Connections
                  /\ SocketsOwn /\ UnknownApart /\ NoGoodbyes /\ AllConnected
<1>1. Init => Inv
  <2>1. ASSUME Init PROVE NoGoodbyes /\ AllConnected /\ RegistryIdsUnique
    <3>1. \A kind : ~Holds(<<>>, kind)
      BY EmptySeq DEF Holds
    <3>2. DOMAIN tcp_clients = {} /\ \A p \in Procs : toServer[p] = <<>>
      BY <2>1, EmptySeq DEF Init
    <3>3. QED
      BY <3>1, <3>2 DEF NoGoodbyes, AllConnected, RegistryIdsUnique
  <2>2. QED
    BY <2>1, InitTyped, ConnectionsInit, OwnInit
<1>2. Inv /\ [Next]_vars => Inv'
  <2>1. SUFFICES ASSUME Inv, [Next]_vars PROVE Inv'
    OBVIOUS
  <2>2. Typed' /\ Connections' /\ NoGoodbyes' /\ AllConnected'
    BY <2>1, NextTyped, ConnectionsStep, NoGoodbyesStep, AllConnectedStep
  <2>3. RegistryIdsUnique'
    BY <2>1, IdsStep
  <2>4. Orderly
    BY <2>1, OrderlyStay DEF Typed
  <2>5. SocketsOwn' /\ UnknownApart'
    BY <2>1, <2>4, OwnStep
  <2>6. QED
    BY <2>2, <2>3, <2>5
<1>3. Inv => Orderly
  BY OrderlyStay DEF Typed
<1> HIDE DEF Inv
<1>4. QED
  BY <1>1, <1>2, <1>3, PTL DEF Spec

(* And every message the server sends reaches a process with the ID of the  *)
(* entry it is sent for.                                                    *)
THEOREM StayingSocketsAreOwn ==
  ASSUME NobodyLeaves, IdsDiffer PROVE Spec => []ActiveSocketIsOwn
<1>1. Spec => []Orderly
  BY StayingIsOrderly
<1>2. Spec /\ []Orderly => []ActiveSocketIsOwn
  BY SocketsAreOwn
<1>3. QED
  BY <1>1, <1>2, PTL

-----------------------------------------------------------------------------
(* When users wait for the server to announce them, every command that      *)
(* arrives finds an entry with the socket it came over.                     *)

LEMMA KeptAnnounced ==
  ASSUME NEW k \in DOMAIN tcp_clients, NEW q, Behind(k) = q,
         k \in DOMAIN tcp_clients', tcp_clients'[k].is_active = 1,
         tcp_clients'[k].current_socket = tcp_clients[k].current_socket,
         LET f == tcp_clients[k].current_socket IN fd_owner'[f] = fd_owner[f]
  PROVE  Announced(q)'
  BY DEF Announced, Behind, Owner

LEMMA ClosingAnnounced ==
  ASSUME TypeOK, NEW f \in Fds, Closing(f), NEW k \in DOMAIN tcp_clients, NEW q \in Procs,
         Behind(k) = q, q # fd_owner[f]
  PROVE  LET g == tcp_clients[k].current_socket IN g # f /\ fd_owner'[g] = fd_owner[g]
<1>1. PICK g : g = tcp_clients[k].current_socket
  OBVIOUS
<1>2. g \in Fds /\ fd_owner[g] = q
  BY <1>1, ConstantsOK DEF Behind, Owner
<1>3. fd_owner'[g] = fd_owner[g]
  BY <1>2 DEF Closing, TypeOK
<1>4. QED
  BY <1>1, <1>2, <1>3

(* A process stays announced until its own connection is closed.            *)
(* That happens when the server handles its "disconnected.", or closes the  *)
(* last connection it has accepted for a duplicate ID and that is its.      *)
AnnouncementEnds(q) ==
  /\ toServer'[q] = <<>>
  /\ \/ \E i \in Fds : Disconnect(i, q)
     \/ \E i \in Fds, p \in Procs : Closes(i, p) /\ Owner(new_tcp_sockfd) = q

LEMMA AnnouncedUntil ==
  ASSUME Typed, [Next]_vars, NEW q \in Procs, Announced(q)
  PROVE  Announced(q)' \/ AnnouncementEnds(q)
<1>1. PICK k \in DOMAIN tcp_clients : tcp_clients[k].is_active = 1 /\ Behind(k) = q
  BY DEF Announced, Behind
<1>2. TypeOK /\ tcp_clients \in Seq(ClientEntry)
  BY DEF Typed, TypeOK
<1>3. PICK s \in Seq(ClientEntry) : s = tcp_clients
  BY <1>2
<1>4. s \in [DOMAIN s -> ClientEntry]
  BY LenProperties
<1>5. CASE SameFaces /\ UNCHANGED fd_owner
  BY <1>1, <1>5, KeptAnnounced DEF SameFaces, Face
<1>6. ASSUME UNCHANGED tcp_clients, NEW f \in Fds, NEW p \in Procs, Accepting(f, p)
      PROVE  Announced(q)'
  <2>1. PICK g : g = tcp_clients[k].current_socket
    OBVIOUS
  <2>2. g \in Fds /\ fd_owner[g] = q
    BY <1>1, <2>1, ConstantsOK DEF Behind, Owner
  <2>3. fd_owner'[g] = fd_owner[g]
    BY <1>2, <1>6, <2>2, ConstantsOK DEF Accepting, TypeOK
  <2>4. QED
    BY <1>1, <1>6, <2>1, <2>3, KeptAnnounced
<1>7. ASSUME UNCHANGED tcp_clients, NEW i \in Fds, NEW p \in Procs, Closes(i, p)
      PROVE  Announced(q)' \/ AnnouncementEnds(q)
  <2>1. PICK f \in Fds : f = new_tcp_sockfd /\ Closing(f)
    BY <1>2, <1>7, RefuseCloses DEF Closes
  <2>2. CASE q = fd_owner[f]
    BY <1>7, <2>1, <2>2 DEF Closing, AnnouncementEnds, Owner
  <2>3. CASE q # fd_owner[f]
    BY <1>1, <1>2, <1>7, <2>1, <2>3, ClosingAnnounced, KeptAnnounced
  <2>4. QED
    BY <2>2, <2>3
<1>8. ASSUME NEW i \in Fds, NEW p \in Procs, Disconnect(i, p), ~UNCHANGED fd_owner
      PROVE  Announced(q)' \/ AnnouncementEnds(q)
  <2>1. Closing(i) /\ fd_owner[i] = p
    BY <1>2, <1>8, LeaveCloses DEF Serving
  <2>2. CASE q = p
    BY <1>8, <2>1, <2>2 DEF Closing, AnnouncementEnds
  <2>3. CASE q # p
    <3>1. tcp_clients[k].current_socket # i
          /\ LET g == tcp_clients[k].current_socket IN fd_owner'[g] = fd_owner[g]
      BY <1>1, <1>2, <2>1, <2>3, ClosingAnnounced
    <3>2. PICK j \in DOMAIN tcp_clients : IsFirst(j, EntriesAt(i)) /\ tcp_clients' = Deactivated(j)
      BY <1>8 DEF Disconnect
    <3>3. j # k
      BY <3>1, <3>2 DEF IsFirst, EntriesAt
    <3>4. k \in DOMAIN tcp_clients' /\ tcp_clients'[k] = tcp_clients[k]
      BY <1>3, <1>4, <3>2, <3>3 DEF Deactivated
    <3>5. QED
      BY <1>1, <3>1, <3>4, KeptAnnounced
  <2>4. QED
    BY <2>2, <2>3
<1>9. ASSUME NEW i \in Fds, NEW p \in Procs, Register(i, p) PROVE Announced(q)'
  <2>1. PICK e : e = NewEntry(i, p)
    OBVIOUS
  <2>2. e \in ClientEntry
    BY <2>1, EmptySeq DEF NewEntry, ClientEntry, Ids
  <2>3. tcp_clients' = Append(s, e) /\ fd_owner' = fd_owner
    BY <1>3, <1>9, <2>1 DEF Register
  <2>4. PICK n : n = Len(s)
    OBVIOUS
  <2>5. /\ DOMAIN tcp_clients' = 1 .. n + 1 /\ DOMAIN s = 1 .. n /\ n \in Nat
        /\ \A x \in 1 .. n : tcp_clients'[x] = s[x]
    BY <2>2, <2>3, <2>4, AppendElements
  <2>6. k \in DOMAIN tcp_clients' /\ tcp_clients'[k] = tcp_clients[k]
    BY <1>3, <2>5
  <2>7. QED
    BY <1>1, <2>3, <2>6, KeptAnnounced
<1>10. ASSUME NEW i \in Fds, NEW p \in Procs, Reconnect(i, p) PROVE Announced(q)'
  <2>1. PICK j \in DOMAIN tcp_clients :
          /\ tcp_clients[j].is_active = 0
          /\ tcp_clients' = [tcp_clients EXCEPT ![j].is_active = 1,
                                                ![j].current_socket = i]
    BY <1>10 DEF Reconnect
  <2>2. j # k
    BY <1>1, <2>1
  <2>3. k \in DOMAIN tcp_clients' /\ tcp_clients'[k] = tcp_clients[k]
    BY <1>3, <1>4, <2>1, <2>2
  <2>4. fd_owner' = fd_owner
    BY <1>10 DEF Reconnect
  <2>5. QED
    BY <1>1, <2>3, <2>4, KeptAnnounced
<1>11. ASSUME NEW i \in Fds, NEW p \in Procs, Disconnect(i, p), UNCHANGED fd_owner
       PROVE  Announced(q)'
  <2>1. UNCHANGED tcp_clients
    <3>1. CASE fd_owner' = [fd_owner EXCEPT ![i] = NoProc]
      <4>1. fd_owner[i] = p /\ fd_owner'[i] = NoProc
        BY <1>2, <1>11, <3>1 DEF Disconnect, Reads, TypeOK
      <4>2. QED
        BY <1>11, <4>1, ConstantsOK
    <3>2. QED
      BY <1>11, <3>1 DEF Disconnect
  <2>2. QED
    BY <1>1, <1>11, <2>1, KeptAnnounced
<1>12. QED
  BY <1>5, <1>6, <1>7, <1>8, <1>9, <1>10, <1>11, FacesStep, DescriptorsStep

LEMMA AnnouncedStays ==
  ASSUME Typed, [Next]_vars, NEW q \in Procs, Announced(q)
  PROVE  Announced(q)' \/ toServer'[q] = <<>>
  BY AnnouncedUntil DEF AnnouncementEnds

LEMMA CommandsStep ==
  ASSUME Typed, ~EagerUsers, CommandsAnnounced, [Next]_vars PROVE CommandsAnnounced'
<1> DEFINE On(p) == Holds(toServer[p], "subscribe") \/ Holds(toServer[p], "unsubscribe")
<1>1. \A kind : ~Holds(<<>>, kind)
  BY EmptySeq DEF Holds
<1>2. SUFFICES ASSUME NEW p \in Procs, On(p)' PROVE Announced(p) \/ Announced(p)'
  <2>1. ASSUME NEW p \in Procs, On(p)', Announced(p) PROVE Announced(p)'
    BY <1>1, <2>1, AnnouncedStays
  <2>2. QED
    BY <1>2, <2>1 DEF CommandsAnnounced
<1>3. On(p) => Announced(p)
  BY DEF CommandsAnnounced
<1>4. CASE Shrinks(toServer[p], toServer'[p])
  BY <1>2, <1>3, <1>4, SettledServer DEF Typed
<1>5. CASE Serving \/ \E f \in Fds : Closing(f)
  BY <1>4, <1>5 DEF Serving, Closing
<1>6. CASE (\E f \in Fds, q \in Procs : Accepting(f, q)) \/ \E q \in Procs : Starting(q)
  BY <1>4, <1>6 DEF Accepting, Starting, Shrinks
<1>7. ASSUME NEW q \in Procs, Acting(q) PROVE Announced(p) \/ Announced(p)'
  <2>1. CASE toServer'[p] = toServer[p]
    BY <1>4, <2>1 DEF Shrinks
  <2>2. CASE q # p
    BY <1>7, <2>1, <2>2, ActingOthers DEF Typed
  <2>3. ASSUME q = p, NEW m \in ServerMessages, Says(p, m),
               toServer'[p] = Append(toServer[p], m),
               toServer[p] \in Seq(ServerMessages)
        PROVE  Announced(p)
    <3>1. \A kind : Holds(toServer'[p], kind) => Holds(toServer[p], kind) \/ m.kind = kind
      BY <2>3, AppendHolds
    <3>2. CASE m.kind \in {"subscribe", "unsubscribe"}
      BY <2>3, <3>2 DEF Says, AtKeyboard
    <3>3. CASE m.kind \notin {"subscribe", "unsubscribe"}
      BY <1>2, <1>3, <3>1, <3>3
    <3>4. QED
      BY <3>2, <3>3
  <2>4. QED
    BY <1>7, <2>1, <2>2, <2>3, ActingWrite DEF Typed
<1>8. QED
  BY <1>5, <1>6, <1>7, EventStep DEF Event, ServerActs

LEMMA CommandsInit == ASSUME Init PROVE CommandsAnnounced
<1>1. \A kind : ~Holds(<<>>, kind)
  BY EmptySeq DEF Holds
<1>2. QED
  BY <1>1 DEF Init, CommandsAnnounced

(* So a command finds its sender's entry. *)
LEMMA CommandFindsEntry ==
  ASSUME TypeOK, Connections, CommandsAnnounced, NEW i, NEW p \in Procs, NEW m,
         m.kind \in {"subscribe", "unsubscribe"}, Reads(i, p, m)
  PROVE  \E k \in EntriesAt(i) : tcp_clients[k].is_active = 1
<1>1. PICK s \in Seq(ServerMessages) : s = toServer[p]
  BY DEF TypeOK
<1>2. i \in Fds /\ p = fd_owner[i] /\ s # <<>> /\ Head(s) = m
  BY <1>1 DEF Reads
<1>3. 1 \in DOMAIN s /\ s[1] = m
  BY <1>2, EmptySeq, LenProperties, HeadTailProperties
<1>4. Announced(p)
  BY <1>1, <1>3 DEF CommandsAnnounced, Holds
<1>5. PICK k \in DOMAIN tcp_clients :
        tcp_clients[k].is_active = 1 /\ Owner(tcp_clients[k].current_socket) = p
  BY <1>4 DEF Announced
<1>6. tcp_clients[k].current_socket = i
  BY <1>2, <1>5, ConstantsOK DEF Owner, Connections, OneDescriptor
<1>7. QED
  BY <1>5, <1>6 DEF EntriesAt

-----------------------------------------------------------------------------
(* Subscriptions: which clients are in which topics. *)
Within(G) ==
  \A k \in DOMAIN all_topics : \A q \in DOMAIN all_topics[k].subscribers :
    <<all_topics[k].topic, all_topics[k].subscribers[q].subscriber>> \in G
CleanStack == \A x \in 1 .. MaxTopics : StackFill[x] = 0
FillsWithin(G) == CleanStack \/ \A t \in Topics : <<t, 0>> \in G
SubscribesWithin(G) ==
  \A i \in Fds, p \in Procs, m \in Commands : Subscribe(i, p, m) =>
    \A t \in Topics : <<m.topic, t>> \in Substring => <<t, current_tcp_client'>> \in G

LEMMA SeqWithin ==
  ASSUME NEW T, NEW s \in Seq(T), NEW P, \A q \in DOMAIN s : s[q] \in P
  PROVE  s \in Seq(P)
<1>1. DOMAIN s = 1 .. Len(s) /\ Len(s) \in Nat /\ s = [q \in 1 .. Len(s) |-> s[q]]
  BY LenProperties
<1>2. s \in [1 .. Len(s) -> P]
  BY <1>1
<1>3. QED
  BY <1>1, <1>2, SeqDef

LEMMA SeqElements ==
  ASSUME NEW P, NEW s \in Seq(P) PROVE \A q \in DOMAIN s : s[q] \in P
  BY LenProperties, ElementOfSeq

LEMMA NewTopicWithin ==
  ASSUME TypeOK, NEW G, Within(G), NEW t \in Topics, NEW s \in Seq(Subscription),
         NewTopic(t, s), \A q \in DOMAIN s : <<t, s[q].subscriber>> \in G
  PROVE  Within(G)'
<1>1. PICK e : e = [topic |-> t, subscribers |-> s]
  OBVIOUS
<1>2. e \in TopicEntry /\ e.topic = t /\ e.subscribers = s
  BY <1>1 DEF TopicEntry
<1>3. PICK a \in Seq(TopicEntry) : a = all_topics
  BY DEF TypeOK
<1>4. PICK n : n = Len(a)
  OBVIOUS
<1>5. all_topics' = Append(a, e)
  BY <1>1, <1>3 DEF NewTopic
<1>6. /\ DOMAIN all_topics' = 1 .. n + 1 /\ DOMAIN a = 1 .. n /\ n \in Nat
      /\ all_topics'[n + 1] = e
      /\ \A x \in 1 .. n : all_topics'[x] = a[x]
  BY <1>2, <1>4, <1>5, AppendElements
<1>7. \A x : x \in 1 .. n + 1 <=> x \in 1 .. n \/ x = n + 1
  BY <1>6
<1>8. QED
  BY <1>2, <1>3, <1>6, <1>7 DEF Within

LEMMA SetWithin ==
  ASSUME TypeOK, NEW G, Within(G), NEW k \in DOMAIN all_topics,
         NEW s \in Seq(Subscription), SetSubscribers(k, s),
         \A q \in DOMAIN s : <<all_topics[k].topic, s[q].subscriber>> \in G
  PROVE  Within(G)'
<1>1. PICK a \in Seq(TopicEntry) : a = all_topics
  BY DEF TypeOK
<1>2. a \in [DOMAIN a -> TopicEntry]
  BY LenProperties
<1>3. /\ DOMAIN all_topics' = DOMAIN a
      /\ all_topics'[k].topic = a[k].topic /\ all_topics'[k].subscribers = s
      /\ \A j \in DOMAIN a : j # k => all_topics'[j] = a[j]
  BY <1>1, <1>2 DEF SetSubscribers, TopicEntry
<1>4. QED
  BY <1>1, <1>3 DEF Within

(* A subscribe adds its own pair to one topic. *)
LEMMA SubscribeWithin ==
  ASSUME Typed, NEW G, FillsWithin(G), Within(G), SubscribesWithin(G),
         NEW i \in Fds, NEW p \in Procs, NEW m \in Commands, Subscribe(i, p, m)
  PROVE  Within(G)'
<1>1. PICK c : c = current_tcp_client'
  OBVIOUS
<1>2. PICK own : own = [subscriber |-> c, SF |-> m.SF]
  OBVIOUS
<1>3. TypeOK /\ m.topic \in Topics
      /\ \A t \in Topics : <<m.topic, t>> \in Substring => <<t, c>> \in G
  BY <1>1, ConstantsOK DEF Typed, SubscribesWithin
<1>4. own \in Subscription /\ own.subscriber = c
  <2>1. current_tcp_client' \in 0 .. Len(tcp_clients)
    <3>1. \A x \in EntriesAt(i) : x \in 1 .. Len(tcp_clients)
      BY <1>3, TableEntries DEF EntriesAt
    <3>2. QED
      BY <1>3, <3>1, TableEntries DEF Subscribe, TypeOK
  <2>2. QED
    BY <1>1, <1>2, <1>3, <2>1, TableEntries, ConstantsOK DEF Subscription, TypeOK
<1>5. ASSUME NEW k \in DOMAIN all_topics, IsFirst(k, Matching(m.topic)),
             all_topics' = [all_topics EXCEPT ![k].subscribers = Append(@, own)]
      PROVE  Within(G)'
  <2>1. PICK s \in Seq(Subscription) : s = all_topics[k].subscribers
    BY <1>3, TableEntries
  <2>2. PICK t \in Topics : t = all_topics[k].topic
    BY <1>3, TableEntries
  <2>3. <<t, c>> \in G
    BY <1>3, <1>5, <2>2 DEF IsFirst, Matching
  <2>4. PICK w : w = Append(s, own)
    OBVIOUS
  <2>5. PICK n : n = Len(s)
    OBVIOUS
  <2>6. /\ w \in Seq(Subscription)
        /\ DOMAIN w = 1 .. n + 1 /\ DOMAIN s = 1 .. n /\ n \in Nat /\ w[n + 1] = own
        /\ \A x \in 1 .. n : w[x] = s[x]
    BY <1>4, <2>4, <2>5, AppendElements, AppendProperties
  <2>7. \A x : x \in 1 .. n + 1 <=> x \in 1 .. n \/ x = n + 1
    BY <2>6
  <2>8. \A q \in DOMAIN s : <<t, s[q].subscriber>> \in G
    BY <2>1, <2>2 DEF Within
  <2>9. \A q \in DOMAIN w : <<t, w[q].subscriber>> \in G
    BY <1>4, <2>3, <2>6, <2>7, <2>8
  <2>10. SetSubscribers(k, w)
    BY <1>5, <2>1, <2>4 DEF SetSubscribers
  <2>11. QED
    BY <1>3, <2>2, <2>6, <2>9, <2>10, SetWithin
<1>6. ASSUME Matching(m.topic) = {}, Len(all_topics) < MaxTopics,
             all_topics' = Append(all_topics,
               [topic |-> m.topic,
                subscribers |-> Append(Fill(StackFill[Len(all_topics) + 1]), own)])
      PROVE  Within(G)'
  <2>1. PICK g : g = StackFill[Len(all_topics) + 1]
    OBVIOUS
  <2>2. PICK f : f = Fill(g)
    OBVIOUS
  <2>3. g \in Nat /\ (CleanStack => g = 0)
    <3>1. Len(all_topics) + 1 \in 1 .. MaxTopics
      BY <1>3, <1>6, TableEntries, ConstantsOK
    <3>2. QED
      BY <2>1, <3>1, ConstantsOK DEF CleanStack
  <2>4. f \in Seq(Subscription) /\ Len(f) = g
    BY <2>2, <2>3, FillTyped, ConstantsOK
  <2>5. \A q \in DOMAIN f : <<m.topic, f[q].subscriber>> \in G
    <3>1. DOMAIN f = 1 .. g /\ \A q \in 1 .. g : f[q].subscriber = 0
      BY <2>2 DEF Fill
    <3>2. CASE CleanStack
      BY <2>3, <3>1, <3>2
    <3>3. CASE \A t \in Topics : <<t, 0>> \in G
      BY <1>3, <3>1, <3>3
    <3>4. QED
      BY <3>2, <3>3 DEF FillsWithin
  <2>6. PICK w : w = Append(f, own)
    OBVIOUS
  <2>7. /\ w \in Seq(Subscription)
        /\ DOMAIN w = 1 .. g + 1 /\ DOMAIN f = 1 .. g /\ g \in Nat /\ w[g + 1] = own
        /\ \A x \in 1 .. g : w[x] = f[x]
    BY <1>4, <2>4, <2>6, AppendElements, AppendProperties
  <2>8. \A x : x \in 1 .. g + 1 <=> x \in 1 .. g \/ x = g + 1
    BY <2>7
  <2>9. <<m.topic, c>> \in G
    BY <1>3, ConstantsOK
  <2>10. \A q \in DOMAIN w : <<m.topic, w[q].subscriber>> \in G
    BY <1>4, <2>5, <2>7, <2>8, <2>9
  <2>11. TopicsNamed(m.topic) = {}
    BY <1>3, <1>6, ConstantsOK DEF Matching, TopicsNamed
  <2>12. NewTopic(m.topic, w)
    BY <1>6, <2>1, <2>2, <2>6, <2>11 DEF NewTopic
  <2>13. QED
    BY <1>3, <2>7, <2>10, <2>12, NewTopicWithin
<1>7. QED
  BY <1>1, <1>2, <1>5, <1>6 DEF Subscribe

(* An unsubscribe keeps some of one topic's. *)
LEMMA UnsubscribeWithin ==
  ASSUME Typed, NEW G, Within(G),
         NEW i \in Fds, NEW p \in Procs, NEW m \in Commands, Unsubscribe(i, p, m)
  PROVE  Within(G)'
<1>1. TypeOK
  BY DEF Typed
<1>2. CASE UNCHANGED all_topics
  BY <1>2 DEF Within
<1>3. ASSUME NEW k \in DOMAIN all_topics, NEW id,
             all_topics' = [all_topics EXCEPT ![k].subscribers =
               Keep(all_topics[k].subscribers, DOMAIN all_topics[k].subscribers
                      \ RemovedFrom(all_topics[k].subscribers, id))]
      PROVE  Within(G)'
  <2>1. PICK s \in Seq(Subscription) : s = all_topics[k].subscribers
    BY <1>1, TableEntries
  <2>2. PICK t : t = all_topics[k].topic
    OBVIOUS
  <2>3. PICK r : r = RemovedFrom(s, id)
    OBVIOUS
  <2>4. PICK w : w = Keep(s, DOMAIN s \ r)
    OBVIOUS
  <2>5. PICK P : P = {x \in Subscription : <<t, x.subscriber>> \in G}
    OBVIOUS
  <2>6. \A q \in DOMAIN s : s[q] \in P
    <3>1. \A q \in DOMAIN s : s[q] \in Subscription /\ <<t, s[q].subscriber>> \in G
      BY <2>1, <2>2, SeqElements DEF Within
    <3>2. QED
      BY <2>5, <3>1
  <2>7. s \in Seq(P)
    BY <2>6, SeqWithin
  <2>8. w \in Seq(P) /\ w \in Seq(Subscription)
    BY <2>4, <2>7, KeepType
  <2>9. \A q \in DOMAIN w : w[q] \in P
    BY <2>8, SeqElements
  <2>10. \A q \in DOMAIN w : <<t, w[q].subscriber>> \in G
    BY <2>5, <2>9
  <2>11. SetSubscribers(k, w)
    BY <1>3, <2>1, <2>3, <2>4 DEF SetSubscribers
  <2>12. QED
    BY <1>1, <2>2, <2>8, <2>10, <2>11, SetWithin
<1>4. QED
  BY <1>2, <1>3 DEF Unsubscribe

LEMMA WithinStep ==
  ASSUME Typed, [Next]_vars, NEW G, FillsWithin(G), Within(G), SubscribesWithin(G)
  PROVE  Within(G)'
<1>1. CASE UNCHANGED all_topics
  BY <1>1 DEF Within
<1>2. ASSUME NEW t \in Topics, ReceiveDatagram(t) PROVE Within(G)'
  <2>1. CASE NewTopic(t, <<>>)
    <3>1. <<>> \in Seq(Subscription) /\ DOMAIN <<>> = {}
      BY EmptySeq
    <3>2. QED
      BY <2>1, <3>1, NewTopicWithin DEF Typed
  <2>2. QED
    BY <1>1, <1>2, <2>1 DEF ReceiveDatagram, NewTopic
<1>3. QED
  BY <1>1, <1>2, SubscribeWithin, UnsubscribeWithin, TablesStep DEF ChangesTopics

(* What a subscribe puts there is the sender's entry. *)
LEMMA SubscriberFound ==
  ASSUME Typed, Connections, CommandsAnnounced,
         NEW i \in Fds, NEW p \in Procs, NEW m \in Commands, Subscribe(i, p, m)
  PROVE  IsFirst(current_tcp_client', EntriesAt(i))
<1>1. Reads(i, p, m) /\ m.kind = "subscribe"
  BY DEF Subscribe
<1>2. EntriesAt(i) # {}
  BY <1>1, CommandFindsEntry DEF Typed
<1>3. QED
  BY <1>2 DEF Subscribe

RealSubscribers == Topics \X (1 .. MaxClients)

LEMMA GarbageStep ==
  ASSUME Typed, Connections, CommandsAnnounced, CleanStack, [Next]_vars,
         Within(RealSubscribers)
  PROVE  Within(RealSubscribers)'
<1>1. TypeOK
  BY DEF Typed
<1>2. PICK G : G = RealSubscribers
  OBVIOUS
<1>3. ASSUME NEW i \in Fds, NEW p \in Procs, NEW m \in Commands, Subscribe(i, p, m)
      PROVE  current_tcp_client' \in 1 .. MaxClients
  <2>1. current_tcp_client' \in DOMAIN tcp_clients
    BY <1>3, SubscriberFound DEF IsFirst, EntriesAt
  <2>2. DOMAIN tcp_clients = 1 .. Len(tcp_clients) /\ Len(tcp_clients) \in Nat
        /\ Len(tcp_clients) <= MaxClients /\ MaxClients \in Nat
    BY <1>1, TableEntries, ConstantsOK DEF TypeOK
  <2>3. QED
    BY <2>1, <2>2
<1>4. SubscribesWithin(G) /\ FillsWithin(G)
  BY <1>2, <1>3 DEF SubscribesWithin, FillsWithin, RealSubscribers
<1>5. Within(G)'
  BY <1>2, <1>4, WithinStep
<1>6. QED
  BY <1>2, <1>5 DEF Within, RealSubscribers

(* When users wait until the server has announced them, and the counters of *)
(* all_topics start from zero (they are never set, server.c:167), a         *)
(* subscription is always that of a registered client: the pointers and     *)
(* counters the code leaves uninitialised are never used.                   *)
THEOREM NothingIsGarbage ==
  ASSUME ~EagerUsers, CleanStack PROVE Spec => []NoGarbage
<1> DEFINE Inv == Typed /\ Connections /\ CommandsAnnounced /\ Within(RealSubscribers)
<1>1. Init => Inv
  <2>1. ASSUME Init PROVE Within(RealSubscribers)
    BY <2>1, EmptySeq DEF Init, Within
  <2>2. QED
    BY <2>1, InitTyped, ConnectionsInit, CommandsInit
<1>2. Inv /\ [Next]_vars => Inv'
  BY NextTyped, ConnectionsStep, CommandsStep, GarbageStep
<1>3. Inv => NoGarbage
  <2>1. 0 \notin 1 .. MaxClients
    BY ConstantsOK
  <2>2. \A t, c : <<t, c>> \in RealSubscribers => c # 0
    BY <2>1 DEF RealSubscribers
  <2>3. Within(RealSubscribers) => NoGarbage
    BY <2>2 DEF Within, NoGarbage
  <2>4. QED
    BY <2>3
<1> HIDE DEF Inv
<1>4. QED
  BY <1>1, <1>2, <1>3, PTL DEF Spec

-----------------------------------------------------------------------------
(* An unsubscribe takes the sender's subscriptions and no others.  Shortens *)
(* is the condition OthersKeepTheirs puts on each topic.                    *)
Shortens(k) ==
  \E i \in ready \ ready' : \E c \in EntriesAt(i) :
    RemovedOnlyOf(c, all_topics[k].subscribers, all_topics'[k].subscribers)
KeepsOrShortens(k) ==
  Len(all_topics'[k].subscribers) < Len(all_topics[k].subscribers) => Shortens(k)

LEMMA GrowingKeeps ==
  ASSUME Typed, NEW i \in Fds, NEW p \in Procs, NEW m \in Commands, Subscribe(i, p, m),
         NEW k \in DOMAIN all_topics
  PROVE  KeepsOrShortens(k)
<1>1. PICK c : c = current_tcp_client'
  OBVIOUS
<1>2. PICK own : own = [subscriber |-> c, SF |-> m.SF]
  OBVIOUS
<1>3. PICK a \in Seq(TopicEntry) : a = all_topics
  BY DEF Typed, TypeOK
<1>4. a \in [DOMAIN a -> TopicEntry] /\ DOMAIN a = 1 .. Len(a) /\ Len(a) \in Nat
  BY LenProperties
<1>5. PICK s \in Seq(Subscription) : s = all_topics[k].subscribers
  BY TableEntries DEF Typed
<1>6. Len(s) \in Nat
  BY LenProperties
<1>7. own \in [subscriber : {c}, SF : {m.SF}]
  BY <1>2
<1>8. ASSUME NEW j \in DOMAIN all_topics,
             all_topics' = [all_topics EXCEPT ![j].subscribers = Append(@, own)]
      PROVE  ~(Len(all_topics'[k].subscribers) < Len(s))
  <2>1. CASE j # k
    BY <1>3, <1>4, <1>5, <1>6, <1>8, <2>1
  <2>2. CASE j = k
    <3>1. all_topics'[k].subscribers = Append(s, own)
      BY <1>3, <1>4, <1>5, <1>8, <2>2 DEF TopicEntry
    <3>2. Len(Append(s, own)) = Len(s) + 1
      OBVIOUS
    <3>3. QED
      BY <1>6, <3>1, <3>2
  <2>3. QED
    BY <2>1, <2>2
<1>9. ASSUME NEW e, all_topics' = Append(all_topics, e)
      PROVE  ~(Len(all_topics'[k].subscribers) < Len(s))
  <2>1. all_topics'[k] = a[k]
    BY <1>3, <1>4, <1>9
  <2>2. QED
    BY <1>3, <1>5, <1>6, <2>1
<1>10. QED
  BY <1>1, <1>2, <1>5, <1>8, <1>9 DEF Subscribe, KeepsOrShortens

LEMMA LeavingShortens ==
  ASSUME Typed, Connections, CommandsAnnounced, RegistryIdsUnique,
         NEW i \in Fds, NEW p \in Procs, NEW m \in Commands, Unsubscribe(i, p, m),
         NEW k \in DOMAIN all_topics
  PROVE  KeepsOrShortens(k)
<1>1. TypeOK /\ Reads(i, p, m) /\ m.kind = "unsubscribe" /\ Handled(i) /\ i \in ready
  BY DEF Typed, Unsubscribe, Reads, Turn, IsFirst
<1>2. EntriesAt(i) # {}
  BY <1>1, CommandFindsEntry
<1>3. i \in ready \ ready'
  BY <1>1 DEF Handled
<1>4. PICK s \in Seq(Subscription) : s = all_topics[k].subscribers
  BY <1>1, TableEntries
<1>5. PICK a \in Seq(TopicEntry) : a = all_topics
  BY <1>1 DEF TypeOK
<1>6. a \in [DOMAIN a -> TopicEntry] /\ Len(s) \in Nat
  BY LenProperties
<1>7. CASE UNCHANGED all_topics
  BY <1>4, <1>6, <1>7 DEF KeepsOrShortens
<1>8. ASSUME NEW j \in DOMAIN all_topics, NEW id, LooksFor(i, id),
             all_topics' = [all_topics EXCEPT ![j].subscribers =
               Keep(all_topics[j].subscribers, DOMAIN all_topics[j].subscribers
                      \ RemovedFrom(all_topics[j].subscribers, id))]
      PROVE  KeepsOrShortens(k)
  <2>1. CASE j # k
    <3>1. all_topics'[k] = all_topics[k]
      BY <1>5, <1>6, <1>8, <2>1
    <3>2. QED
      BY <1>4, <1>6, <3>1 DEF KeepsOrShortens
  <2>2. CASE j = k
    <3>1. PICK gone : gone = RemovedFrom(s, id)
      OBVIOUS
    <3>2. all_topics'[k].subscribers = Subsequence(s, DOMAIN s \ gone)
      BY <1>4, <1>5, <1>6, <1>8, <2>2, <3>1 DEF TopicEntry, Keep
    <3>3. PICK c \in DOMAIN tcp_clients : IsFirst(c, EntriesAt(i)) /\ tcp_clients[c].id = id
      BY <1>2, <1>8 DEF LooksFor
    <3>4. \A x \in EntriesWithId(id) : x = c
      BY <3>3 DEF EntriesWithId, RegistryIdsUnique
    <3>5. gone \subseteq DOMAIN s /\ \A q \in gone : s[q].subscriber = c
      BY <3>1, <3>4 DEF RemovedFrom, RemovedOf
    <3>6. \A q \in DOMAIN s \ (DOMAIN s \ gone) : s[q].subscriber = c
      BY <3>5
    <3>7. RemovedOnlyOf(c, s, all_topics'[k].subscribers)
      BY <3>2, <3>6 DEF RemovedOnlyOf
    <3>8. QED
      BY <1>3, <1>4, <3>3, <3>7 DEF KeepsOrShortens, Shortens, IsFirst
  <2>3. QED
    BY <2>1, <2>2
<1>9. QED
  BY <1>7, <1>8 DEF Unsubscribe

LEMMA TopicsKeep ==
  ASSUME Typed, Connections, CommandsAnnounced, RegistryIdsUnique, [Next]_vars,
         NEW k \in DOMAIN all_topics
  PROVE  KeepsOrShortens(k)
<1>1. PICK a \in Seq(TopicEntry) : a = all_topics
  BY DEF Typed, TypeOK
<1>2. PICK s \in Seq(Subscription) : s = all_topics[k].subscribers
  BY TableEntries DEF Typed
<1>3. Len(s) \in Nat /\ DOMAIN a = 1 .. Len(a) /\ Len(a) \in Nat
  BY LenProperties
<1>4. ASSUME all_topics'[k] = all_topics[k] PROVE KeepsOrShortens(k)
  BY <1>2, <1>3, <1>4 DEF KeepsOrShortens
<1>5. ASSUME NEW t \in Topics, ReceiveDatagram(t) PROVE all_topics'[k] = all_topics[k]
  <2>1. ASSUME NEW e, all_topics' = Append(all_topics, e) PROVE all_topics'[k] = a[k]
    BY <1>1, <1>3, <2>1
  <2>2. QED
    BY <1>1, <1>5, <2>1 DEF ReceiveDatagram
<1>6. QED
  BY <1>4, <1>5, GrowingKeeps, LeavingShortens, TablesStep DEF ChangesTopics

(* While users wait to be announced, an unsubscribe removes subscriptions   *)
(* of its sender only, however many there are and whichever of them the     *)
(* shifting loop (server.c:348) skips; nothing else removes any.            *)
THEOREM OthersAlwaysKeepTheirs == ASSUME ~EagerUsers PROVE Spec => OthersKeepTheirs
<1> DEFINE Inv == Typed /\ RegistryIdsUnique /\ Connections /\ CommandsAnnounced
           Step == \A k \in DOMAIN all_topics : KeepsOrShortens(k)
<1>1. Init => Inv
  BY InitTyped, ConnectionsInit, CommandsInit, EmptySeq DEF Init, RegistryIdsUnique
<1>2. Inv /\ [Next]_vars => Inv'
  BY NextTyped, IdsStep, ConnectionsStep, CommandsStep
<1>3. Inv /\ [Next]_vars => [Step]_vars
  BY TopicsKeep
<1>4. [Step]_vars => [\A k \in DOMAIN all_topics :
                        LET s == all_topics[k].subscribers
                            t == all_topics'[k].subscribers
                        IN Len(t) < Len(s) =>
                             \E i \in ready \ ready' : \E c \in EntriesAt(i) :
                               RemovedOnlyOf(c, s, t)]_vars
  BY DEF KeepsOrShortens, Shortens
<1> HIDE DEF Inv, Step
<1>5. QED
  BY <1>1, <1>2, <1>3, <1>4, PTL DEF Spec, OthersKeepTheirs

=============================================================================
