------------------------ MODULE BrokerDeliveryProofs ------------------------
(* What becomes of messages, in Broker: clients print only what they asked  *)
(* for, nothing that a client stores for is missed, and nothing that is      *)
(* sent is lost.                                                            *)
EXTENDS BrokerServiceProofs

-----------------------------------------------------------------------------
(* Who changes the histories. *)

LEMMA ServerAsksNothing == ASSUME Server PROVE UNCHANGED <<asked, printed, typed>>
<1>1. Crash("died") \/ Crash("undefined") \/ StopServer => UNCHANGED <<asked, printed, typed>>
  BY DEF Crash, Halt, StopServer, client
<1>2. ASSUME NEW i \in Fds, HandleInput(i) PROVE UNCHANGED <<asked, printed, typed>>
  <2>1. ReadNothing(i) => UNCHANGED <<asked, printed, typed>>
    BY DEF ReadNothing, client
  <2>2. ASSUME NEW p \in Procs,
               \/ IgnoreGotIt(i, p) \/ RefuseDuplicate(i, p)
               \/ Register(i, p) \/ Reconnect(i, p) \/ Disconnect(i, p)
        PROVE  UNCHANGED <<asked, printed, typed>>
    BY <1>1, <2>2 DEF IgnoreGotIt, RefuseDuplicate, Register, Reconnect, Disconnect, client
  <2>3. ASSUME NEW p \in Procs, NEW m \in Commands,
               \/ Subscribe(i, p, m) \/ SubscribeOverrun(i, p, m)
               \/ Unsubscribe(i, p, m) \/ UnsubscribeUndefined(i, p, m)
        PROVE  UNCHANGED <<asked, printed, typed>>
    BY <1>1, <2>3 DEF Subscribe, SubscribeOverrun, Unsubscribe, UnsubscribeUndefined, client
  <2>4. ReadFails(i) \/ (\E p \in Procs : ClientTableOverrun(i, p))
          => UNCHANGED <<asked, printed, typed>>
    BY <1>1 DEF ReadFails, ClientTableOverrun
  <2>5. QED
    BY <1>2, <2>1, <2>2, <2>3, <2>4 DEF HandleInput
<1>3. Select \/ Accept \/ SendToActive \/ AwaitAck \/ StoreOrSkip \/ AwaitGotIt
        => UNCHANGED <<asked, printed, typed>>
  BY DEF Select, Accept, SendToActive, AwaitAck, StoreOrSkip, AwaitGotIt, client
<1>4. Replay => UNCHANGED <<asked, printed, typed>>
  BY <1>1 DEF Replay
<1>5. ASSUME NEW t \in Topics, ReceiveDatagram(t) PROVE UNCHANGED <<asked, printed, typed>>
  BY <1>5 DEF ReceiveDatagram, client
<1>6. QED
  BY <1>1, <1>2, <1>3, <1>4, <1>5 DEF Server, AcceptFails, SendFails,
     FanOutUndefined, TopicTableOverrun

(* A user asks, a client prints. *)
LEMMA ClientHistories ==
  ASSUME [Next]_vars
  PROVE  /\ UNCHANGED asked \/ \E p \in Procs, m \in Commands : TypeCommand(p, m)
         /\ UNCHANGED printed \/ \E p \in Procs, n \in Message : PrintMessage(p, n)
<1>1. ASSUME NEW p \in Procs, ClientReads(p)
      PROVE  UNCHANGED asked /\ (UNCHANGED printed \/ \E n \in Message : PrintMessage(p, n))
  BY <1>1 DEF ClientReads, AnswerId, PrintMessage, CloseOnRequest, ConnectionLost
<1>2. ASSUME NEW p \in Procs, User(p)
      PROVE  UNCHANGED printed /\ (UNCHANGED asked \/ \E m \in Commands : TypeCommand(p, m))
  BY <1>2 DEF User, Connect, Exit, TypeCommand
<1>3. Idle \/ UNCHANGED vars => UNCHANGED <<asked, printed>>
  BY DEF Idle, vars, client
<1>4. QED
  BY <1>1, <1>2, <1>3, ServerAsksNothing DEF Next

(* The server numbers datagrams, and hands messages over in two places. *)
LEMMA ServerHistories ==
  ASSUME [Next]_vars
  PROVE  /\ UNCHANGED published \/ \E t \in Topics : ReceiveDatagram(t)
         /\ UNCHANGED handed \/ SendToActive \/ Replay
<1>1. UNCHANGED Mapped => UNCHANGED <<published, handed>>
  BY DEF Mapped
<1>2. ASSUME NEW i \in Fds, NEW p \in Procs,
             Reads1(i, p) \/ \E m \in Commands : Reads2(i, p, m)
      PROVE  UNCHANGED <<published, handed>>
  BY <1>2 DEF Reads1, Reads2, Register, Reconnect, Disconnect, Subscribe, Unsubscribe,
     job, client
<1>3. AwaitAck \/ StoreOrSkip \/ AwaitGotIt => UNCHANGED <<published, handed>>
  BY DEF AwaitAck, StoreOrSkip, AwaitGotIt, job, client
<1>4. SendToActive => UNCHANGED published
  BY DEF SendToActive, job
<1>5. Replay => UNCHANGED published
  BY DEF Replay, Crash, Halt, job
<1>6. ASSUME NEW t \in Topics, ReceiveDatagram(t) PROVE UNCHANGED handed
  BY <1>6 DEF ReceiveDatagram, client
<1>7. QED
  BY <1>1, <1>2, <1>3, <1>4, <1>5, <1>6, WorkSteps DEF Works

(* The message in hand is the last datagram. *)
LEMMA LastMessage ==
  ASSUME Typed, pc = "fanout"
  PROVE  Len(published) \in Message /\ Len(published) \in DOMAIN published
<1>1. published \in Seq(Topics) /\ Len(published) <= MaxPublish /\ MaxPublish \in Nat
  BY ConstantsOK DEF Typed, TypeOK
<1>2. published # <<>>
  BY DEF Typed, HandlerHasWork
<1>3. Len(published) \in Nat /\ Len(published) # 0 /\ DOMAIN published = 1 .. Len(published)
  BY <1>1, <1>2, LenProperties, EmptySeq
<1>4. QED
  BY <1>1, <1>3 DEF Message

(* What a process is handed, when it is. *)
Hands(p, n) == /\ n \in Message /\ p \in Procs
               /\ handed' = [handed EXCEPT ![p] = Append(@, n)]
LEMMA HandedStep ==
  ASSUME Typed, [Next]_vars
  PROVE  \/ UNCHANGED handed
         \/ /\ SendToActive /\ Hands(fd_owner[tcp_clients[Addressee].current_socket],
                                     Len(published))
         \/ /\ Replay /\ Hands(fd_owner[tcp_clients[flushing].current_socket],
                               Head(tcp_clients[flushing].unreceived))
<1>1. TypeOK
  BY DEF Typed
<1>2. CASE SendToActive
  <2>1. Len(published) \in Message
    BY <1>2, LastMessage DEF SendToActive, ToActive, FanningOut
  <2>2. Addressee # 0 /\ todo # <<>>
    BY <1>2 DEF SendToActive, ToActive, FanningOut, Typed, HandlerHasWork
  <2>3. QED
    BY <1>2, <2>1 DEF SendToActive, Hands, CanSend, Owner, TypeOK, Typed
<1>3. CASE Replay
  <2>1. flushing \in DOMAIN tcp_clients /\ tcp_clients[flushing].unreceived # <<>>
    BY <1>3 DEF Replay, Typed, HandlerHasWork, Replaying
  <2>2. tcp_clients[flushing].unreceived \in Seq(Message)
    BY <1>1, <2>1, TableEntries
  <2>3. Head(tcp_clients[flushing].unreceived) \in Message
    BY <2>1, <2>2, HeadTailProperties
  <2>4. QED
    BY <1>1, <1>3, <2>3 DEF Replay, Crash, Halt, client, Hands, CanSend, Owner, TypeOK
<1>4. QED
  BY <1>2, <1>3, ServerHistories

-----------------------------------------------------------------------------
(* Which messages a client wants. *)
AsksFor(c, t) ==
  \E q \in Procs : IdOf[q] = c /\ \E u \in asked[q] : <<u, t>> \in Substring
Wanted(c, n) == n \in DOMAIN published /\ AsksFor(c, published[n])

(* Users ask for more and more, datagrams keep their number. *)
LEMMA AskedGrows ==
  ASSUME TypeOK, [Next]_vars PROVE \A p \in Procs : asked[p] \subseteq asked'[p]
<1>1. ASSUME NEW q \in Procs, NEW m \in Commands, TypeCommand(q, m)
      PROVE  \A p \in Procs : asked[p] \subseteq asked'[p]
  BY <1>1 DEF TypeCommand, TypeOK
<1>2. QED
  BY <1>1, ClientHistories

LEMMA PublishedGrows ==
  ASSUME TypeOK, [Next]_vars
  PROVE  \A n \in DOMAIN published : n \in DOMAIN published' /\ published'[n] = published[n]
<1>1. PICK s \in Seq(Topics) : s = published
  BY DEF TypeOK
<1>2. ASSUME NEW t \in Topics, ReceiveDatagram(t)
      PROVE  \A n \in DOMAIN s : n \in DOMAIN published' /\ published'[n] = s[n]
  <2>1. published' = Append(s, t)
    BY <1>1, <1>2 DEF ReceiveDatagram
  <2>2. QED
    BY <2>1, AppendElements
<1>3. QED
  BY <1>1, <1>2, ServerHistories

LEMMA AsksForStays ==
  ASSUME TypeOK, [Next]_vars, NEW c, NEW t, AsksFor(c, t) PROVE AsksFor(c, t)'
  BY AskedGrows DEF AsksFor

LEMMA WantedStays ==
  ASSUME TypeOK, [Next]_vars, NEW c, NEW n, Wanted(c, n) PROVE Wanted(c, n)'
<1>1. n \in DOMAIN published' /\ published'[n] = published[n]
  BY PublishedGrows DEF Wanted
<1>2. PICK t : t = published[n]
  OBVIOUS
<1>3. AsksFor(c, t)'
  BY <1>2, AsksForStays DEF Wanted
<1>4. QED
  BY <1>1, <1>2, <1>3 DEF Wanted, AsksFor

(* What was handed stays handed. *)
LEMMA AppendInSeq ==
  ASSUME NEW T, NEW s \in Seq(T), NEW e \in T, NEW n
  PROVE  InSeq(n, Append(s, e)) <=> InSeq(n, s) \/ n = e
<1>1. /\ DOMAIN Append(s, e) = 1 .. Len(s) + 1 /\ DOMAIN s = 1 .. Len(s)
      /\ Len(s) \in Nat /\ Append(s, e)[Len(s) + 1] = e
      /\ \A x \in 1 .. Len(s) : Append(s, e)[x] = s[x]
  BY AppendElements
<1>2. \A x : x \in 1 .. Len(s) + 1 <=> x \in 1 .. Len(s) \/ x = Len(s) + 1
  BY <1>1
<1>3. QED
  BY <1>1, <1>2 DEF InSeq

LEMMA HandedAt ==
  ASSUME TypeOK, NEW p, NEW n, Hands(p, n), NEW q \in Procs
  PROVE  handed'[q] = IF q = p THEN Append(handed[q], n) ELSE handed[q]
  BY DEF Hands, TypeOK

LEMMA HandedGrows ==
  ASSUME Typed, [Next]_vars, NEW q \in Procs, NEW n, InSeq(n, handed[q])
  PROVE  InSeq(n, handed'[q])
<1>1. ASSUME NEW p, NEW m, Hands(p, m) PROVE InSeq(n, handed'[q])
  <2>1. handed[q] \in Seq(Message) /\ m \in Message
    BY <1>1 DEF Hands, Typed, TypeOK
  <2>2. InSeq(n, Append(handed[q], m))
    BY <2>1, AppendInSeq
  <2>3. QED
    BY <1>1, <2>2, HandedAt DEF Typed
<1>2. QED
  BY <1>1, HandedStep

-----------------------------------------------------------------------------
(* What is on its way, and where it comes from. *)

(* A subscribe that is on its way was typed by its sender's user, *)
SubscribesAsked ==
  \A p \in Procs : \A x \in DOMAIN toServer[p] :
    toServer[p][x].kind = "subscribe" => toServer[p][x].topic \in asked[p]

(* a message on its way was handed to the process it goes to, *)
DataHanded ==
  \A p \in Procs : \A x \in DOMAIN toClient[p] :
    toClient[p][x].kind = "data" => InSeq(toClient[p][x].n, handed[p])

(* and so was what is printed. *)
PrintsHanded ==
  \A p \in Procs : \A x \in DOMAIN printed[p] : InSeq(printed[p][x], handed[p])

LEMMA LaterElements ==
  ASSUME NEW s, NEW t, NEW d, Later(s, t, d)
  PROVE  \A x \in DOMAIN t : \E y \in DOMAIN s : t[x] = s[y]
  BY DEF Later

LEMMA ShrinksElements ==
  ASSUME NEW T, NEW s \in Seq(T), NEW t, Shrinks(s, t)
  PROVE  \A x \in DOMAIN t : \E y \in DOMAIN s : t[x] = s[y]
  BY ShrinksLater, LaterElements

LEMMA SubscribesStep ==
  ASSUME Typed, SubscribesAsked, [Next]_vars PROVE SubscribesAsked'
<1> DEFINE Kept(p) == \A x \in DOMAIN toServer'[p] : \E y \in DOMAIN toServer[p] :
                        toServer'[p][x] = toServer[p][y]
<1>1. TypeOK
  BY DEF Typed
<1>2. SUFFICES ASSUME NEW p \in Procs
               PROVE  Kept(p) \/ \E m \in ServerMessages :
                        /\ toServer[p] \in Seq(ServerMessages)
                        /\ toServer'[p] = Append(toServer[p], m)
                        /\ m.kind = "subscribe" => m.topic \in asked'[p]
  <2>1. ASSUME NEW p \in Procs, Kept(p)
        PROVE  \A x \in DOMAIN toServer'[p] :
                 toServer'[p][x].kind = "subscribe" => toServer'[p][x].topic \in asked'[p]
    <3>1. asked[p] \subseteq asked'[p]
      BY <1>1, AskedGrows
    <3>2. QED
      BY <2>1, <3>1 DEF SubscribesAsked
  <2>2. ASSUME NEW p \in Procs, NEW m \in ServerMessages,
               toServer[p] \in Seq(ServerMessages), toServer'[p] = Append(toServer[p], m),
               m.kind = "subscribe" => m.topic \in asked'[p]
        PROVE  \A x \in DOMAIN toServer'[p] :
                 toServer'[p][x].kind = "subscribe" => toServer'[p][x].topic \in asked'[p]
    <3>1. PICK s \in Seq(ServerMessages) : s = toServer[p]
      BY <2>2
    <3>2. /\ DOMAIN Append(s, m) = 1 .. Len(s) + 1 /\ DOMAIN s = 1 .. Len(s)
          /\ Len(s) \in Nat /\ Append(s, m)[Len(s) + 1] = m
          /\ \A x \in 1 .. Len(s) : Append(s, m)[x] = s[x]
      BY AppendElements
    <3>3. \A x : x \in 1 .. Len(s) + 1 <=> x \in 1 .. Len(s) \/ x = Len(s) + 1
      BY <3>2
    <3>4. asked[p] \subseteq asked'[p]
      BY <1>1, AskedGrows
    <3>5. QED
      BY <2>2, <3>1, <3>2, <3>3, <3>4 DEF SubscribesAsked
  <2>3. QED
    BY <1>2, <2>1, <2>2 DEF SubscribesAsked
<1>3. toServer[p] \in Seq(ServerMessages)
  BY <1>1 DEF TypeOK
<1>4. CASE Serving \/ \E f \in Fds : Closing(f)
  <2>1. Shrinks(toServer[p], toServer'[p])
    BY <1>4 DEF Serving, Closing
  <2>2. QED
    BY <1>3, <2>1, ShrinksElements
<1>5. CASE (\E f \in Fds, q \in Procs : Accepting(f, q)) \/ \E q \in Procs : Starting(q)
  BY <1>5 DEF Accepting, Starting
<1>6. ASSUME NEW q \in Procs, Acting(q)
      PROVE  Kept(p) \/ \E m \in ServerMessages :
               /\ toServer[p] \in Seq(ServerMessages)
               /\ toServer'[p] = Append(toServer[p], m)
               /\ m.kind = "subscribe" => m.topic \in asked'[p]
  <2>1. CASE toServer' = toServer \/ q # p
    BY <1>1, <1>6, <2>1, ActingOthers
  <2>2. CASE q = p
    BY <1>1, <1>3, <1>6, <2>1, <2>2, ActingWrite DEF Says
  <2>3. QED
    BY <2>1, <2>2
<1>7. QED
  BY <1>4, <1>5, <1>6, EventStep DEF Event, ServerActs

(* A process's queue is used, or one message is put into it that it is       *)
(* handed at the same time, if it is data.                                  *)
Gains(p, m) ==
  /\ toClient[p] \in Seq(ClientMessages) /\ m \in ClientMessages
  /\ toClient'[p] = Append(toClient[p], m)
  /\ m.kind = "data" => handed'[p] = Append(handed[p], m.n)
Uses(p) == \E d \in Nat : Later(toClient[p], toClient'[p], d)

LEMMA UsesElements ==
  ASSUME NEW p, Uses(p)
  PROVE  \A x \in DOMAIN toClient'[p] : \E y \in DOMAIN toClient[p] :
           toClient'[p][x] = toClient[p][y]
  BY LaterElements DEF Uses

LEMMA UnusedUses ==
  ASSUME TypeOK, NEW p \in Procs, toClient'[p] = toClient[p] \/ toClient'[p] = <<>>
  PROVE  Uses(p)
<1>1. PICK s \in Seq(ClientMessages) : s = toClient[p]
  BY DEF TypeOK
<1>2. Shrinks(s, toClient'[p])
  BY <1>1 DEF Shrinks
<1>3. QED
  BY <1>1, <1>2, ShrinksLater DEF Uses

LEMMA ActingUses ==
  ASSUME TypeOK, NEW q \in Procs, Acting(q), NEW p \in Procs PROVE Uses(p)
<1>1. toClient[p] \in Seq(ClientMessages)
  BY DEF TypeOK
<1>2. toClient' = toClient \/ toClient' = [toClient EXCEPT ![q] = <<>>] \/ Drops(q)
  BY DEF Acting
<1>3. CASE q # p
  BY <1>3, ActingOthers, UnusedUses
<1>4. CASE Drops(p)
  <2>1. PICK k \in 1 .. Len(toClient[p]) :
          toClient'[p] = SubSeq(toClient[p], k + 1, Len(toClient[p]))
    BY <1>4 DEF Drops, TypeOK
  <2>2. PICK s \in Seq(ClientMessages) : s = toClient[p]
    BY <1>1
  <2>3. Later(s, SubSeq(s, k + 1, Len(s)), k) /\ k \in Nat
    BY <2>1, <2>2, DropsLater
  <2>4. QED
    BY <2>1, <2>2, <2>3 DEF Uses
<1>5. QED
  BY <1>2, <1>3, <1>4, UnusedUses DEF TypeOK

LEMMA ClientQueueStep ==
  ASSUME Typed, [Next]_vars, NEW p \in Procs
  PROVE  Uses(p) \/ \E m \in ClientMessages : Gains(p, m)
<1>1. toClient[p] \in Seq(ClientMessages) /\ TypeOK
  BY DEF Typed, TypeOK
<1>2. toClient'[p] = toClient[p] => Uses(p)
  BY <1>1, UnusedUses
<1>3. CASE Serving \/ \E f \in Fds : Closing(f)
  <2>1. Said(p)
    BY <1>3 DEF Serving, Closing
  <2>2. QED
    BY <1>1, <1>2, <2>1 DEF Said, Gains
<1>4. ASSUME NEW f \in Fds, NEW q \in Procs, Accepting(f, q)
      PROVE  Uses(p) \/ \E m \in ClientMessages : Gains(p, m)
  <2>1. Ask \in ClientMessages /\ Ask.kind # "data"
    BY DEF ClientMessages, Ask
  <2>2. toClient'[p] = toClient[p] \/ toClient'[p] = Append(toClient[p], Ask)
    BY <1>1, <1>4 DEF Accepting, TypeOK
  <2>3. QED
    BY <1>1, <1>2, <2>1, <2>2 DEF Gains
<1>5. CASE \E q \in Procs : Starting(q)
  BY <1>2, <1>5 DEF Starting
<1>6. ASSUME NEW q \in Procs, Acting(q) PROVE Uses(p)
  BY <1>1, <1>6, ActingUses
<1>7. QED
  BY <1>3, <1>4, <1>5, <1>6, EventStep DEF Event, ServerActs

LEMMA DataMessages ==
  \A m \in ClientMessages : m.kind = "data" => m.n \in Message
<1>1. Ask.kind # "data" /\ CloseClient.kind # "data"
  BY DEF Ask, CloseClient
<1>2. \A n : Data(n).n = n
  BY DEF Data
<1>3. QED
  BY <1>1, <1>2 DEF ClientMessages

LEMMA DataStep ==
  ASSUME Typed, DataHanded, [Next]_vars PROVE DataHanded'
<1> SUFFICES ASSUME NEW p \in Procs
             PROVE  \A x \in DOMAIN toClient'[p] :
                      toClient'[p][x].kind = "data" => InSeq(toClient'[p][x].n, handed'[p])
  BY DEF DataHanded, InSeq
<1>1. ASSUME NEW n, InSeq(n, handed[p]) PROVE InSeq(n, handed'[p])
  BY <1>1, HandedGrows
<1>2. \A y \in DOMAIN toClient[p] :
        toClient[p][y].kind = "data" => InSeq(toClient[p][y].n, handed'[p])
  BY <1>1 DEF DataHanded
<1>3. CASE Uses(p)
  BY <1>2, <1>3, UsesElements
<1>4. ASSUME NEW m \in ClientMessages, Gains(p, m)
      PROVE  \A x \in DOMAIN toClient'[p] :
               toClient'[p][x].kind = "data" => InSeq(toClient'[p][x].n, handed'[p])
  <2>1. PICK s \in Seq(ClientMessages) : s = toClient[p]
    BY <1>4 DEF Gains
  <2>2. /\ DOMAIN Append(s, m) = 1 .. Len(s) + 1 /\ DOMAIN s = 1 .. Len(s)
        /\ Len(s) \in Nat /\ Append(s, m)[Len(s) + 1] = m
        /\ \A x \in 1 .. Len(s) : Append(s, m)[x] = s[x]
    BY AppendElements
  <2>3. \A x : x \in 1 .. Len(s) + 1 <=> x \in 1 .. Len(s) \/ x = Len(s) + 1
    BY <2>2
  <2>4. m.kind = "data" => InSeq(m.n, handed'[p])
    <3>1. SUFFICES ASSUME m.kind = "data" PROVE InSeq(m.n, handed'[p])
      OBVIOUS
    <3>2. m.n \in Message /\ handed[p] \in Seq(Message)
      BY <3>1, DataMessages DEF Typed, TypeOK
    <3>3. InSeq(m.n, Append(handed[p], m.n))
      BY <3>2, AppendInSeq
    <3>4. QED
      BY <1>4, <3>1, <3>3 DEF Gains
  <2>5. toClient'[p] = Append(s, m)
    BY <1>4, <2>1 DEF Gains
  <2>6. QED
    BY <1>2, <2>1, <2>2, <2>3, <2>4, <2>5
<1>5. QED
  BY <1>3, <1>4, ClientQueueStep

(* A client prints what it has received. *)
LEMMA PrintsStep ==
  ASSUME Typed, DataHanded, PrintsHanded, [Next]_vars PROVE PrintsHanded'
<1> SUFFICES ASSUME NEW p \in Procs
             PROVE  \A x \in DOMAIN printed'[p] : InSeq(printed'[p][x], handed'[p])
  BY DEF PrintsHanded, InSeq
<1>1. ASSUME NEW n, InSeq(n, handed[p]) PROVE InSeq(n, handed'[p])
  BY <1>1, HandedGrows
<1>2. \A x \in DOMAIN printed[p] : InSeq(printed[p][x], handed'[p])
  BY <1>1 DEF PrintsHanded
<1>3. CASE printed'[p] = printed[p]
  BY <1>2, <1>3
<1>4. ASSUME NEW q \in Procs, NEW n \in Message, PrintMessage(q, n)
      PROVE  \A x \in DOMAIN printed'[p] : InSeq(printed'[p][x], handed'[p])
  <2>1. printed' = [printed EXCEPT ![q] = Append(@, n)] /\ Gets(q, Data(n))
    BY <1>4 DEF PrintMessage
  <2>2. CASE q # p
    BY <1>3, <2>1, <2>2 DEF Typed, TypeOK
  <2>3. CASE q = p
    <3>1. printed'[p] = Append(printed[p], n)
      BY <2>1, <2>3 DEF Typed, TypeOK
    <3>2. printed[p] \in Seq(Message)
      BY DEF Typed, TypeOK
    <3>3. InSeq(n, handed'[p])
      <4>1. PICK s \in Seq(ClientMessages) : s = toClient[p]
        BY DEF Typed, TypeOK
      <4>2. s # <<>> /\ Head(s) = Data(n)
        BY <2>1, <2>3, <4>1 DEF Gets
      <4>3. 1 \in DOMAIN s /\ s[1] = Data(n)
        BY <4>2, EmptySeq, LenProperties, HeadTailProperties
      <4>4. Data(n).kind = "data" /\ Data(n).n = n
        BY DEF Data
      <4>5. InSeq(n, handed[p])
        BY <4>1, <4>3, <4>4 DEF DataHanded
      <4>6. QED
        BY <1>1, <4>5
    <3>4. PICK s \in Seq(Message) : s = printed[p]
      BY <3>2
    <3>5. /\ DOMAIN Append(s, n) = 1 .. Len(s) + 1 /\ DOMAIN s = 1 .. Len(s)
          /\ Len(s) \in Nat /\ Append(s, n)[Len(s) + 1] = n
          /\ \A x \in 1 .. Len(s) : Append(s, n)[x] = s[x]
      BY AppendElements
    <3>6. \A x : x \in 1 .. Len(s) + 1 <=> x \in 1 .. Len(s) \/ x = Len(s) + 1
      BY <3>5
    <3>7. QED
      BY <1>2, <3>1, <3>3, <3>4, <3>5, <3>6
  <2>4. QED
    BY <2>2, <2>3
<1>5. QED
  BY <1>3, <1>4, ClientHistories

-----------------------------------------------------------------------------
(* Only clients whose users asked are subscribed, owed, stored for, handed. *)
Asks(t, c) == c = 0 \/ (c \in DOMAIN tcp_clients /\ AsksFor(tcp_clients[c].id, t))
Asking == {x \in Topics \X (0 .. MaxClients) : Asks(x[1], x[2])}
SubscribersAsk == Within(Asking)
OwedTo(c, n) == c = 0 \/ (c \in DOMAIN tcp_clients /\ Wanted(tcp_clients[c].id, n))
TodoWanted == \A x \in DOMAIN todo : OwedTo(todo[x].subscriber, Len(published))
StoredWanted == \A k \in DOMAIN tcp_clients : \A n :
  InSeq(n, tcp_clients[k].unreceived) => Wanted(tcp_clients[k].id, n)
HandedWanted == \A p \in Procs : \A n : InSeq(n, handed[p]) => Wanted(IdOf[p], n)

(* The sender of a subscribe is the client it subscribes. *)
LEMMA SubscribesItself ==
  ASSUME Typed, Connections, CommandsAnnounced, SocketsOwn, SocketsApart,
         NEW i \in Fds, NEW p \in Procs, NEW m \in Commands, Subscribe(i, p, m)
  PROVE  /\ current_tcp_client' \in DOMAIN tcp_clients
         /\ tcp_clients[current_tcp_client'].id = IdOf[p]
<1>1. PICK c : c = current_tcp_client'
  OBVIOUS
<1>2. Reads(i, p, m) /\ m.kind = "subscribe"
  BY DEF Subscribe
<1>3. c \in DOMAIN tcp_clients /\ tcp_clients[c].current_socket = i
  BY <1>1, SubscriberFound DEF IsFirst, EntriesAt
<1>4. PICK j \in EntriesAt(i) : tcp_clients[j].is_active = 1
  BY <1>2, CommandFindsEntry DEF Typed
<1>5. c = j
  BY <1>3, <1>4 DEF SocketsApart, EntriesAt
<1>6. Owner(i) = p
  BY <1>2 DEF Reads, Owner
<1>7. QED
  BY <1>1, <1>3, <1>4, <1>5, <1>6 DEF SocketsOwn

LEMMA SubscribeAsked ==
  ASSUME TypeOK, SubscribesAsked,
         NEW i, NEW p \in Procs, NEW m, m.kind = "subscribe", Reads(i, p, m)
  PROVE  m.topic \in asked[p]
<1>1. PICK s \in Seq(ServerMessages) : s = toServer[p]
  BY DEF TypeOK
<1>2. s # <<>> /\ Head(s) = m
  BY <1>1 DEF Reads
<1>3. 1 \in DOMAIN s /\ s[1] = m
  BY <1>2, EmptySeq, LenProperties, HeadTailProperties
<1>4. QED
  BY <1>1, <1>3 DEF SubscribesAsked

LEMMA AskingGrows ==
  ASSUME Typed, [Next]_vars, NEW t, NEW c, Asks(t, c) PROVE Asks(t, c)'
<1>1. CASE c # 0
  <2>1. c \in DOMAIN tcp_clients /\ AsksFor(tcp_clients[c].id, t)
    BY <1>1 DEF Asks
  <2>2. c \in DOMAIN tcp_clients' /\ tcp_clients'[c].id = tcp_clients[c].id
    BY <2>1, Stays
  <2>3. PICK d : d = tcp_clients[c].id
    OBVIOUS
  <2>4. AsksFor(d, t)'
    BY <2>1, <2>3, AsksForStays DEF Typed
  <2>5. QED
    BY <2>2, <2>3, <2>4 DEF Asks, AsksFor
<1>2. QED
  BY <1>1 DEF Asks

LEMMA SubscribersAskStep ==
  ASSUME Typed, Connections, CommandsAnnounced, SocketsOwn, SocketsApart,
         SubscribesAsked, SubscribersAsk, [Next]_vars
  PROVE  SubscribersAsk'
<1>1. TypeOK
  BY DEF Typed
<1>2. PICK G : G = Asking
  OBVIOUS
<1>3. FillsWithin(G)
  <2>1. 0 \in 0 .. MaxClients
    BY ConstantsOK
  <2>2. QED
    BY <1>2, <2>1 DEF FillsWithin, Asking, Asks
<1>4. SubscribesWithin(G)
  <2>1. SUFFICES ASSUME NEW i \in Fds, NEW p \in Procs, NEW m \in Commands,
                        Subscribe(i, p, m), NEW t \in Topics, <<m.topic, t>> \in Substring
                 PROVE  <<t, current_tcp_client'>> \in G
    BY DEF SubscribesWithin
  <2>2. PICK c : c = current_tcp_client'
    OBVIOUS
  <2>3. c \in DOMAIN tcp_clients /\ tcp_clients[c].id = IdOf[p]
    BY <2>1, <2>2, SubscribesItself
  <2>4. m.topic \in asked[p]
    BY <1>1, <2>1, SubscribeAsked DEF Subscribe
  <2>5. AsksFor(tcp_clients[c].id, t)
    BY <2>1, <2>3, <2>4 DEF AsksFor
  <2>6. c \in 0 .. MaxClients
    <3>1. DOMAIN tcp_clients = 1 .. Len(tcp_clients) /\ Len(tcp_clients) \in Nat
          /\ Len(tcp_clients) <= MaxClients /\ MaxClients \in Nat
      BY <1>1, TableEntries, ConstantsOK DEF TypeOK
    <3>2. QED
      BY <2>3, <3>1
  <2>7. QED
    BY <1>2, <2>1, <2>2, <2>3, <2>5, <2>6 DEF Asking, Asks
<1>5. Within(G)'
  BY <1>2, <1>3, <1>4, WithinStep DEF SubscribersAsk
<1>6. ASSUME NEW t \in Topics, NEW c \in 0 .. MaxClients, <<t, c>> \in G
      PROVE  <<t, c>> \in Asking'
  BY <1>2, <1>6, AskingGrows DEF Asking
<1>7. G \subseteq Topics \X (0 .. MaxClients)
  BY <1>2 DEF Asking
<1>8. QED
  BY <1>5, <1>6, <1>7 DEF SubscribersAsk, Within

LEMMA OwedStays ==
  ASSUME Typed, [Next]_vars, NEW c, NEW n, OwedTo(c, n) PROVE OwedTo(c, n)'
<1>1. CASE c # 0
  <2>1. c \in DOMAIN tcp_clients /\ Wanted(tcp_clients[c].id, n)
    BY <1>1 DEF OwedTo
  <2>2. c \in DOMAIN tcp_clients' /\ tcp_clients'[c].id = tcp_clients[c].id
    BY <2>1, Stays
  <2>3. PICK d : d = tcp_clients[c].id
    OBVIOUS
  <2>4. Wanted(d, n)'
    BY <2>1, <2>3, WantedStays DEF Typed
  <2>5. QED
    BY <2>2, <2>3, <2>4 DEF OwedTo, Wanted, AsksFor
<1>2. QED
  BY <1>1 DEF OwedTo

(* The list of a fan-out is that of a datagram's topic, and then its tails. *)
LEMMA TodoMoves ==
  ASSUME Typed, [Next]_vars
  PROVE  \/ UNCHANGED <<todo, published>>
         \/ todo # <<>> /\ todo' = Tail(todo) /\ UNCHANGED published
         \/ \E t \in Topics : ReceiveDatagram(t)
<1>1. UNCHANGED Mapped => UNCHANGED <<todo, published>>
  BY DEF Mapped
<1>2. ASSUME NEW i \in Fds, NEW p \in Procs,
             Reads1(i, p) \/ \E m \in Commands : Reads2(i, p, m)
      PROVE  UNCHANGED <<todo, published>>
  BY <1>2 DEF Reads1, Reads2, Register, Reconnect, Disconnect, Subscribe, Unsubscribe, job
<1>3. CASE AwaitAck \/ StoreOrSkip
  <2>1. todo # <<>>
    BY <1>3 DEF AwaitAck, StoreOrSkip, ToInactive, FanningOut, Typed, HandlerHasWork
  <2>2. QED
    BY <1>3, <2>1 DEF AwaitAck, StoreOrSkip, Resume
<1>4. SendToActive \/ Replay \/ AwaitGotIt => UNCHANGED <<todo, published>>
  BY DEF SendToActive, Replay, AwaitGotIt, Crash, Halt, job
<1>5. QED
  BY <1>1, <1>2, <1>3, <1>4, WorkSteps DEF Works

LEMMA TodoWantedAfter ==
  ASSUME NEW n, n = Len(published'), NEW W, \A c \in W : OwedTo(c, n)',
         \A x \in DOMAIN todo' : todo'[x].subscriber \in W
  PROVE  TodoWanted'
  BY DEF TodoWanted, OwedTo, Wanted, AsksFor

LEMMA TodoWantedStep ==
  ASSUME Typed, SubscribersAsk, TodoWanted, [Next]_vars PROVE TodoWanted'
<1>1. TypeOK
  BY DEF Typed
<1>2. PICK n : n = Len(published)
  OBVIOUS
<1>3. PICK W : W = {todo[x].subscriber : x \in DOMAIN todo}
  OBVIOUS
<1>4. \A c \in W : OwedTo(c, n)'
  <2>1. SUFFICES ASSUME NEW c \in W PROVE OwedTo(c, n)'
    OBVIOUS
  <2>2. OwedTo(c, n)
    BY <1>2, <1>3 DEF TodoWanted
  <2>3. QED
    BY <2>2, OwedStays
<1>5. CASE UNCHANGED <<todo, published>>
  BY <1>2, <1>3, <1>4, <1>5, TodoWantedAfter
<1>6. CASE todo # <<>> /\ todo' = Tail(todo) /\ UNCHANGED published
  <2>1. PICK s \in Seq(Subscription) : s = todo
    BY <1>1 DEF TypeOK
  <2>2. /\ DOMAIN s = 1 .. Len(s) /\ Len(s) \in Nat /\ Len(Tail(s)) = Len(s) - 1
        /\ Tail(s) \in Seq(Subscription)
        /\ \A x \in 1 .. Len(Tail(s)) : Tail(s)[x] = s[x + 1]
    BY <1>6, <2>1, HeadTailProperties, LenProperties
  <2>3. DOMAIN Tail(s) = 1 .. Len(Tail(s))
    BY <2>2, LenProperties
  <2>4. \A x \in DOMAIN Tail(s) : \E y \in DOMAIN s : Tail(s)[x] = s[y]
    BY <2>2, <2>3
  <2>5. \A x \in DOMAIN todo' : \E y \in DOMAIN todo : todo'[x] = todo[y]
    BY <1>6, <2>1, <2>4
  <2>6. QED
    BY <1>2, <1>3, <1>4, <1>6, <2>5, TodoWantedAfter
<1>7. ASSUME NEW t \in Topics, ReceiveDatagram(t) PROVE TodoWanted'
  <2>1. PICK s \in Seq(Topics) : s = published
    BY <1>1 DEF TypeOK
  <2>2. published' = Append(s, t)
    BY <1>7, <2>1 DEF ReceiveDatagram
  <2>3. PICK r : r = Len(published')
    OBVIOUS
  <2>4. r \in DOMAIN published' /\ published'[r] = t
    <3>1. r = Len(s) + 1 /\ Len(s) \in Nat /\ DOMAIN Append(s, t) = 1 .. Len(s) + 1
          /\ Append(s, t)[Len(s) + 1] = t
      BY <2>2, <2>3, AppendElements, AppendProperties
    <3>2. Len(s) + 1 \in 1 .. Len(s) + 1
      BY <3>1
    <3>3. QED
      BY <2>2, <3>1, <3>2
  <2>5. ASSUME NEW c, Asks(t, c) PROVE OwedTo(c, r)'
    <3>1. Asks(t, c)'
      BY <2>5, AskingGrows
    <3>2. QED
      BY <2>4, <3>1 DEF Asks, OwedTo, Wanted
  <2>6. ASSUME NEW k \in DOMAIN all_topics, all_topics[k].topic = t,
               todo' = all_topics[k].subscribers
        PROVE  TodoWanted'
    <3>1. PICK V : V = {todo'[x].subscriber : x \in DOMAIN todo'}
      OBVIOUS
    <3>2. \A c \in V : Asks(t, c)
      BY <2>6, <3>1 DEF SubscribersAsk, Within, Asking
    <3>3. \A c \in V : OwedTo(c, r)'
      BY <2>5, <3>2
    <3>4. QED
      BY <2>3, <3>1, <3>3, TodoWantedAfter
  <2>7. todo' = <<>> \/ \E k \in DOMAIN all_topics :
          all_topics[k].topic = t /\ todo' = all_topics[k].subscribers
    BY <1>7 DEF ReceiveDatagram, Resume, TopicsNamed
  <2>8. CASE todo' = <<>>
    BY <2>8, EmptySeq DEF TodoWanted
  <2>9. QED
    BY <2>6, <2>7, <2>8
<1>8. QED
  BY <1>5, <1>6, <1>7, TodoMoves

(* What is stored for a client: it loses its head in a replay, and gains the *)
(* message in hand when it is that client's turn and it is away.            *)
LEMMA UnreceivedMoves ==
  ASSUME Typed, [Next]_vars, NEW k \in DOMAIN tcp_clients'
  PROVE  LET u == tcp_clients[k].unreceived
             t == tcp_clients'[k].unreceived
         IN  \/ t = <<>>
             \/ k \in DOMAIN tcp_clients /\ Shrinks(u, t)
             \/ /\ StoreOrSkip /\ ToInactive /\ k = Addressee /\ k \in DOMAIN tcp_clients
                /\ Len(published) \in Message /\ t = Append(u, Len(published))
<1> DEFINE Moves ==
      LET u == tcp_clients[k].unreceived
          t == tcp_clients'[k].unreceived
      IN  \/ t = <<>>
          \/ k \in DOMAIN tcp_clients /\ Shrinks(u, t)
          \/ /\ StoreOrSkip /\ ToInactive /\ k = Addressee /\ k \in DOMAIN tcp_clients
             /\ Len(published) \in Message /\ t = Append(u, Len(published))
<1>1. TypeOK
  BY DEF Typed
<1>2. PICK s \in Seq(ClientEntry) : s = tcp_clients
  BY <1>1 DEF TypeOK
<1>3. s \in [DOMAIN s -> ClientEntry] /\ \A j \in DOMAIN s : s[j].unreceived \in Seq(Message)
  BY <1>1, <1>2, LenProperties, TableEntries
<1>4. k \in DOMAIN s /\ tcp_clients'[k].unreceived = s[k].unreceived => Moves
  BY <1>2 DEF Shrinks
<1>5. CASE UNCHANGED tcp_clients
  BY <1>2, <1>4, <1>5
<1>6. CASE StoreOrSkip /\ tcp_clients' # tcp_clients
  <2>1. PICK v : v = Append(s[Addressee].unreceived, Len(published))
    OBVIOUS
  <2>2. tcp_clients' = [s EXCEPT ![Addressee].unreceived = v]
    BY <1>2, <1>6, <2>1 DEF StoreOrSkip
  <2>3. k \in DOMAIN s /\ (k # Addressee => tcp_clients'[k] = s[k])
    BY <2>2
  <2>4. k = Addressee => tcp_clients'[k].unreceived = v
    BY <1>3, <2>2, <2>3 DEF ClientEntry
  <2>5. Len(published) \in Message /\ ToInactive
    BY <1>6, LastMessage DEF StoreOrSkip, ToInactive, FanningOut
  <2>6. QED
    BY <1>2, <1>4, <1>6, <2>1, <2>3, <2>4, <2>5
<1>7. CASE AwaitGotIt /\ tcp_clients' # tcp_clients
  <2>1. PICK v : v = Tail(s[flushing].unreceived)
    OBVIOUS
  <2>2. tcp_clients' = [s EXCEPT ![flushing].unreceived = v]
    BY <1>2, <1>7, <2>1 DEF AwaitGotIt, Unanswered
  <2>3. k \in DOMAIN s /\ (k # flushing => tcp_clients'[k] = s[k])
    BY <2>2
  <2>4. k = flushing => tcp_clients'[k].unreceived = v
    BY <1>3, <2>2, <2>3 DEF ClientEntry
  <2>5. k = flushing => s[k].unreceived # <<>>
    BY <1>2, <1>7 DEF AwaitGotIt, Typed, HandlerHasWork, Replaying
  <2>6. QED
    BY <1>2, <1>4, <2>1, <2>3, <2>4, <2>5 DEF Shrinks
<1>8. ASSUME NEW i \in Fds, NEW p \in Procs, Register(i, p) PROVE Moves
  <2>1. PICK e : e = NewEntry(i, p)
    OBVIOUS
  <2>2. e \in ClientEntry /\ e.unreceived = <<>>
    BY <2>1, EmptySeq DEF NewEntry, ClientEntry, Ids
  <2>3. tcp_clients' = Append(s, e)
    BY <1>2, <1>8, <2>1 DEF Register
  <2>4. PICK j : j = Len(s)
    OBVIOUS
  <2>5. /\ DOMAIN tcp_clients' = 1 .. j + 1 /\ DOMAIN s = 1 .. j /\ j \in Nat
        /\ tcp_clients'[j + 1] = e
        /\ \A x \in 1 .. j : tcp_clients'[x] = s[x]
    BY <2>2, <2>3, <2>4, AppendElements
  <2>6. \A x : x \in 1 .. j + 1 <=> x \in 1 .. j \/ x = j + 1
    BY <2>5
  <2>7. QED
    BY <1>4, <2>2, <2>5, <2>6
<1>9. ASSUME NEW i \in Fds, NEW p \in Procs, Reconnect(i, p) \/ Disconnect(i, p),
             tcp_clients' # tcp_clients
      PROVE  k \in DOMAIN s /\ tcp_clients'[k].unreceived = s[k].unreceived
  <2>1. CASE Reconnect(i, p)
    <3>1. PICK j : tcp_clients' = [s EXCEPT ![j].is_active = 1, ![j].current_socket = i]
      BY <1>2, <2>1 DEF Reconnect
    <3>2. QED
      BY <1>3, <3>1 DEF ClientEntry
  <2>2. CASE Disconnect(i, p) /\ tcp_clients' # tcp_clients
    <3>1. PICK j : tcp_clients' = [s EXCEPT ![j].is_active = 0]
      BY <1>2, <2>2 DEF Disconnect, Deactivated
    <3>2. QED
      BY <1>3, <3>1 DEF ClientEntry
  <2>3. QED
    BY <1>9, <2>1, <2>2
<1>10. QED
  BY <1>4, <1>5, <1>6, <1>7, <1>8, <1>9, TablesStep DEF ChangesClients

(* What is stored was stored before, or is the message in hand, stored for  *)
(* the client whose turn it is.                                             *)
LEMMA StoredMoves ==
  ASSUME Typed, [Next]_vars, NEW k \in DOMAIN tcp_clients', NEW n,
         InSeq(n, tcp_clients'[k].unreceived)
  PROVE  \/ k \in DOMAIN tcp_clients /\ InSeq(n, tcp_clients[k].unreceived)
         \/ /\ StoreOrSkip /\ ToInactive /\ k = Addressee /\ k \in DOMAIN tcp_clients
            /\ n = Len(published)
<1>1. tcp_clients'[k].unreceived # <<>>
  BY EmptySeq DEF InSeq
<1>2. k \in DOMAIN tcp_clients => tcp_clients[k].unreceived \in Seq(Message)
  BY TableEntries DEF Typed
<1>3. CASE k \in DOMAIN tcp_clients
           /\ Shrinks(tcp_clients[k].unreceived, tcp_clients'[k].unreceived)
  BY <1>2, <1>3, ShrinksElements DEF InSeq
<1>4. CASE /\ StoreOrSkip /\ ToInactive /\ k = Addressee /\ k \in DOMAIN tcp_clients
           /\ Len(published) \in Message
           /\ tcp_clients'[k].unreceived = Append(tcp_clients[k].unreceived, Len(published))
  BY <1>2, <1>4, AppendInSeq
<1>5. QED
  BY <1>1, <1>3, <1>4, UnreceivedMoves

LEMMA StoredWantedStep ==
  ASSUME Typed, TodoWanted, StoredWanted, [Next]_vars PROVE StoredWanted'
<1>1. SUFFICES ASSUME NEW k \in DOMAIN tcp_clients', NEW n,
                      InSeq(n, tcp_clients'[k].unreceived), NEW c, c = tcp_clients'[k].id
               PROVE  Wanted(c, n)'
  BY DEF StoredWanted, Wanted, AsksFor
<1>2. CASE k \in DOMAIN tcp_clients /\ InSeq(n, tcp_clients[k].unreceived)
  <2>1. c = tcp_clients[k].id
    BY <1>1, <1>2, Stays
  <2>2. Wanted(c, n)
    BY <1>2, <2>1 DEF StoredWanted
  <2>3. QED
    BY <2>2, WantedStays DEF Typed
<1>3. CASE ToInactive /\ k = Addressee /\ k \in DOMAIN tcp_clients /\ n = Len(published)
  <2>1. c = tcp_clients[k].id
    BY <1>1, <1>3, Stays
  <2>2. todo \in Seq(Subscription) /\ todo # <<>>
    BY <1>3 DEF Typed, TypeOK, HandlerHasWork, ToInactive, FanningOut
  <2>3. 1 \in DOMAIN todo /\ todo[1] = Head(todo)
    BY <2>2, EmptySeq, LenProperties, HeadTailProperties
  <2>4. OwedTo(k, n) /\ k # 0
    BY <1>3, <2>3 DEF TodoWanted, Addressee, ToInactive
  <2>5. Wanted(c, n)
    BY <2>1, <2>4 DEF OwedTo
  <2>6. QED
    BY <2>5, WantedStays DEF Typed
<1>4. \/ k \in DOMAIN tcp_clients /\ InSeq(n, tcp_clients[k].unreceived)
      \/ ToInactive /\ k = Addressee /\ k \in DOMAIN tcp_clients /\ n = Len(published)
  BY <1>1, StoredMoves DEF InSeq
<1>5. QED
  BY <1>2, <1>3, <1>4

(* A message is handed to a process of the client it is meant for. *)
LEMMA HandedToOwn ==
  ASSUME Typed, SocketsOwn, TodoWanted, StoredWanted, ReplaysToActive, [Next]_vars,
         UNCHANGED handed => FALSE
  PROVE  \E p \in Procs, n \in Message : Hands(p, n) /\ Wanted(IdOf[p], n)
<1>1. TypeOK
  BY DEF Typed
<1>2. ASSUME NEW k \in DOMAIN tcp_clients, tcp_clients[k].is_active = 1,
             NEW n \in Message, Wanted(tcp_clients[k].id, n),
             Hands(fd_owner[tcp_clients[k].current_socket], n)
      PROVE  \E p \in Procs, m \in Message : Hands(p, m) /\ Wanted(IdOf[p], m)
  <2>1. PICK p : p = fd_owner[tcp_clients[k].current_socket]
    OBVIOUS
  <2>2. tcp_clients[k].current_socket \in Fds
    BY <1>1, TableEntries DEF ClientEntry
  <2>3. p \in Procs /\ IdOf[p] = tcp_clients[k].id
    BY <1>2, <2>1, <2>2 DEF SocketsOwn, Owner, Hands
  <2>4. QED
    BY <1>2, <2>1, <2>3
<1>3. CASE SendToActive /\ Hands(fd_owner[tcp_clients[Addressee].current_socket],
                                 Len(published))
  <2>1. todo \in Seq(Subscription) /\ todo # <<>> /\ Addressee # 0
        /\ tcp_clients[Addressee].is_active = 1
    BY <1>3 DEF Typed, TypeOK, HandlerHasWork, SendToActive, ToActive, FanningOut
  <2>2. 1 \in DOMAIN todo /\ todo[1] = Head(todo)
    BY <2>1, EmptySeq, LenProperties, HeadTailProperties
  <2>3. OwedTo(Addressee, Len(published))
    BY <2>2 DEF TodoWanted, Addressee
  <2>4. Addressee \in DOMAIN tcp_clients
        /\ Wanted(tcp_clients[Addressee].id, Len(published))
    BY <2>1, <2>3 DEF OwedTo
  <2>5. Len(published) \in Message
    BY <1>3 DEF Hands
  <2>6. QED
    BY <1>2, <1>3, <2>1, <2>4, <2>5
<1>4. CASE Replay /\ Hands(fd_owner[tcp_clients[flushing].current_socket],
                           Head(tcp_clients[flushing].unreceived))
  <2>1. PICK k : k = flushing
    OBVIOUS
  <2>2. k \in DOMAIN tcp_clients /\ tcp_clients[k].unreceived # <<>>
        /\ tcp_clients[k].is_active = 1
    BY <1>4, <2>1 DEF Replay, Typed, HandlerHasWork, Replaying, ReplaysToActive
  <2>3. PICK s \in Seq(Message) : s = tcp_clients[k].unreceived
    BY <1>1, <2>2, TableEntries
  <2>4. 1 \in DOMAIN s /\ s[1] = Head(s) /\ Head(s) \in Message
    BY <2>2, <2>3, EmptySeq, LenProperties, HeadTailProperties
  <2>5. Wanted(tcp_clients[k].id, Head(s))
    BY <2>2, <2>3, <2>4 DEF StoredWanted, InSeq
  <2>6. QED
    BY <1>2, <1>4, <2>1, <2>2, <2>3, <2>4, <2>5
<1>5. QED
  BY <1>3, <1>4, HandedStep

LEMMA HandedWantedStep ==
  ASSUME Typed, SocketsOwn, TodoWanted, StoredWanted, ReplaysToActive, HandedWanted,
         [Next]_vars
  PROVE  HandedWanted'
<1>1. SUFFICES ASSUME NEW q \in Procs, NEW n, InSeq(n, handed'[q]), NEW c, c = IdOf[q]
               PROVE  Wanted(c, n)'
  BY DEF HandedWanted, Wanted, AsksFor
<1>2. CASE InSeq(n, handed[q])
  <2>1. Wanted(c, n)
    BY <1>1, <1>2 DEF HandedWanted
  <2>2. QED
    BY <2>1, WantedStays DEF Typed
<1>3. ASSUME NEW p \in Procs, NEW m \in Message, Hands(p, m), Wanted(IdOf[p], m)
      PROVE  Wanted(c, n)'
  <2>1. CASE handed'[q] = handed[q]
    BY <1>1, <1>2, <2>1
  <2>2. CASE q = p
    <3>1. handed'[q] = Append(handed[q], m)
      BY <1>3, <2>2, HandedAt DEF Typed
    <3>2. handed[q] \in Seq(Message)
      BY DEF Typed, TypeOK
    <3>3. InSeq(n, handed[q]) \/ n = m
      BY <1>1, <3>1, <3>2, AppendInSeq
    <3>4. Wanted(c, m)'
      BY <1>1, <1>3, <2>2, WantedStays DEF Typed
    <3>5. QED
      BY <1>2, <3>3, <3>4
  <2>3. QED
    BY <1>3, <2>1, <2>2, HandedAt DEF Typed
<1>4. QED
  BY <1>1, <1>2, <1>3, HandedToOwn

-----------------------------------------------------------------------------
WantedInv == /\ Typed /\ Connections /\ CommandsAnnounced /\ SocketsOwn /\ UnknownApart
             /\ ReplaysToActive /\ SubscribesAsked /\ SubscribersAsk
             /\ TodoWanted /\ StoredWanted /\ HandedWanted /\ DataHanded /\ PrintsHanded

LEMMA WantedInvInit == ASSUME Init PROVE WantedInv
<1>1. Typed /\ Connections /\ CommandsAnnounced /\ SocketsOwn /\ UnknownApart
  BY InitTyped, ConnectionsInit, CommandsInit, OwnInit
<1>2. ReplaysToActive
  BY DEF Init, ReplaysToActive, Replaying
<1>3. SubscribesAsked /\ DataHanded /\ PrintsHanded /\ HandedWanted
  BY EmptySeq DEF Init, SubscribesAsked, DataHanded, PrintsHanded, HandedWanted, InSeq
<1>4. SubscribersAsk /\ TodoWanted /\ StoredWanted
  BY EmptySeq DEF Init, SubscribersAsk, Within, TodoWanted, StoredWanted
<1>5. QED
  BY <1>1, <1>2, <1>3, <1>4 DEF WantedInv

LEMMA WantedInvStep ==
  ASSUME ~EagerUsers, WantedInv, Orderly, [Next]_vars PROVE WantedInv'
<1>1. Typed' /\ Connections' /\ CommandsAnnounced' /\ SocketsOwn' /\ UnknownApart'
  BY NextTyped, ConnectionsStep, CommandsStep, OwnStep DEF WantedInv
<1>2. ReplaysToActive'
  BY ReplaysStep DEF WantedInv
<1>3. SubscribesAsked' /\ SubscribersAsk' /\ TodoWanted' /\ StoredWanted'
  BY SubscribesStep, SubscribersAskStep, TodoWantedStep, StoredWantedStep
  DEF WantedInv, Orderly
<1>4. HandedWanted' /\ DataHanded' /\ PrintsHanded'
  BY HandedWantedStep, DataStep, PrintsStep DEF WantedInv
<1>5. QED
  BY <1>1, <1>2, <1>3, <1>4 DEF WantedInv

(* While users wait to be announced and connections are orderly, no message *)
(* strays: a stored one, one that is fanned out, one that is on its way and *)
(* one that is printed are all of topics its client asked for, however      *)
(* clients come, go and subscribe.                                          *)
THEOREM PrintsAreWanted == ASSUME ~EagerUsers PROVE Spec /\ []Orderly => []PrintsWanted
<1>1. Init => WantedInv
  BY WantedInvInit
<1>2. WantedInv /\ Orderly /\ [Next]_vars => WantedInv'
  BY WantedInvStep
<1>3. WantedInv => PrintsWanted
  BY DEF WantedInv, PrintsWanted, PrintsHanded, HandedWanted, Wanted, AsksFor
<1>4. QED
  BY <1>1, <1>2, <1>3, PTL DEF Spec

(* With IDs that differ, its own user asked. *)
THEOREM NothingUnsolicited ==
  ASSUME ~EagerUsers, IdsDiffer PROVE Spec /\ []Orderly => []NoUnsolicited
<1>1. PrintsWanted => NoUnsolicited
  BY DEF PrintsWanted, NoUnsolicited, IdsDiffer
<1>2. Spec /\ []Orderly => []PrintsWanted
  BY PrintsAreWanted
<1>3. QED
  BY <1>1, <1>2, PTL

(* Clients that stay and have IDs of their own are orderly.                 *)
THEOREM StayingNothingUnsolicited ==
  ASSUME ~EagerUsers, NobodyLeaves, IdsDiffer PROVE Spec => []NoUnsolicited
<1>1. Spec => []Orderly
  BY StayingIsOrderly
<1>2. Spec /\ []Orderly => []NoUnsolicited
  BY NothingUnsolicited
<1>3. QED
  BY <1>1, <1>2, PTL

-----------------------------------------------------------------------------
(* Store-and-forward loses nothing.  While nobody unsubscribes, a topic's   *)
(* list of subscriptions only grows, *)
NobodyUnsubscribes == \A m \in Commands : m.kind # "unsubscribe"
Lists(t, x) == \E k \in DOMAIN all_topics :
  all_topics[k].topic = t /\ InSeq(x, all_topics[k].subscribers)

LEMMA SubscribeLists ==
  ASSUME Typed, NEW i \in Fds, NEW p \in Procs, NEW m \in Commands, Subscribe(i, p, m),
         NEW k \in DOMAIN all_topics
  PROVE  /\ k \in DOMAIN all_topics' /\ all_topics'[k].topic = all_topics[k].topic
         /\ \A x : InSeq(x, all_topics[k].subscribers)
                     => InSeq(x, all_topics'[k].subscribers)
<1>1. PICK c : c = current_tcp_client'
  OBVIOUS
<1>2. PICK own : own = [subscriber |-> c, SF |-> m.SF]
  OBVIOUS
<1>3. own \in Subscription /\ TypeOK
  <2>1. TypeOK
    BY DEF Typed
  <2>2. \A x \in EntriesAt(i) : x \in 1 .. Len(tcp_clients)
    BY <2>1, TableEntries DEF EntriesAt
  <2>3. current_tcp_client' \in 0 .. Len(tcp_clients)
    BY <2>1, <2>2, TableEntries DEF Subscribe, TypeOK
  <2>4. c \in 0 .. MaxClients
    BY <1>1, <2>1, <2>3, TableEntries, ConstantsOK DEF TypeOK
  <2>5. m.SF \in {0, 1}
    BY ConstantsOK
  <2>6. QED
    BY <1>2, <2>1, <2>4, <2>5 DEF Subscription
<1>4. PICK a \in Seq(TopicEntry) : a = all_topics
  BY <1>3 DEF TypeOK
<1>5. a \in [DOMAIN a -> TopicEntry] /\ DOMAIN a = 1 .. Len(a) /\ Len(a) \in Nat
  BY LenProperties
<1>6. PICK s \in Seq(Subscription) : s = a[k].subscribers
  BY <1>3, <1>4, TableEntries
<1>7. ASSUME NEW j, all_topics' = [a EXCEPT ![j].subscribers = Append(@, own)]
      PROVE  /\ k \in DOMAIN all_topics' /\ all_topics'[k].topic = a[k].topic
             /\ \A x : InSeq(x, s) => InSeq(x, all_topics'[k].subscribers)
  <2>1. CASE j # k
    BY <1>4, <1>5, <1>6, <1>7, <2>1
  <2>2. CASE j = k
    <3>1. PICK w : w = Append(s, own)
      OBVIOUS
    <3>2. all_topics'[k].topic = a[k].topic /\ all_topics'[k].subscribers = w
          /\ k \in DOMAIN all_topics'
      BY <1>4, <1>5, <1>6, <1>7, <2>2, <3>1 DEF TopicEntry
    <3>3. \A x : InSeq(x, s) => InSeq(x, w)
      BY <1>3, <3>1, AppendInSeq
    <3>4. QED
      BY <3>2, <3>3
  <2>3. QED
    BY <2>1, <2>2
<1>8. ASSUME NEW e, all_topics' = Append(a, e)
      PROVE  k \in DOMAIN all_topics' /\ all_topics'[k] = a[k]
  BY <1>4, <1>5, <1>8
<1>9. QED
  BY <1>1, <1>2, <1>4, <1>6, <1>7, <1>8 DEF Subscribe

LEMMA ListsGrow ==
  ASSUME NobodyUnsubscribes, Typed, [Next]_vars, NEW t, NEW x, Lists(t, x)
  PROVE  Lists(t, x)'
<1>1. PICK k \in DOMAIN all_topics :
        all_topics[k].topic = t /\ InSeq(x, all_topics[k].subscribers)
  BY DEF Lists
<1>2. ASSUME k \in DOMAIN all_topics', all_topics'[k].topic = all_topics[k].topic,
             InSeq(x, all_topics'[k].subscribers)
      PROVE  Lists(t, x)'
  BY <1>1, <1>2 DEF Lists, InSeq
<1>3. CASE UNCHANGED all_topics
  BY <1>1, <1>2, <1>3
<1>4. ASSUME NEW u \in Topics, ReceiveDatagram(u) PROVE Lists(t, x)'
  <2>1. PICK a \in Seq(TopicEntry) : a = all_topics
    BY DEF Typed, TypeOK
  <2>2. UNCHANGED all_topics \/ \E e : all_topics' = Append(a, e)
    BY <1>4, <2>1 DEF ReceiveDatagram
  <2>3. DOMAIN a = 1 .. Len(a) /\ Len(a) \in Nat
    BY LenProperties
  <2>4. ASSUME NEW e, all_topics' = Append(a, e)
        PROVE  k \in DOMAIN all_topics' /\ all_topics'[k] = a[k]
    BY <1>1, <2>1, <2>3, <2>4
  <2>5. QED
    BY <1>1, <1>2, <1>3, <2>1, <2>2, <2>4
<1>5. ASSUME NEW i \in Fds, NEW p \in Procs, NEW m \in Commands, Subscribe(i, p, m)
      PROVE  Lists(t, x)'
  BY <1>1, <1>2, <1>5, SubscribeLists
<1>6. ASSUME NEW i \in Fds, NEW p \in Procs, NEW m \in Commands, Unsubscribe(i, p, m)
      PROVE  FALSE
  BY <1>6 DEF Unsubscribe, NobodyUnsubscribes
<1>7. QED
  BY <1>3, <1>4, <1>5, <1>6, TablesStep DEF ChangesTopics

(* so what a list asks of the messages of a client is asked of it later.    *)
LEMMA EntriesGrow ==
  ASSUME Typed, [Next]_vars, NEW c, NEW k \in EntriesWithId(c)
  PROVE  k \in EntriesWithId(c)'
  BY Stays DEF EntriesWithId

LEMMA StoresForLists ==
  ASSUME TypeOK
  PROVE  \A c, t : StoresFor(c, t) <=>
           \A x : Lists(t, x) /\ x.subscriber \in EntriesWithId(c) => x.SF = 1
  BY DEF StoresFor, Lists, InSeq

LEMMA StoredForBefore ==
  ASSUME NobodyUnsubscribes, Typed, [Next]_vars, NEW c, NEW t, StoresFor(c, t)'
  PROVE  StoresFor(c, t)
<1>1. TypeOK
  BY DEF Typed
<1>2. SUFFICES ASSUME NEW x, Lists(t, x), x.subscriber \in EntriesWithId(c)
               PROVE  x.SF = 1
  BY <1>1, StoresForLists
<1>3. Lists(t, x)'
  BY <1>2, ListsGrow
<1>4. PICK k : k = x.subscriber
  OBVIOUS
<1>5. k \in EntriesWithId(c)'
  BY <1>2, <1>4, EntriesGrow
<1>6. QED
  BY <1>3, <1>4, <1>5 DEF StoresFor, Lists, InSeq

(* The datagram in hand goes to subscriptions of its topic. *)
TodoListed == \A x \in DOMAIN todo : Lists(published[Len(published)], todo[x])

LEMMA TodoDoneStep == ASSUME TodoDone, [Next]_vars PROVE TodoDone'
<1>1. UNCHANGED Mapped => TodoDone'
  BY DEF Mapped, TodoDone
<1>2. ASSUME NEW l, Resume(l) PROVE TodoDone'
  BY <1>2 DEF Resume, TodoDone
<1>3. ASSUME NEW t \in Topics, ReceiveDatagram(t) PROVE TodoDone'
  BY <1>2, <1>3 DEF ReceiveDatagram
<1>4. AwaitAck \/ StoreOrSkip => TodoDone'
  BY <1>2 DEF AwaitAck, StoreOrSkip
<1>5. SendToActive => TodoDone'
  BY DEF SendToActive, TodoDone
<1>6. Replay \/ AwaitGotIt => TodoDone'
  BY DEF Replay, AwaitGotIt, Crash, Halt, job, TodoDone
<1>7. ASSUME NEW i \in Fds, NEW p \in Procs,
             Reads1(i, p) \/ \E m \in Commands : Reads2(i, p, m)
      PROVE  TodoDone'
  BY <1>7 DEF Reads1, Reads2, Register, Reconnect, Disconnect, Subscribe, Unsubscribe,
     job, Reads, Turn, TodoDone
<1>8. QED
  BY <1>1, <1>3, <1>4, <1>5, <1>6, <1>7, WorkSteps DEF Works

(* A new datagram goes to all of them. *)
LEMMA DatagramListed ==
  ASSUME Typed, TopicNamesUnique, NEW t \in Topics, ReceiveDatagram(t)
  PROVE  /\ published'[Len(published')] = t /\ Len(published') = Len(published) + 1
         /\ DOMAIN published' = 1 .. Len(published) + 1
         /\ \A x : Lists(t, x) <=> InSeq(x, todo')
         /\ UNCHANGED <<tcp_clients, handed>> /\ pc = "loop"
<1>1. PICK s \in Seq(Topics) : s = published
  BY DEF Typed, TypeOK
<1>2. published' = Append(s, t) /\ pc = "loop" /\ UNCHANGED <<tcp_clients, handed>>
  BY <1>1 DEF ReceiveDatagram, Turn, client
<1>3. /\ Len(published') = Len(s) + 1 /\ published'[Len(s) + 1] = t
      /\ DOMAIN published' = 1 .. Len(s) + 1
  BY <1>2, AppendElements, AppendProperties
<1>4. CASE TopicsNamed(t) = {}
  <2>1. todo' = <<>>
    BY <1>4 DEF ReceiveDatagram, Resume
  <2>2. \A x : ~InSeq(x, todo') /\ ~Lists(t, x)
    BY <1>4, <2>1, EmptySeq DEF InSeq, Lists, TopicsNamed
  <2>3. QED
    BY <1>1, <1>2, <1>3, <2>2
<1>5. CASE TopicsNamed(t) # {}
  <2>1. PICK k \in DOMAIN all_topics :
          all_topics[k].topic = t /\ todo' = all_topics[k].subscribers
    BY <1>5 DEF ReceiveDatagram, Resume, TopicsNamed
  <2>2. \A j \in DOMAIN all_topics : all_topics[j].topic = t => j = k
    BY <2>1 DEF TopicNamesUnique
  <2>3. PICK w : w = todo'
    OBVIOUS
  <2>4. \A x : Lists(t, x) <=> InSeq(x, w)
    BY <2>1, <2>2, <2>3 DEF Lists
  <2>5. QED
    BY <1>1, <1>2, <1>3, <2>3, <2>4
<1>6. QED
  BY <1>4, <1>5

LEMMA TailInSeq ==
  ASSUME NEW T, NEW s \in Seq(T), s # <<>>, NEW x, InSeq(x, s)
  PROVE  x = Head(s) \/ InSeq(x, Tail(s))
<1>1. /\ DOMAIN s = 1 .. Len(s) /\ Len(s) \in Nat /\ Len(Tail(s)) = Len(s) - 1
      /\ Tail(s) \in Seq(T) /\ Head(s) = s[1]
      /\ \A y \in 1 .. Len(Tail(s)) : Tail(s)[y] = s[y + 1]
  BY HeadTailProperties, LenProperties
<1>2. DOMAIN Tail(s) = 1 .. Len(Tail(s))
  BY <1>1, LenProperties
<1>3. PICK y \in 1 .. Len(s) : s[y] = x
  BY <1>1 DEF InSeq
<1>4. CASE y = 1
  BY <1>1, <1>3, <1>4
<1>5. CASE y # 1
  <2>1. y - 1 \in 1 .. Len(Tail(s)) /\ (y - 1) + 1 = y
    BY <1>1, <1>3, <1>5
  <2>2. Tail(s)[y - 1] = x
    BY <1>1, <1>3, <2>1
  <2>3. QED
    BY <1>2, <2>1, <2>2 DEF InSeq
<1>6. QED
  BY <1>4, <1>5

LEMMA TodoListedStep ==
  ASSUME NobodyUnsubscribes, Typed, TopicNamesUnique, TodoListed, [Next]_vars
  PROVE  TodoListed'
<1>1. PICK t : t = published[Len(published)]
  OBVIOUS
<1>2. \A x : Lists(t, x) => Lists(t, x)'
  BY ListsGrow
<1>3. \A x : InSeq(x, todo) => Lists(t, x)'
  BY <1>1, <1>2 DEF TodoListed, InSeq
<1>4. ASSUME UNCHANGED published, \A x \in DOMAIN todo' : InSeq(todo'[x], todo)
      PROVE  TodoListed'
  BY <1>1, <1>3, <1>4 DEF TodoListed, Lists, InSeq
<1>5. CASE UNCHANGED <<todo, published>>
  <2>1. \A x \in DOMAIN todo' : InSeq(todo'[x], todo)
    BY <1>5 DEF InSeq
  <2>2. QED
    BY <1>4, <1>5, <2>1
<1>6. CASE todo # <<>> /\ todo' = Tail(todo) /\ UNCHANGED published
  <2>1. PICK s \in Seq(Subscription) : s = todo
    BY DEF Typed, TypeOK
  <2>2. Shrinks(s, Tail(s))
    BY <1>6, <2>1 DEF Shrinks
  <2>3. \A x \in DOMAIN Tail(s) : \E y \in DOMAIN s : Tail(s)[x] = s[y]
    BY <2>2, ShrinksElements
  <2>4. \A x \in DOMAIN todo' : InSeq(todo'[x], todo)
    BY <1>6, <2>1, <2>3 DEF InSeq
  <2>5. QED
    BY <1>4, <1>6, <2>4
<1>7. ASSUME NEW u \in Topics, ReceiveDatagram(u) PROVE TodoListed'
  <2>1. published'[Len(published')] = u
    BY <1>7, DatagramListed
  <2>2. \A x : InSeq(x, todo') => Lists(u, x)'
    BY <1>7, DatagramListed, ListsGrow
  <2>3. QED
    BY <2>1, <2>2 DEF TodoListed, Lists, InSeq
<1>8. QED
  BY <1>5, <1>6, <1>7, TodoMoves

(* Whose turn it is in a fan-out. *)
LEMMA AddresseeListed ==
  ASSUME Typed, SubscribersResolve, TodoListed, todo # <<>>
  PROVE  /\ Lists(published[Len(published)], Head(todo))
         /\ Addressee # 0 => Addressee \in DOMAIN tcp_clients
<1>1. todo \in Seq(Subscription) /\ TypeOK
  BY DEF Typed, TypeOK
<1>2. 1 \in DOMAIN todo /\ todo[1] = Head(todo)
  BY <1>1, EmptySeq, LenProperties, HeadTailProperties
<1>3. Lists(published[Len(published)], Head(todo))
  BY <1>2 DEF TodoListed
<1>4. Addressee \in 0 .. Len(tcp_clients)
  BY <1>3 DEF Lists, InSeq, SubscribersResolve, Addressee
<1>5. DOMAIN tcp_clients = 1 .. Len(tcp_clients) /\ Len(tcp_clients) \in Nat
  BY <1>1, TableEntries
<1>6. QED
  BY <1>3, <1>4, <1>5

(* Whoever a fan-out goes to is in the table, or is none. *)
TodoWithin == \A x \in DOMAIN todo : todo[x].subscriber \in 0 .. Len(tcp_clients)

LEMMA ListedWithin == ASSUME SubscribersResolve, TodoListed PROVE TodoWithin
  BY DEF SubscribersResolve, TodoListed, TodoWithin, Lists, InSeq

LEMMA AddresseeWithin ==
  ASSUME Typed, TodoWithin, todo # <<>>, Addressee # 0
  PROVE  Addressee \in DOMAIN tcp_clients
<1>1. todo \in Seq(Subscription) /\ TypeOK
  BY DEF Typed, TypeOK
<1>2. 1 \in DOMAIN todo /\ todo[1] = Head(todo)
  BY <1>1, EmptySeq, LenProperties, HeadTailProperties
<1>3. Addressee \in 0 .. Len(tcp_clients)
  BY <1>2 DEF TodoWithin, Addressee
<1>4. DOMAIN tcp_clients = 1 .. Len(tcp_clients) /\ Len(tcp_clients) \in Nat
  BY <1>1, TableEntries
<1>5. QED
  BY <1>3, <1>4

(* What a client has got, or is stored for it. *)
Reached(c, n) == Got(c, n) \/ StoredFor(c, n)

(* A message for which an answer is awaited has been handed over. *)
AwaitedGot ==
  /\ pc = "ack" => Got(tcp_clients[Addressee].id, Len(published))
  /\ pc = "gotit" => Got(tcp_clients[flushing].id, Head(tcp_clients[flushing].unreceived))

LEMMA GotStays ==
  ASSUME Typed, [Next]_vars, NEW c, NEW n, Got(c, n) PROVE Got(c, n)'
<1>1. PICK p \in Procs : IdOf[p] = c /\ InSeq(n, handed[p])
  BY DEF Got
<1>2. InSeq(n, handed'[p])
  BY <1>1, HandedGrows
<1>3. QED
  BY <1>1, <1>2 DEF Got, InSeq

(* A stored message stays stored until it has been answered. *)
LEMMA StoredKept ==
  ASSUME Typed, [Next]_vars, NEW k \in DOMAIN tcp_clients, NEW n,
         InSeq(n, tcp_clients[k].unreceived)
  PROVE  \/ k \in DOMAIN tcp_clients' /\ InSeq(n, tcp_clients'[k].unreceived)
         \/ pc = "gotit" /\ k = flushing /\ n = Head(tcp_clients[k].unreceived)
<1>1. TypeOK
  BY DEF Typed
<1>2. PICK s \in Seq(ClientEntry) : s = tcp_clients
  BY <1>1 DEF TypeOK
<1>3. s \in [DOMAIN s -> ClientEntry] /\ s[k].unreceived \in Seq(Message)
  BY <1>1, <1>2, LenProperties, TableEntries
<1>4. PICK u \in Seq(Message) : u = s[k].unreceived
  BY <1>3
<1>5. ASSUME NEW j, NEW v, tcp_clients' = [s EXCEPT ![j].unreceived = v]
      PROVE  /\ k \in DOMAIN tcp_clients' /\ (k # j => tcp_clients'[k] = s[k])
             /\ k = j => tcp_clients'[k].unreceived = v
  BY <1>2, <1>3, <1>5 DEF ClientEntry
<1>6. CASE UNCHANGED tcp_clients
  BY <1>6
<1>7. CASE StoreOrSkip /\ tcp_clients' # tcp_clients
  <2>1. PICK a : a = Addressee
    OBVIOUS
  <2>2. PICK v : v = Append(s[a].unreceived, Len(published))
    OBVIOUS
  <2>3. tcp_clients' = [s EXCEPT ![a].unreceived = v]
    BY <1>2, <1>7, <2>1, <2>2 DEF StoreOrSkip
  <2>4. Len(published) \in Message
    BY <1>7, LastMessage DEF StoreOrSkip, ToInactive, FanningOut
  <2>5. k = a => InSeq(n, v)
    BY <1>2, <1>4, <2>2, <2>4, AppendInSeq
  <2>6. QED
    BY <1>2, <1>5, <2>3, <2>5
<1>8. CASE AwaitGotIt /\ tcp_clients' # tcp_clients
  <2>1. PICK a : a = flushing
    OBVIOUS
  <2>2. PICK v : v = Tail(s[a].unreceived)
    OBVIOUS
  <2>3. tcp_clients' = [s EXCEPT ![a].unreceived = v] /\ pc = "gotit"
    BY <1>2, <1>8, <2>1, <2>2 DEF AwaitGotIt, Unanswered
  <2>4. k = a => n = Head(u) \/ InSeq(n, v)
    <3>1. u # <<>> /\ InSeq(n, u)
      BY <1>2, <1>4, EmptySeq DEF InSeq
    <3>2. QED
      BY <1>4, <2>2, <3>1, TailInSeq
  <2>5. QED
    BY <1>2, <1>4, <1>5, <2>1, <2>3, <2>4
<1>9. ASSUME NEW i \in Fds, NEW p \in Procs, Register(i, p)
      PROVE  k \in DOMAIN tcp_clients' /\ tcp_clients'[k] = s[k]
  <2>1. PICK e : e = NewEntry(i, p)
    OBVIOUS
  <2>2. tcp_clients' = Append(s, e)
    BY <1>2, <1>9, <2>1 DEF Register
  <2>3. DOMAIN s = 1 .. Len(s) /\ Len(s) \in Nat
    BY LenProperties
  <2>4. QED
    BY <1>2, <2>2, <2>3
<1>10. ASSUME NEW i \in Fds, NEW p \in Procs, Reconnect(i, p) \/ Disconnect(i, p),
              tcp_clients' # tcp_clients
       PROVE  k \in DOMAIN tcp_clients' /\ tcp_clients'[k].unreceived = s[k].unreceived
  <2>1. CASE Reconnect(i, p)
    <3>1. PICK j : tcp_clients' = [s EXCEPT ![j].is_active = 1, ![j].current_socket = i]
      BY <1>2, <2>1 DEF Reconnect
    <3>2. QED
      BY <1>2, <1>3, <3>1 DEF ClientEntry
  <2>2. CASE Disconnect(i, p) /\ tcp_clients' # tcp_clients
    <3>1. PICK j : tcp_clients' = [s EXCEPT ![j].is_active = 0]
      BY <1>2, <2>2 DEF Disconnect, Deactivated
    <3>2. QED
      BY <1>2, <1>3, <3>1 DEF ClientEntry
  <2>3. QED
    BY <1>10, <2>1, <2>2
<1>11. QED
  BY <1>2, <1>6, <1>7, <1>8, <1>9, <1>10, TablesStep DEF ChangesClients

LEMMA ReachedStays ==
  ASSUME Typed, AwaitedGot, [Next]_vars, NEW c, NEW n, Reached(c, n)
  PROVE  Reached(c, n)'
<1>1. CASE Got(c, n)
  BY <1>1, GotStays DEF Reached
<1>2. ASSUME NEW k \in EntriesWithId(c), InSeq(n, tcp_clients[k].unreceived)
      PROVE  Reached(c, n)'
  <2>1. k \in DOMAIN tcp_clients /\ tcp_clients[k].id = c
    BY DEF EntriesWithId
  <2>2. k \in EntriesWithId(c)'
    BY EntriesGrow
  <2>3. CASE InSeq(n, tcp_clients'[k].unreceived)
    BY <2>2, <2>3 DEF Reached, StoredFor, InSeq
  <2>4. CASE pc = "gotit" /\ k = flushing /\ n = Head(tcp_clients[k].unreceived)
    BY <1>1, <2>1, <2>4 DEF AwaitedGot
  <2>5. QED
    BY <1>2, <2>1, <2>3, <2>4, StoredKept
<1>3. QED
  BY <1>1, <1>2 DEF Reached, StoredFor

(* The client a message is sent to gets it. *)
LEMMA SentIsGot ==
  ASSUME TypeOK, ActiveSocketIsOwn, status = "running", NEW k \in DOMAIN tcp_clients,
         tcp_clients[k].is_active = 1, NEW n,
         Hands(fd_owner[tcp_clients[k].current_socket], n)
  PROVE  \A c : Got(c, n)' <=> Got(c, n) \/ c = tcp_clients[k].id
<1>1. PICK p : p = fd_owner[tcp_clients[k].current_socket]
  OBVIOUS
<1>2. p \in Procs /\ IdOf[p] = tcp_clients[k].id /\ Hands(p, n)
  BY <1>1, SentToOwn
<1>3. ASSUME NEW q \in Procs
      PROVE  InSeq(n, handed'[q]) <=> InSeq(n, handed[q]) \/ q = p
  <2>1. handed[q] \in Seq(Message) /\ n \in Message
    BY <1>2 DEF TypeOK, Hands
  <2>2. InSeq(n, Append(handed[q], n))
    BY <2>1, AppendInSeq
  <2>3. handed'[q] = IF q = p THEN Append(handed[q], n) ELSE handed[q]
    BY <1>2, HandedAt
  <2>4. CASE q = p
    BY <2>2, <2>3, <2>4
  <2>5. CASE q # p
    BY <2>3, <2>5
  <2>6. QED
    BY <2>4, <2>5
<1>4. QED
  BY <1>2, <1>3 DEF Got, InSeq

(* Other messages reach nobody they had not reached. *)
LEMMA OthersNotGot ==
  ASSUME TypeOK, NEW p, NEW m, Hands(p, m), NEW c, NEW n, n # m, Got(c, n)'
  PROVE  Got(c, n)
<1>1. PICK q \in Procs : IdOf[q] = c /\ InSeq(n, handed'[q])
  BY DEF Got, InSeq
<1>2. handed[q] \in Seq(Message) /\ m \in Message
  BY DEF TypeOK, Hands
<1>3. InSeq(n, Append(handed[q], m)) => InSeq(n, handed[q])
  BY <1>2, AppendInSeq
<1>4. handed'[q] = IF q = p THEN Append(handed[q], m) ELSE handed[q]
  BY HandedAt
<1>5. InSeq(n, handed[q])
  BY <1>1, <1>3, <1>4
<1>6. QED
  BY <1>1, <1>5 DEF Got

(* A client gets a message when it is sent to it: in a fan-out, when it is  *)
(* its turn, or in a replay, from what is stored for it.                    *)
SentNow(c, n) ==
  /\ SendToActive /\ n = Len(published) /\ n \in DOMAIN published
  /\ Addressee \in EntriesWithId(c) /\ tcp_clients[Addressee].is_active = 1
ReplayedNow(c, n) ==
  /\ Replay /\ pc' = "gotit" /\ UNCHANGED <<tcp_clients, flushing>>
  /\ flushing \in EntriesWithId(c) /\ n = Head(tcp_clients[flushing].unreceived)

LEMMA GotMoves ==
  ASSUME Typed, ActiveSocketIsOwn, ReplaysToActive, TodoWithin, [Next]_vars,
         NEW c, NEW n, Got(c, n)'
  PROVE  Got(c, n) \/ SentNow(c, n) \/ ReplayedNow(c, n)
<1>1. TypeOK
  BY DEF Typed
<1>2. CASE UNCHANGED handed
  BY <1>2 DEF Got
<1>3. CASE SendToActive /\ Hands(fd_owner[tcp_clients[Addressee].current_socket],
                                 Len(published))
  <2>1. todo # <<>> /\ Addressee # 0 /\ tcp_clients[Addressee].is_active = 1
        /\ status = "running" /\ pc = "fanout"
    BY <1>3 DEF SendToActive, ToActive, FanningOut, Typed, HandlerHasWork
  <2>2. PICK a \in DOMAIN tcp_clients : a = Addressee
    BY <2>1, AddresseeWithin
  <2>3. PICK m : m = Len(published)
    OBVIOUS
  <2>4. m \in DOMAIN published
    BY <2>1, <2>3, LastMessage
  <2>5. Hands(fd_owner[tcp_clients[a].current_socket], m)
    BY <1>3, <2>2, <2>3
  <2>6. CASE n = m
    <3>1. Got(c, n) \/ c = tcp_clients[a].id
      BY <1>1, <2>1, <2>2, <2>5, <2>6, SentIsGot
    <3>2. QED
      BY <1>3, <2>1, <2>2, <2>3, <2>4, <2>6, <3>1 DEF SentNow, EntriesWithId
  <2>7. CASE n # m
    BY <1>1, <2>5, <2>7, OthersNotGot
  <2>8. QED
    BY <2>6, <2>7
<1>4. CASE ~UNCHANGED handed
           /\ Replay /\ Hands(fd_owner[tcp_clients[flushing].current_socket],
                              Head(tcp_clients[flushing].unreceived))
  <2>1. PICK k : k = flushing
    OBVIOUS
  <2>2. k \in DOMAIN tcp_clients /\ tcp_clients[k].is_active = 1 /\ status = "running"
    BY <1>4, <2>1 DEF Replay, Typed, HandlerHasWork, Replaying, ReplaysToActive
  <2>3. PICK m : m = Head(tcp_clients[k].unreceived)
    OBVIOUS
  <2>4. Hands(fd_owner[tcp_clients[k].current_socket], m)
    BY <1>4, <2>1, <2>3
  <2>5. pc' = "gotit" /\ UNCHANGED <<tcp_clients, flushing>>
    BY <1>4 DEF Replay, Crash, Halt, client, registry, job
  <2>6. CASE n = m
    <3>1. Got(c, n) \/ c = tcp_clients[k].id
      BY <1>1, <2>2, <2>4, <2>6, SentIsGot
    <3>2. QED
      BY <1>4, <2>1, <2>2, <2>3, <2>5, <2>6, <3>1 DEF ReplayedNow, EntriesWithId
  <2>7. CASE n # m
    BY <1>1, <2>4, <2>7, OthersNotGot
  <2>8. QED
    BY <2>6, <2>7
<1>5. QED
  BY <1>2, <1>3, <1>4, HandedStep

LEMMA HeadInSeq ==
  ASSUME NEW T, NEW s \in Seq(T), s # <<>> PROVE InSeq(Head(s), s)
<1>1. 1 \in DOMAIN s /\ s[1] = Head(s)
  BY EmptySeq, LenProperties, HeadTailProperties
<1>2. QED
  BY <1>1 DEF InSeq

(* A message reaches a client it had not reached while it is fanned out,    *)
(* when it is that client's turn.                                           *)
LEMMA ReachedMoves ==
  ASSUME Typed, ActiveSocketIsOwn, ReplaysToActive, TodoWithin, [Next]_vars,
         NEW c, NEW n, Reached(c, n)'
  PROVE  \/ Reached(c, n)
         \/ /\ SendToActive \/ StoreOrSkip
            /\ todo # <<>> /\ n = Len(published) /\ n \in DOMAIN published
            /\ pc = "fanout" /\ Addressee \in EntriesWithId(c)
<1>1. TypeOK
  BY DEF Typed
<1>2. CASE SentNow(c, n)
  BY <1>2 DEF SentNow, SendToActive, ToActive, FanningOut, Typed, HandlerHasWork
<1>3. CASE ReplayedNow(c, n)
  <2>1. PICK k : k = flushing
    OBVIOUS
  <2>2. k \in EntriesWithId(c) /\ n = Head(tcp_clients[k].unreceived)
    BY <1>3, <2>1 DEF ReplayedNow
  <2>3. k \in DOMAIN tcp_clients /\ tcp_clients[k].unreceived # <<>>
    BY <1>3, <2>1 DEF ReplayedNow, Replay, Typed, HandlerHasWork, Replaying
  <2>4. tcp_clients[k].unreceived \in Seq(Message)
    BY <1>1, <2>3, TableEntries
  <2>5. InSeq(n, tcp_clients[k].unreceived)
    BY <2>2, <2>3, <2>4, HeadInSeq
  <2>6. QED
    BY <2>2, <2>5 DEF Reached, StoredFor
<1>4. CASE StoredFor(c, n)'
  <2>1. PICK k \in DOMAIN tcp_clients' :
          tcp_clients'[k].id = c /\ InSeq(n, tcp_clients'[k].unreceived)
    BY <1>4 DEF StoredFor, EntriesWithId, InSeq
  <2>2. k \in DOMAIN tcp_clients => tcp_clients[k].id = c
    BY <2>1, Stays
  <2>3. CASE k \in DOMAIN tcp_clients /\ InSeq(n, tcp_clients[k].unreceived)
    BY <2>2, <2>3 DEF Reached, StoredFor, EntriesWithId
  <2>4. CASE /\ StoreOrSkip /\ ToInactive /\ k = Addressee /\ k \in DOMAIN tcp_clients
             /\ n = Len(published)
    <3>1. todo # <<>> /\ pc = "fanout"
      BY <2>4 DEF ToInactive, FanningOut, Typed, HandlerHasWork
    <3>2. n \in DOMAIN published
      BY <2>4, <3>1, LastMessage
    <3>3. QED
      BY <2>2, <2>4, <3>1, <3>2 DEF EntriesWithId
  <2>5. QED
    BY <2>1, <2>3, <2>4, StoredMoves
<1>5. QED
  BY <1>2, <1>3, <1>4, GotMoves DEF Reached

(* Handlers wait for an answer only after a send. *)
LEMMA WaitsAfterSend ==
  ASSUME [Next]_vars
  PROVE  /\ pc' = "ack" => SendToActive \/ UNCHANGED Mapped
         /\ pc' = "gotit" => Replay \/ UNCHANGED Mapped
<1>1. ASSUME NEW l, Resume(l) PROVE pc' \notin {"ack", "gotit"}
  BY <1>1 DEF Resume
<1>2. ASSUME NEW t \in Topics, ReceiveDatagram(t) PROVE pc' \notin {"ack", "gotit"}
  BY <1>1, <1>2 DEF ReceiveDatagram
<1>3. AwaitAck \/ StoreOrSkip => pc' \notin {"ack", "gotit"}
  BY <1>1 DEF AwaitAck, StoreOrSkip
<1>4. SendToActive => pc' = "ack"
  BY DEF SendToActive
<1>5. Replay => pc' = "gotit" \/ pc' = "flush"
  BY DEF Replay, Crash, Halt
<1>6. AwaitGotIt => pc' \notin {"ack", "gotit"} \/ UNCHANGED Mapped
  BY DEF AwaitGotIt, Mapped, job, client
<1>7. AwaitGotIt => pc' # "ack"
  BY DEF AwaitGotIt
<1>8. ASSUME NEW i \in Fds, NEW p \in Procs,
             Reads1(i, p) \/ \E m \in Commands : Reads2(i, p, m)
      PROVE  pc' \notin {"ack", "gotit"}
  BY <1>8 DEF Reads1, Reads2, Register, Reconnect, Disconnect, Subscribe, Unsubscribe,
     Reads, Turn
<1>9. QED
  BY <1>2, <1>3, <1>4, <1>5, <1>6, <1>7, <1>8, WorkSteps DEF Works

LEMMA AwaitedGotStep ==
  ASSUME Typed, ActiveSocketIsOwn, ReplaysToActive, SubscribersResolve, TodoListed,
         AwaitedGot, [Next]_vars
  PROVE  AwaitedGot'
<1>1. TypeOK
  BY DEF Typed
<1>2. CASE UNCHANGED Mapped
  BY <1>2 DEF Mapped, AwaitedGot, Addressee, Got
<1>3. CASE SendToActive
  <2>1. todo # <<>> /\ Addressee # 0 /\ tcp_clients[Addressee].is_active = 1
        /\ status = "running" /\ UNCHANGED <<tcp_clients, todo, published>> /\ pc' = "ack"
    BY <1>3 DEF SendToActive, ToActive, FanningOut, Typed, HandlerHasWork, registry, job
  <2>2. PICK a \in DOMAIN tcp_clients : a = Addressee
    BY <2>1, AddresseeListed
  <2>3. PICK m : m = Len(published)
    OBVIOUS
  <2>4. PICK c : c = tcp_clients[a].id
    OBVIOUS
  <2>5. Hands(fd_owner[tcp_clients[a].current_socket], m)
    <3>1. m \in Message
      BY <1>3, <2>3, LastMessage DEF SendToActive, ToActive, FanningOut
    <3>2. QED
      BY <1>1, <1>3, <2>2, <2>3, <3>1 DEF SendToActive, Hands, CanSend, Owner, TypeOK
  <2>6. Got(c, m)'
    BY <1>1, <2>1, <2>2, <2>4, <2>5, SentIsGot
  <2>7. pc' # "gotit"
    BY <2>1
  <2>8. QED
    BY <2>1, <2>2, <2>3, <2>4, <2>6, <2>7 DEF AwaitedGot, Addressee, Got
<1>4. CASE Replay /\ ~UNCHANGED Mapped
  <2>1. PICK k : k = flushing
    OBVIOUS
  <2>2. k \in DOMAIN tcp_clients /\ tcp_clients[k].unreceived # <<>>
        /\ tcp_clients[k].is_active = 1 /\ status = "running"
    BY <1>4, <2>1 DEF Replay, Typed, HandlerHasWork, Replaying, ReplaysToActive
  <2>3. ~Crash("died")
    BY <1>4 DEF Crash, Halt, Mapped, registry, job, client
  <2>4. UNCHANGED <<tcp_clients, flushing>> /\ pc' = "gotit"
    BY <1>4, <2>3 DEF Replay, registry, job
  <2>5. PICK s \in Seq(Message) : s = tcp_clients[k].unreceived
    BY <1>1, <2>2, TableEntries
  <2>6. PICK m \in Message : m = Head(s)
    BY <2>2, <2>5, HeadTailProperties
  <2>7. PICK c : c = tcp_clients[k].id
    OBVIOUS
  <2>8. Hands(fd_owner[tcp_clients[k].current_socket], m)
    BY <1>1, <1>4, <2>1, <2>3, <2>5, <2>6 DEF Replay, Hands, CanSend, Owner, TypeOK
  <2>9. Got(c, m)'
    BY <1>1, <2>2, <2>7, <2>8, SentIsGot
  <2>10. pc' # "ack"
    BY <2>4
  <2>11. QED
    BY <2>1, <2>4, <2>5, <2>6, <2>7, <2>9, <2>10 DEF AwaitedGot, Got
<1>5. CASE pc' \notin {"ack", "gotit"}
  BY <1>5 DEF AwaitedGot
<1>6. QED
  BY <1>2, <1>3, <1>4, <1>5, WaitsAfterSend

(* A client reached by a message is subscribed to its topic, *)
Subscribed(c, t) == \E x : Lists(t, x) /\ x.subscriber \in EntriesWithId(c)
ReachedSubscribed == \A c : \A n :
  Reached(c, n) => n \in DOMAIN published /\ Subscribed(c, published[n])

LEMMA SubscribedStays ==
  ASSUME NobodyUnsubscribes, Typed, [Next]_vars, NEW c, NEW t, Subscribed(c, t)
  PROVE  Subscribed(c, t)'
<1>1. PICK x : Lists(t, x) /\ x.subscriber \in EntriesWithId(c)
  BY DEF Subscribed
<1>2. PICK k : k = x.subscriber
  OBVIOUS
<1>3. Lists(t, x)' /\ k \in EntriesWithId(c)'
  BY <1>1, <1>2, ListsGrow, EntriesGrow
<1>4. QED
  BY <1>2, <1>3 DEF Subscribed, Lists, InSeq, EntriesWithId

LEMMA ReachedSubscribedStep ==
  ASSUME NobodyUnsubscribes, Typed, ActiveSocketIsOwn, ReplaysToActive,
         SubscribersResolve, TodoListed, ReachedSubscribed, [Next]_vars
  PROVE  ReachedSubscribed'
<1>1. SUFFICES ASSUME NEW c, NEW n, Reached(c, n)', NEW t, t = published'[n]
               PROVE  n \in DOMAIN published' /\ Subscribed(c, t)'
  BY DEF ReachedSubscribed, Subscribed, Lists
<1>2. n \in DOMAIN published /\ Subscribed(c, published[n])
  <2>1. CASE Reached(c, n)
    BY <2>1 DEF ReachedSubscribed
  <2>2. CASE todo # <<>> /\ n = Len(published) /\ n \in DOMAIN published
             /\ Addressee \in EntriesWithId(c)
    BY <2>2, AddresseeListed DEF Subscribed, Addressee
  <2>3. QED
    BY <1>1, <2>1, <2>2, ReachedMoves, ListedWithin
<1>3. n \in DOMAIN published' /\ published'[n] = published[n]
  BY <1>2, PublishedGrows DEF Typed
<1>4. Subscribed(c, t)'
  BY <1>1, <1>2, <1>3, SubscribedStays
<1>5. QED
  BY <1>3, <1>4

(* so that a later message of the topic is owed to it, *)
OwedStill(c) == \E x \in DOMAIN todo : todo[x].subscriber \in EntriesWithId(c)

LEMMA OwedMoves ==
  ASSUME Typed, [Next]_vars, NEW c, OwedStill(c), UNCHANGED published
  PROVE  \/ OwedStill(c)'
         \/ Addressee \in EntriesWithId(c) /\ (AwaitAck \/ StoreOrSkip)
<1>1. PICK s \in Seq(Subscription) : s = todo
  BY DEF Typed, TypeOK
<1>2. PICK x : InSeq(x, s) /\ x.subscriber \in EntriesWithId(c)
  BY <1>1 DEF OwedStill, InSeq
<1>3. PICK k : k = x.subscriber
  OBVIOUS
<1>4. k \in EntriesWithId(c)'
  BY <1>2, <1>3, EntriesGrow
<1>5. ASSUME InSeq(x, todo') PROVE OwedStill(c)'
  BY <1>3, <1>4, <1>5 DEF OwedStill, InSeq, EntriesWithId
<1>6. CASE UNCHANGED todo
  BY <1>1, <1>2, <1>5, <1>6
<1>7. CASE AwaitAck \/ StoreOrSkip
  <2>1. todo # <<>> /\ todo' = Tail(todo)
    BY <1>7 DEF AwaitAck, StoreOrSkip, ToInactive, FanningOut, Typed, HandlerHasWork,
       Resume
  <2>2. x = Head(s) \/ InSeq(x, Tail(s))
    BY <1>1, <1>2, <2>1, TailInSeq
  <2>3. QED
    BY <1>1, <1>2, <1>5, <1>7, <2>1, <2>2 DEF Addressee
<1>8. SendToActive \/ Replay \/ AwaitGotIt \/ UNCHANGED Mapped => UNCHANGED todo
  BY DEF SendToActive, Replay, AwaitGotIt, Crash, Halt, Mapped, job
<1>9. ASSUME NEW i \in Fds, NEW p \in Procs,
             Reads1(i, p) \/ \E m \in Commands : Reads2(i, p, m)
      PROVE  UNCHANGED todo
  BY <1>9 DEF Reads1, Reads2, Register, Reconnect, Disconnect, Subscribe, Unsubscribe, job
<1>10. ASSUME NEW t \in Topics, ReceiveDatagram(t) PROVE FALSE
  <2>1. PICK u \in Seq(Topics) : u = published
    BY DEF Typed, TypeOK
  <2>2. published' = Append(u, t)
    BY <1>10, <2>1 DEF ReceiveDatagram
  <2>3. Len(Append(u, t)) = Len(u) + 1 /\ Len(u) \in Nat
    BY AppendProperties, LenProperties
  <2>4. QED
    BY <2>1, <2>2, <2>3
<1>11. QED
  BY <1>6, <1>7, <1>8, <1>9, <1>10, WorkSteps DEF Works

(* and reaches it, or is stored, when its turn is over. *)
LEMMA Served ==
  ASSUME Typed, SubscribersResolve, TodoListed, AwaitedGot, [Next]_vars,
         AwaitAck \/ StoreOrSkip, NEW c, Addressee \in EntriesWithId(c),
         StoresFor(c, published[Len(published)])
  PROVE  Reached(c, Len(published))'
<1>1. PICK a : a = Addressee
  OBVIOUS
<1>2. PICK m : m = Len(published)
  OBVIOUS
<1>3. a \in DOMAIN tcp_clients /\ tcp_clients[a].id = c /\ TypeOK
      /\ UNCHANGED published
  BY <1>1 DEF EntriesWithId, Typed, AwaitAck, StoreOrSkip
<1>4. CASE AwaitAck
  <2>1. Got(c, m)
    BY <1>1, <1>2, <1>3, <1>4 DEF AwaitAck, AwaitedGot
  <2>2. Got(c, m)'
    BY <2>1, GotStays
  <2>3. QED
    BY <1>2, <1>3, <2>2 DEF Reached, Got
<1>5. CASE StoreOrSkip
  <2>1. todo # <<>> /\ pc = "fanout"
    BY <1>5 DEF StoreOrSkip, ToInactive, FanningOut, Typed, HandlerHasWork
  <2>2. Head(todo).SF = 1
    BY <1>3, <2>1, AddresseeListed, StoresForLists DEF Addressee
  <2>3. PICK s \in Seq(ClientEntry) : s = tcp_clients
    BY <1>3 DEF TypeOK
  <2>4. s \in [DOMAIN s -> ClientEntry] /\ s[a].unreceived \in Seq(Message)
    BY <1>3, <2>3, LenProperties, TableEntries
  <2>5. m \in Message
    BY <1>2, <2>1, LastMessage
  <2>6. PICK v : v = Append(s[a].unreceived, m)
    OBVIOUS
  <2>7. InSeq(m, v)
    BY <2>4, <2>5, <2>6, AppendInSeq
  <2>8. tcp_clients' = [s EXCEPT ![a].unreceived = v]
    BY <1>1, <1>2, <1>5, <2>2, <2>3, <2>6 DEF StoreOrSkip
  <2>9. a \in DOMAIN tcp_clients' /\ tcp_clients'[a].unreceived = v
        /\ tcp_clients'[a].id = c
    BY <1>3, <2>3, <2>4, <2>8 DEF ClientEntry
  <2>10. QED
    BY <1>2, <1>3, <2>7, <2>9 DEF Reached, StoredFor, EntriesWithId, InSeq
<1>6. QED
  BY <1>4, <1>5

-----------------------------------------------------------------------------
(* No gap between a message that reached a client and the later ones.       *)
Gapless == \A c \in Ids : \A n, m \in DOMAIN published :
  /\ n < m /\ published[n] = published[m] /\ StoresFor(c, published[n])
  /\ Reached(c, n)
  => Reached(c, m) \/ (m = Len(published) /\ OwedStill(c))

LEMMA GaplessStep ==
  ASSUME NobodyUnsubscribes, Typed, ActiveSocketIsOwn, ReplaysToActive,
         SubscribersResolve, TopicNamesUnique, TodoDone, TodoListed, AwaitedGot,
         ReachedSubscribed, Gapless, [Next]_vars
  PROVE  Gapless'
<1>1. SUFFICES ASSUME NEW c \in Ids, NEW n \in DOMAIN published', NEW m \in DOMAIN published',
                      n < m, published'[n] = published'[m], NEW t, t = published'[n],
                      StoresFor(c, t)', Reached(c, n)'
               PROVE  Reached(c, m)' \/ (m = Len(published') /\ OwedStill(c)')
  BY DEF Gapless, StoresFor, EntriesWithId
<1>2. PICK s \in Seq(Topics) : s = published
  BY DEF Typed, TypeOK
<1>3. DOMAIN s = 1 .. Len(s) /\ Len(s) \in Nat
  BY LenProperties
<1>4. StoresFor(c, t)
  BY <1>1, StoredForBefore
<1>5. ASSUME n \in DOMAIN published PROVE Reached(c, n) \/ n = Len(published)
  BY <1>1, ReachedMoves, ListedWithin
<1>6. CASE UNCHANGED published
  <2>1. n \in 1 .. Len(s) /\ m \in 1 .. Len(s)
    BY <1>1, <1>2, <1>3, <1>6
  <2>2. n # Len(s)
    BY <1>1, <1>3, <2>1
  <2>3. Reached(c, n)
    BY <1>2, <1>3, <1>5, <2>1, <2>2
  <2>4. Reached(c, m) \/ (m = Len(published) /\ OwedStill(c))
    BY <1>1, <1>4, <1>6, <2>3 DEF Gapless
  <2>5. CASE Reached(c, m)
    BY <2>5, ReachedStays
  <2>6. CASE m = Len(published) /\ OwedStill(c)
    <3>1. OwedStill(c)' \/ (Addressee \in EntriesWithId(c) /\ (AwaitAck \/ StoreOrSkip))
      BY <1>6, <2>6, OwedMoves
    <3>2. CASE OwedStill(c)'
      BY <1>6, <2>6, <3>2
    <3>3. CASE Addressee \in EntriesWithId(c) /\ (AwaitAck \/ StoreOrSkip)
      <4>1. StoresFor(c, published[Len(published)])
        BY <1>1, <1>4, <1>6, <2>6
      <4>2. Reached(c, Len(published))'
        BY <3>3, <4>1, Served
      <4>3. QED
        BY <1>6, <2>6, <4>2
    <3>4. QED
      BY <3>1, <3>2, <3>3
  <2>7. QED
    BY <2>4, <2>5, <2>6
<1>7. ASSUME NEW u \in Topics, ReceiveDatagram(u)
      PROVE  Reached(c, m)' \/ (m = Len(published') /\ OwedStill(c)')
  <2>1. /\ DOMAIN published' = 1 .. Len(s) + 1 /\ Len(published') = Len(s) + 1
        /\ published'[Len(s) + 1] = u /\ \A x : Lists(u, x) <=> InSeq(x, todo')
        /\ UNCHANGED <<tcp_clients, handed>> /\ pc = "loop"
    BY <1>2, <1>7, DatagramListed
  <2>2. n \in 1 .. Len(s) /\ published'[n] = published[n] /\ n \in DOMAIN published
    <3>1. n \in 1 .. Len(s)
      BY <1>1, <1>3, <2>1
    <3>2. QED
      BY <1>2, <1>3, <3>1, PublishedGrows DEF Typed
  <2>3. Reached(c, n)
    BY <1>1, <2>1 DEF Reached, Got, StoredFor, EntriesWithId
  <2>4. CASE m \in 1 .. Len(s)
    <3>1. m \in DOMAIN published /\ published'[m] = published[m]
      BY <1>2, <1>3, <2>4, PublishedGrows DEF Typed
    <3>2. ~OwedStill(c)
      BY <2>1, EmptySeq DEF TodoDone, OwedStill
    <3>3. Reached(c, m)
      BY <1>1, <1>4, <2>2, <2>3, <3>1, <3>2 DEF Gapless
    <3>4. QED
      BY <3>3, ReachedStays
  <2>5. CASE m = Len(s) + 1
    <3>1. t = u
      BY <1>1, <2>1, <2>5
    <3>2. PICK x : Lists(u, x) /\ x.subscriber \in EntriesWithId(c)
      BY <1>1, <2>2, <2>3, <3>1 DEF ReachedSubscribed, Subscribed
    <3>3. InSeq(x, todo')
      BY <2>1, <3>2
    <3>4. OwedStill(c)'
      BY <2>1, <3>2, <3>3 DEF OwedStill, InSeq, EntriesWithId
    <3>5. QED
      BY <2>1, <2>5, <3>4
  <2>6. QED
    BY <1>1, <1>3, <2>1, <2>4, <2>5
<1>8. UNCHANGED published \/ \E u \in Topics : ReceiveDatagram(u)
  BY ServerHistories
<1>9. QED
  BY <1>6, <1>7, <1>8

GapInv == /\ Typed /\ SubscribersResolve /\ TopicNamesUnique /\ ReplaysToActive /\ TodoDone
          /\ TodoListed /\ AwaitedGot /\ ReachedSubscribed /\ Gapless

LEMMA GapInvInit == ASSUME Init PROVE GapInv
<1>1. Typed /\ SubscribersResolve /\ TopicNamesUnique
  BY InitTyped, TopicsInit
<1>2. ReplaysToActive /\ TodoDone /\ TodoListed /\ AwaitedGot
  BY EmptySeq DEF Init, ReplaysToActive, Replaying, TodoDone, TodoListed, AwaitedGot
<1>3. \A c : \A n : ~Reached(c, n)
  BY EmptySeq DEF Init, Reached, Got, StoredFor, InSeq, EntriesWithId
<1>4. QED
  BY <1>1, <1>2, <1>3 DEF GapInv, ReachedSubscribed, Gapless

LEMMA GapInvStep ==
  ASSUME NobodyUnsubscribes, GapInv, ActiveSocketIsOwn, [Next]_vars PROVE GapInv'
<1>1. Typed' /\ SubscribersResolve' /\ TopicNamesUnique' /\ ReplaysToActive'
  BY NextTyped, TopicsInvStep, ReplaysStep DEF GapInv
<1>2. TodoDone' /\ TodoListed' /\ AwaitedGot'
  BY TodoDoneStep, TodoListedStep, AwaitedGotStep DEF GapInv
<1>3. ReachedSubscribed' /\ Gapless'
  BY ReachedSubscribedStep, GaplessStep DEF GapInv
<1>4. QED
  BY <1>1, <1>2, <1>3 DEF GapInv

(* Store-and-forward loses nothing, for any number of clients, topics and   *)
(* messages, however clients come and go: once a message has reached a       *)
(* client that stores its topic, every later one of that topic is sent to it *)
(* or stored for it when the fan-out has passed it (server.c:218, 286).      *)
THEOREM NothingIsMissed ==
  ASSUME NobodyUnsubscribes PROVE Spec /\ []ActiveSocketIsOwn => []NoGap
<1>1. Init => GapInv
  BY GapInvInit
<1>2. GapInv /\ ActiveSocketIsOwn /\ [Next]_vars => GapInv'
  BY GapInvStep
<1>3. GapInv => NoGap
  <2> SUFFICES ASSUME GapInv, status = "running", NEW c \in Ids,
                      NEW n \in DOMAIN published, NEW m \in DOMAIN published,
                      n < m, published[n] = published[m], StoresFor(c, published[n]),
                      Got(c, n) \/ StoredFor(c, n)
               PROVE  Got(c, m) \/ StoredFor(c, m) \/ (m = Len(published) /\ todo # <<>>)
    BY DEF NoGap
  <2>1. Reached(c, m) \/ (m = Len(published) /\ OwedStill(c))
    BY DEF GapInv, Gapless, Reached
  <2>2. OwedStill(c) => todo # <<>>
    BY EmptySeq DEF OwedStill
  <2>3. QED
    BY <2>1, <2>2 DEF Reached
<1>4. QED
  BY <1>1, <1>2, <1>3, PTL DEF Spec

(* In particular while connections are orderly, *)
THEOREM OrderlyNothingIsMissed ==
  ASSUME NobodyUnsubscribes PROVE Spec /\ []Orderly => []NoGap
  BY NothingIsMissed, SocketsAreOwn, PTL

(* and so for clients that have IDs of their own and stay.                  *)
THEOREM StayingNothingIsMissed ==
  ASSUME NobodyUnsubscribes, NobodyLeaves, IdsDiffer PROVE Spec => []NoGap
<1>1. Spec => []Orderly
  BY StayingIsOrderly
<1>2. Spec /\ []Orderly => []NoGap
  BY OrderlyNothingIsMissed
<1>3. QED
  BY <1>1, <1>2, PTL

-----------------------------------------------------------------------------
(* Nothing that is sent is lost.  A process that is connected, or may be,   *)
Live(p) == cstate[p] = "start" \/ (cstate[p] = "running" /\ link[p] = "open")

(* has been connected, or could have been, before. *)
LEMMA ClosedStaysClosed ==
  ASSUME Typed, [Next]_vars, NEW p \in Procs, link'[p] = "open"
  PROVE  link[p] = "open" \/ cstate[p] = "start"
<1> TypeOK
  BY DEF Typed
<1>1. UNCHANGED link => link[p] = "open"
  OBVIOUS
<1>2. ASSUME NEW s, Halt(s) PROVE link[p] = "open"
  BY <1>2 DEF Halt, AfterClose
<1>3. ASSUME NEW q \in Procs, NEW m, Transmit(q, m) PROVE link[p] = "open"
  BY <1>3 DEF Transmit, TypeOK
<1>4. ASSUME NEW q, Receive(q) PROVE link[p] = "open"
  BY <1>4 DEF Receive, TypeOK
<1>5. ASSUME NEW q \in Procs, NEW m, Sends(q, m) PROVE link[p] = "open"
  BY <1>5 DEF Sends, TypeOK
<1>6. ASSUME NEW q, NEW inbox, link' = [link EXCEPT ![q] = AfterClose(q, inbox)]
      PROVE  link[p] = "open"
  BY <1>6 DEF AfterClose, TypeOK
<1>7. ASSUME NEW q \in Procs, ClientReads(q) PROVE link[p] = "open"
  BY <1>5, <1>7 DEF ClientReads, AnswerId, PrintMessage, CloseOnRequest, ConnectionLost, TypeOK
<1>8. ASSUME NEW q \in Procs, User(q) PROVE link[p] = "open" \/ cstate[p] = "start"
  BY <1>5, <1>8 DEF User, Connect, Exit, TypeCommand, TypeOK
<1>9. ASSUME NEW i \in Fds, HandleInput(i) PROVE link[p] = "open"
  <2>1. ASSUME NEW q \in Procs,
               \/ IgnoreGotIt(i, q) \/ Register(i, q) \/ Reconnect(i, q)
               \/ \E m \in Commands : Subscribe(i, q, m) \/ Unsubscribe(i, q, m)
        PROVE  link[p] = "open"
    BY <1>1, <2>1 DEF IgnoreGotIt, Register, Reconnect, Subscribe, Unsubscribe
  <2>2. ASSUME NEW q \in Procs,
               \/ ClientTableOverrun(i, q)
               \/ \E m \in Commands : SubscribeOverrun(i, q, m) \/ UnsubscribeUndefined(i, q, m)
        PROVE  link[p] = "open"
    BY <1>2, <2>2 DEF ClientTableOverrun, SubscribeOverrun, UnsubscribeUndefined, Crash
  <2>3. ASSUME NEW q \in Procs, Disconnect(i, q) PROVE link[p] = "open"
    BY <1>1, <1>6, <2>3 DEF Disconnect
  <2>4. ASSUME NEW q \in Procs, RefuseDuplicate(i, q) PROVE link[p] = "open"
    BY <1>2, <1>6, <2>4 DEF RefuseDuplicate, Crash
  <2>5. ReadNothing(i) \/ ReadFails(i) => link[p] = "open"
    BY <1>1, <1>2 DEF ReadNothing, ReadFails, network, Crash
  <2>6. QED
    BY <1>9, <2>1, <2>2, <2>3, <2>4, <2>5 DEF HandleInput
<1>10. ASSUME Server PROVE link[p] = "open"
  <2>1. Select \/ StoreOrSkip \/ (\E t \in Topics : ReceiveDatagram(t)) => link[p] = "open"
    BY <1>1 DEF Select, StoreOrSkip, ReceiveDatagram, network
  <2>2. AcceptFails \/ StopServer \/ SendFails \/ FanOutUndefined
        \/ (\E t \in Topics : TopicTableOverrun(t)) => link[p] = "open"
    BY <1>2 DEF AcceptFails, StopServer, SendFails, FanOutUndefined, TopicTableOverrun, Crash
  <2>3. Accept => link[p] = "open"
    BY <1>3 DEF Accept
  <2>4. SendToActive => link[p] = "open"
    <3>1. SUFFICES ASSUME SendToActive PROVE link[p] = "open"
      OBVIOUS
    <3>2. \E q \in Procs : \E m : Transmit(q, m)
      BY <3>1 DEF SendToActive, CanSend, Owner, TypeOK
    <3>3. QED
      BY <1>3, <3>2
  <2>5. Replay => link[p] = "open"
    <3>1. SUFFICES ASSUME Replay, ~Crash("died") PROVE link[p] = "open"
      BY <1>2 DEF Crash
    <3>2. \E q \in Procs : \E m : Transmit(q, m)
      BY <3>1 DEF Replay, CanSend, Owner, TypeOK
    <3>3. QED
      BY <1>3, <3>2
  <2>6. AwaitAck \/ AwaitGotIt => link[p] = "open"
    BY <1>4 DEF AwaitAck, AwaitGotIt
  <2>7. QED
    BY <1>9, <1>10, <2>1, <2>2, <2>3, <2>4, <2>5, <2>6 DEF Server
<1>11. Idle \/ UNCHANGED vars => link[p] = "open"
  BY <1>1 DEF Idle, vars, network
<1>12. QED
  BY <1>7, <1>8, <1>10, <1>11 DEF Next

LEMMA LiveBefore ==
  ASSUME Typed, [Next]_vars, NEW p \in Procs, Live(p)' PROVE Live(p)
<1> TypeOK
  BY DEF Typed
<1>1. UNCHANGED cstate \/ \E q \in Procs : Starting(q) \/ ClientReads(q) \/ User(q)
  BY ServerEvent DEF ServerActs, Serving, Closing, Accepting, Idle, vars, client, Next
<1>2. ASSUME NEW q \in Procs, Starting(q) \/ ClientReads(q) \/ User(q)
      PROVE  /\ cstate[q] \in {"start", "running"}
             /\ q # p => cstate'[p] = cstate[p]
             /\ cstate'[q] # "start" \/ cstate[q] = "start"
  <2>1. cstate[q] \in {"start", "running"}
    BY <1>2 DEF Starting, ClientReads, AnswerId, Gets, PrintMessage, CloseOnRequest,
       ConnectionLost, User, Connect, Exit, TypeCommand, AtKeyboard
  <2>2. Starting(q) \/ Acting(q)
    BY <1>2, AnswerActs, EndActs, PrintActs, ConnectStarts, ExitActs, TypeActs
       DEF ClientReads, User
  <2>3. QED
    BY <2>1, <2>2 DEF Starting, Acting, TypeOK
<1>3. cstate'[p] \in {"start", "running"} => cstate[p] \in {"start", "running"}
      /\ (cstate'[p] = "start" => cstate[p] = "start")
  BY <1>1, <1>2
<1>4. QED
  BY <1>3, ClosedStaysClosed DEF Live

(* Whoever a fan-out goes to was subscribed to a topic. *)
LEMMA TodoAmong ==
  ASSUME Typed, [Next]_vars, NEW W,
         \A x \in DOMAIN todo : todo[x].subscriber \in W,
         \A k \in DOMAIN all_topics : \A q \in DOMAIN all_topics[k].subscribers :
           all_topics[k].subscribers[q].subscriber \in W
  PROVE  \A x \in DOMAIN todo' : todo'[x].subscriber \in W
<1>1. TypeOK
  BY DEF Typed
<1>2. CASE UNCHANGED todo
  BY <1>2
<1>3. CASE todo # <<>> /\ todo' = Tail(todo)
  <2>1. PICK s \in Seq(Subscription) : s = todo
    BY <1>1 DEF TypeOK
  <2>2. /\ DOMAIN s = 1 .. Len(s) /\ Len(s) \in Nat /\ Len(Tail(s)) = Len(s) - 1
        /\ Tail(s) \in Seq(Subscription)
        /\ \A x \in 1 .. Len(Tail(s)) : Tail(s)[x] = s[x + 1]
    BY <1>3, <2>1, HeadTailProperties, LenProperties
  <2>3. DOMAIN Tail(s) = 1 .. Len(Tail(s))
    BY <2>2, LenProperties
  <2>4. \A x \in DOMAIN Tail(s) : \E y \in DOMAIN s : Tail(s)[x] = s[y]
    BY <2>2, <2>3
  <2>5. \A x \in DOMAIN todo' : \E y \in DOMAIN todo : todo'[x] = todo[y]
    BY <1>3, <2>1, <2>4
  <2>6. QED
    BY <2>5
<1>4. ASSUME NEW t \in Topics, ReceiveDatagram(t)
      PROVE  todo' = <<>> \/ \E k \in DOMAIN all_topics : todo' = all_topics[k].subscribers
  BY <1>4 DEF ReceiveDatagram, Resume, TopicsNamed
<1>5. CASE \E t \in Topics : ReceiveDatagram(t)
  <2>1. CASE todo' = <<>>
    BY <2>1, EmptySeq
  <2>2. QED
    BY <1>4, <1>5, <2>1
<1>6. QED
  BY <1>2, <1>3, <1>5, TodoMoves

LEMMA TodoWithinStep ==
  ASSUME Typed, SubscribersResolve, TodoWithin, [Next]_vars PROVE TodoWithin'
<1>1. PICK W : W = 0 .. Len(tcp_clients)
  OBVIOUS
<1>2. \A x \in DOMAIN todo' : todo'[x].subscriber \in W
  BY <1>1, TodoAmong DEF TodoWithin, SubscribersResolve
<1>3. TypeOK /\ TypeOK'
  BY NextTyped DEF Typed
<1>4. /\ DOMAIN tcp_clients = 1 .. Len(tcp_clients) /\ Len(tcp_clients) \in Nat
      /\ DOMAIN tcp_clients' = 1 .. Len(tcp_clients') /\ Len(tcp_clients') \in Nat
  BY <1>3, LenProperties DEF TypeOK
<1>5. DOMAIN tcp_clients \subseteq DOMAIN tcp_clients'
  BY Stays
<1>6. \A c \in W : c \in 0 .. Len(tcp_clients')
  BY <1>1, <1>4, <1>5
<1>7. QED
  BY <1>2, <1>6 DEF TodoWithin

-----------------------------------------------------------------------------
(* Of a process that is connected, either everything it was handed is        *)
(* printed, or one message is on its way to it, or the answer to that is.    *)
(* The server goes on when it has received the answer.                      *)
AllPrinted(p) ==
  /\ ~Holds(toClient[p], "data") /\ ~Holds(toServer[p], "GOT_IT")
  /\ handed[p] = printed[p]
InFlight(p) ==
  /\ Awaited(p) /\ ~Holds(toServer[p], "GOT_IT")
  /\ \E s \in Seq(ClientMessages), n \in Message :
       /\ ~Holds(s, "data") /\ toClient[p] = Append(s, Data(n))
       /\ handed[p] = Append(printed[p], n)
Answered(p) ==
  /\ Awaited(p) /\ Holds(toServer[p], "GOT_IT") /\ Once(toServer[p], "GOT_IT")
  /\ ~Holds(toClient[p], "data") /\ handed[p] = printed[p]

InTouch(p) == /\ ~Holds(toServer[p], "disconnected.")
              /\ AllPrinted(p) \/ InFlight(p) \/ Answered(p)
StopAndWait == \A p \in Procs : Live(p) => InTouch(p)

LEMMA StopAndWaitInit == ASSUME Init PROVE StopAndWait
  BY EmptySeq DEF Init, StopAndWait, InTouch, AllPrinted, Holds

(* What the server does to a queue when it waits for nothing. *)
LEMMA ServerUses ==
  ASSUME Typed, Server, NEW p \in Procs
  PROVE  /\ \A kind : Holds(toServer'[p], kind) => Holds(toServer[p], kind)
         /\ handed'[p] = handed[p] =>
              (Holds(toClient'[p], "data") => Holds(toClient[p], "data"))
<1> TypeOK
  BY DEF Typed
<1>1. Shrinks(toServer[p], toServer'[p])
  BY ServerEvent DEF ServerActs, Serving, Closing, Accepting, Shrinks
<1>2. CASE Uses(p)
  BY <1>1, <1>2, SettledServer, UsesElements DEF Holds
<1>3. ASSUME NEW m \in ClientMessages, Gains(p, m), handed'[p] = handed[p],
             Holds(toClient'[p], "data")
      PROVE  Holds(toClient[p], "data")
  <2>1. m.kind # "data"
    <3>1. SUFFICES ASSUME m.kind = "data" PROVE FALSE
      OBVIOUS
    <3>2. PICK h \in Seq(Message) : h = handed[p]
      BY DEF TypeOK
    <3>3. Append(h, m.n) = h /\ m.n \in Message
      BY <1>3, <3>1, <3>2, DataMessages DEF Gains
    <3>4. Len(Append(h, m.n)) = Len(h) + 1 /\ Len(h) \in Nat
      BY <3>2, <3>3, AppendProperties
    <3>5. QED
      BY <3>3, <3>4
  <2>2. Holds(Append(toClient[p], m), "data") <=> Holds(toClient[p], "data") \/ m.kind = "data"
    BY <1>3, AppendHolds DEF Gains
  <2>3. QED
    BY <1>3, <2>1, <2>2 DEF Gains
<1>4. [Next]_vars
  BY DEF Next
<1>5. Uses(p) \/ \E m \in ClientMessages : Gains(p, m)
  BY <1>4, ClientQueueStep
<1>6. QED
  BY <1>1, <1>2, <1>3, <1>5, SettledServer

(* Sending to a connected process puts a message on its way. *)
LEMMA SentInFlight ==
  ASSUME Typed, Connections, NEW p \in Procs, Live(p), AllPrinted(p),
         NEW n, Hands(p, n), NEW k \in DOMAIN tcp_clients,
         tcp_clients[k].is_active = 1, CanSend(tcp_clients[k].current_socket),
         p = fd_owner[tcp_clients[k].current_socket], Transmit(p, Data(n)),
         UNCHANGED <<toServer, tcp_clients, fd_owner, printed>>, Awaited(p)'
  PROVE  InFlight(p)'
<1> TypeOK
  BY DEF Typed
<1>1. Owns(p)
  BY SendOwns
<1>2. link[p] = "open"
  BY <1>1 DEF Live, Connections, WaitsInSilence, Waits
<1>3. toClient'[p] = Append(toClient[p], Data(n)) /\ toClient[p] \in Seq(ClientMessages)
  BY <1>2 DEF Transmit, TypeOK
<1>4. n \in Message /\ handed'[p] = Append(handed[p], n)
  BY DEF Hands, TypeOK
<1>5. handed'[p] = Append(printed'[p], n) /\ ~Holds(toServer'[p], "GOT_IT")
  BY <1>4 DEF AllPrinted
<1>6. ~Holds(toClient[p], "data")
  BY DEF AllPrinted
<1>7. QED
  BY <1>3, <1>4, <1>5, <1>6 DEF InFlight

LEMMA PrintedOrSent ==
  ASSUME Typed, Connections, ReplaysToActive, TodoWithin, Server,
         NEW p \in Procs, Live(p), AllPrinted(p)
  PROVE  AllPrinted(p)' \/ InFlight(p)'
<1> TypeOK
  BY DEF Typed
<1>1. UNCHANGED printed
  BY ServerAsksNothing
<1>2. CASE handed'[p] = handed[p]
  BY <1>1, <1>2, ServerUses DEF AllPrinted
<1>3. CASE SendToActive /\ Hands(fd_owner[tcp_clients[Addressee].current_socket],
                                 Len(published))
  <2>1. todo # <<>> /\ Addressee # 0 /\ tcp_clients[Addressee].is_active = 1
        /\ UNCHANGED <<toServer, tcp_clients, fd_owner, todo>> /\ pc' = "ack"
    BY <1>3 DEF SendToActive, ToActive, FanningOut, Typed, HandlerHasWork, registry, job
  <2>2. Addressee \in DOMAIN tcp_clients
    <3>1. PICK s \in Seq(Subscription) : s = todo
      BY DEF TypeOK
    <3>2. 1 \in DOMAIN s /\ Head(s) = s[1]
      BY <2>1, <3>1, EmptySeq, LenProperties
    <3>3. Addressee \in 0 .. Len(tcp_clients)
      BY <3>1, <3>2 DEF TodoWithin, Addressee
    <3>4. DOMAIN tcp_clients = 1 .. Len(tcp_clients) /\ Len(tcp_clients) \in Nat
      BY LenProperties DEF TypeOK
    <3>5. QED
      BY <2>1, <3>3, <3>4
  <2>3. PICK k \in DOMAIN tcp_clients : k = Addressee
    BY <2>2
  <2>4. PICK n : n = Len(published)
    OBVIOUS
  <2>5. PICK q : q = fd_owner[tcp_clients[k].current_socket]
    OBVIOUS
  <2>6. CASE q # p
    BY <1>2, <1>3, <2>3, <2>5, <2>6 DEF Hands, TypeOK
  <2>7. CASE q = p
    <3>1. CanSend(tcp_clients[k].current_socket) /\ Transmit(p, Data(n))
      BY <1>3, <2>3, <2>4, <2>5, <2>7 DEF SendToActive
    <3>2. Hands(p, n)
      BY <1>3, <2>3, <2>4, <2>5, <2>7
    <3>3. Owner(tcp_clients[k].current_socket) = p
      BY <2>5, <2>7, <3>1 DEF CanSend, Owner
    <3>4. k = Addressee' /\ Owner(tcp_clients[k].current_socket)' = p
      BY <2>1, <2>3, <3>3 DEF Addressee, Owner
    <3>5. Awaited(p)'
      BY <2>1, <2>3, <3>4 DEF Awaited
    <3>6. QED
      BY <1>1, <2>1, <2>3, <2>5, <2>7, <3>1, <3>2, <3>5, SentInFlight
  <2>8. QED
    BY <2>6, <2>7
<1>4. CASE Replay /\ Hands(fd_owner[tcp_clients[flushing].current_socket],
                           Head(tcp_clients[flushing].unreceived))
  <2>1. flushing \in DOMAIN tcp_clients /\ tcp_clients[flushing].is_active = 1
    BY <1>4 DEF Replay, Typed, HandlerHasWork, Replaying, ReplaysToActive
  <2>2. PICK k \in DOMAIN tcp_clients : k = flushing
    BY <2>1
  <2>3. PICK n : n = Head(tcp_clients[k].unreceived)
    OBVIOUS
  <2>4. PICK q : q = fd_owner[tcp_clients[k].current_socket]
    OBVIOUS
  <2>5. CASE q # p
    BY <1>2, <1>4, <2>2, <2>4, <2>5 DEF Hands, TypeOK
  <2>6. CASE q = p /\ UNCHANGED handed
    BY <1>2, <2>6
  <2>7. CASE q = p /\ ~UNCHANGED handed
    <3>1. /\ CanSend(tcp_clients[k].current_socket) /\ Transmit(p, Data(n)) /\ pc' = "gotit"
          /\ UNCHANGED <<toServer, tcp_clients, fd_owner, flushing>>
      BY <1>4, <2>2, <2>3, <2>4, <2>7 DEF Replay, Crash, Halt, client, registry, job
    <3>2. Hands(p, n)
      BY <1>4, <2>2, <2>3, <2>4, <2>7
    <3>3. Owner(tcp_clients[k].current_socket) = p
      BY <2>4, <2>7, <3>1 DEF CanSend, Owner
    <3>4. Awaited(p)'
      BY <2>1, <2>2, <3>1, <3>3 DEF Awaited, Owner
    <3>5. QED
      BY <1>1, <2>1, <2>2, <2>4, <2>7, <3>1, <3>2, <3>4, SentInFlight
  <2>8. QED
    BY <2>5, <2>6, <2>7
<1>5. [Next]_vars
  BY DEF Next
<1>6. QED
  BY <1>2, <1>3, <1>4, <1>5, HandedStep

(* While the server waits, it does nothing else. *)
LEMMA OnlyWaits ==
  ASSUME Server, pc \in {"ack", "gotit"} PROVE AwaitAck \/ AwaitGotIt
<1>1. \A i : ~Turn(i)
  BY DEF Turn
<1>2. \A i \in Fds : ~HandleInput(i)
  <2>1. SUFFICES ASSUME NEW i \in Fds PROVE ~HandleInput(i)
    OBVIOUS
  <2>2. \A p, m : ~Reads(i, p, m)
    BY <1>1 DEF Reads
  <2>3. ~ReadNothing(i) /\ ~ReadFails(i)
    BY <1>1 DEF ReadNothing, ReadFails
  <2>4. \A p \in Procs : /\ ~IgnoreGotIt(i, p) /\ ~Register(i, p) /\ ~ClientTableOverrun(i, p)
                         /\ ~RefuseDuplicate(i, p) /\ ~Reconnect(i, p) /\ ~Disconnect(i, p)
    BY <2>2 DEF IgnoreGotIt, Register, ClientTableOverrun, RefuseDuplicate, Reconnect, Disconnect
  <2>5. \A p \in Procs : \A m \in Commands :
          /\ ~Subscribe(i, p, m) /\ ~SubscribeOverrun(i, p, m)
          /\ ~Unsubscribe(i, p, m) /\ ~UnsubscribeUndefined(i, p, m)
    BY <2>2 DEF Subscribe, SubscribeOverrun, Unsubscribe, UnsubscribeUndefined
  <2>6. QED
    BY <2>3, <2>4, <2>5 DEF HandleInput
<1>3. ~(Select \/ Accept \/ AcceptFails \/ StopServer)
      /\ \A t \in Topics : ~ReceiveDatagram(t) /\ ~TopicTableOverrun(t)
  BY <1>1 DEF Select, AtSelect, Accept, AcceptFails, StopServer, ReceiveDatagram,
     TopicTableOverrun
<1>4. ~(SendToActive \/ SendFails \/ StoreOrSkip \/ FanOutUndefined \/ Replay)
  BY DEF SendToActive, SendFails, StoreOrSkip, FanOutUndefined, Replay, ToActive,
     ToInactive, FanningOut
<1>5. QED
  BY <1>2, <1>3, <1>4 DEF Server

(* What it receives from a connected process is the answer. *)
LEMMA AnswerTaken ==
  ASSUME Typed, UnknownApart, NoCrossing, Server, NEW p \in Procs, Live(p),
         Awaited(p), InTouch(p), cstate[p] # "start"
  PROVE  Answered(p) /\ AllPrinted(p)'
<1> TypeOK
  BY DEF Typed
<1>1. pc \in {"ack", "gotit"}
  BY DEF Awaited
<1>2. AwaitAck \/ AwaitGotIt
  BY <1>1, OnlyWaits
<1>3. Announced(p)
  BY DEF Awaited, Announced
<1>4. ~Holds(toServer[p], "ID_CLIENT:")
  BY <1>3 DEF UnknownApart, NotYet
<1>5. link[p] = "open"
  BY DEF Live
<1>6. Receive(p) /\ UNCHANGED <<toClient, handed, printed>>
  <2>1. PICK k \in DOMAIN tcp_clients :
          /\ Owner(tcp_clients[k].current_socket) = p
          /\ (pc = "ack" /\ k = Addressee) \/ (pc = "gotit" /\ k = flushing)
    BY DEF Awaited
  <2>2. fd_owner[tcp_clients[k].current_socket] = p
    BY <2>1, ConstantsOK DEF Owner
  <2>3. QED
    BY <1>2, <2>1, <2>2 DEF AwaitAck, AwaitGotIt, client
<1>7. toServer[p] # <<>> /\ toServer'[p] = Tail(toServer[p])
  BY <1>5, <1>6 DEF Receive, Readable, TypeOK
<1>8. PICK s \in Seq(ServerMessages) : s = toServer[p]
  BY DEF TypeOK
<1>9. 1 \in DOMAIN s /\ Head(s) = s[1] /\ Head(s) \in ServerMessages
  BY <1>7, <1>8, EmptySeq, LenProperties, HeadTailProperties
<1>10. Head(s).kind = "GOT_IT"
  <2>1. Head(s).kind # "ID_CLIENT:" /\ Head(s).kind # "disconnected."
    BY <1>4, <1>8, <1>9 DEF Holds, InTouch
  <2>2. Head(s).kind \notin {"subscribe", "unsubscribe"}
    BY <1>8, <1>9 DEF NoCrossing
  <2>3. QED
    BY <1>9, <2>1, <2>2, Kinds DEF ServerMessages
<1>11. Holds(toServer[p], "GOT_IT")
  BY <1>8, <1>9, <1>10 DEF Holds
<1>12. Answered(p)
  BY <1>11 DEF InTouch, AllPrinted, InFlight
<1>13. ~Holds(Tail(s), "GOT_IT")
  BY <1>7, <1>8, <1>10, <1>12, HeadGone DEF Answered
<1>14. QED
  BY <1>6, <1>7, <1>8, <1>12, <1>13 DEF AllPrinted, Answered

LEMMA ServerInTouch ==
  ASSUME Typed, Connections, UnknownApart, ReplaysToActive, TodoWithin, NoCrossing,
         Server, NEW p \in Procs, Live(p), InTouch(p)
  PROVE  InTouch(p)'
<1>1. ~Holds(toServer'[p], "disconnected.")
  BY ServerUses DEF InTouch
<1>2. CASE AllPrinted(p)
  BY <1>1, <1>2, PrintedOrSent DEF InTouch
<1>3. CASE Awaited(p)
  <2>1. cstate[p] # "start"
    <3>1. Announced(p)
      BY <1>3 DEF Awaited, Announced
    <3>2. QED
      BY <3>1 DEF UnknownApart, NotYet, Waits
  <2>2. QED
    BY <1>1, <1>3, <2>1, AnswerTaken DEF InTouch
<1>4. QED
  BY <1>2, <1>3 DEF InTouch, InFlight, Answered

(* A process that is connected after it has sent something has put it into  *)
(* its queue.                                                               *)
LEMMA LiveSends ==
  ASSUME TypeOK, NEW p \in Procs, NEW m, cstate[p] = "running", Sends(p, m), Live(p)'
  PROVE  toServer'[p] = Append(toServer[p], m) /\ toServer[p] \in Seq(ServerMessages)
<1>1. cstate'[p] # "start"
  BY DEF Sends, TypeOK
<1>2. link'[p] = "open"
  BY <1>1 DEF Live
<1>3. QED
  BY <1>2 DEF Sends, TypeOK

LEMMA AwaitedSame ==
  ASSUME UNCHANGED server, NEW p PROVE Awaited(p)' <=> Awaited(p)
<1>1. UNCHANGED <<tcp_clients, fd_owner, pc, todo, flushing>>
  BY DEF server, registry, job
<1>2. QED
  BY <1>1 DEF Awaited, Owner, Addressee

(* A step that does not concern a process. *)
LEMMA TouchKept ==
  ASSUME UNCHANGED server, NEW p, InTouch(p), toClient'[p] = toClient[p],
         toServer'[p] = toServer[p], handed'[p] = handed[p], printed'[p] = printed[p]
  PROVE  InTouch(p)'
<1>1. AllPrinted(p) => AllPrinted(p)'
  BY DEF AllPrinted
<1>2. InFlight(p) => InFlight(p)'
  BY AwaitedSame DEF InFlight
<1>3. Answered(p) => Answered(p)'
  BY AwaitedSame DEF Answered
<1>4. QED
  BY <1>1, <1>2, <1>3 DEF InTouch

(* A command joins what is on its way. *)
LEMMA TypeInTouch ==
  ASSUME TypeOK, NEW p \in Procs, NEW m \in Commands, TypeCommand(p, m), Live(p)',
         InTouch(p)
  PROVE  InTouch(p)'
<1>1. toServer'[p] = Append(toServer[p], m) /\ toServer[p] \in Seq(ServerMessages)
  BY LiveSends DEF TypeCommand, AtKeyboard
<1>2. m \in ServerMessages /\ m.kind \in {"subscribe", "unsubscribe"}
  BY Kinds DEF ServerMessages
<1>3. m.kind # "disconnected." /\ m.kind # "GOT_IT"
  BY <1>2
<1>4. /\ Holds(toServer'[p], "disconnected.") <=> Holds(toServer[p], "disconnected.")
      /\ Holds(toServer'[p], "GOT_IT") <=> Holds(toServer[p], "GOT_IT")
      /\ Once(toServer[p], "GOT_IT") => Once(toServer'[p], "GOT_IT")
  BY <1>1, <1>2, <1>3, AppendHolds, AppendOnce
<1>5. UNCHANGED <<server, toClient, handed, printed>>
  BY DEF TypeCommand
<1>6. AllPrinted(p) => AllPrinted(p)'
  BY <1>4, <1>5 DEF AllPrinted
<1>7. InFlight(p) => InFlight(p)'
  BY <1>4, <1>5, AwaitedSame DEF InFlight
<1>8. Answered(p) => Answered(p)'
  BY <1>4, <1>5, AwaitedSame DEF Answered
<1>9. QED
  BY <1>4, <1>6, <1>7, <1>8 DEF InTouch

(* A process that says who it is has not been sent anything yet. *)
LEMMA AnswerInTouch ==
  ASSUME TypeOK, UnknownApart, NEW p \in Procs, AnswerId(p), Live(p)', InTouch(p)
  PROVE  InTouch(p)'
<1>1. toClient[p] # <<>> /\ Head(toClient[p]) = Ask /\ Drops(p) /\ cstate[p] = "running"
  BY GetsDrops DEF AnswerId
<1>2. Holds(toClient[p], "ID_CLIENT?")
  BY <1>1, AskedHead
<1>3. ~Awaited(p)
  BY <1>2 DEF UnknownApart, NotYet, Announced, Awaited
<1>4. AllPrinted(p) /\ ~Holds(toServer[p], "disconnected.")
  BY <1>3 DEF InTouch, InFlight, Answered
<1>5. ~Holds(toClient'[p], "data")
  <2>1. PICK k \in 1 .. Len(toClient[p]) :
          toClient'[p] = SubSeq(toClient[p], k + 1, Len(toClient[p]))
    BY <1>1 DEF Drops, TypeOK
  <2>2. PICK s \in Seq(ClientMessages) : s = toClient[p]
    BY DEF TypeOK
  <2>3. Later(s, SubSeq(s, k + 1, Len(s)), k)
    BY <2>1, <2>2, DropsLater
  <2>4. QED
    BY <1>4, <2>1, <2>2, <2>3, LaterHolds DEF AllPrinted
<1>6. toServer'[p] = Append(toServer[p], IdReply(p)) /\ toServer[p] \in Seq(ServerMessages)
  BY <1>1, LiveSends DEF AnswerId
<1>7. IdReply(p) \in ServerMessages /\ IdReply(p).kind = "ID_CLIENT:"
  BY Kinds DEF ServerMessages
<1>8. IdReply(p).kind # "disconnected." /\ IdReply(p).kind # "GOT_IT"
  BY <1>7
<1>9. ~Holds(toServer'[p], "disconnected.") /\ ~Holds(toServer'[p], "GOT_IT")
  BY <1>4, <1>6, <1>7, <1>8, AppendHolds DEF AllPrinted
<1>10. UNCHANGED <<handed, printed>>
  BY DEF AnswerId
<1>11. QED
  BY <1>4, <1>5, <1>9, <1>10 DEF InTouch, AllPrinted

(* A message that is printed was the only one there, and is answered. *)
LEMMA PrintInTouch ==
  ASSUME TypeOK, NEW p \in Procs, NEW n \in Message, PrintMessage(p, n), Live(p)',
         InTouch(p)
  PROVE  InTouch(p)'
<1>1. toClient[p] # <<>> /\ Head(toClient[p]) = Data(n) /\ Drops(p) /\ cstate[p] = "running"
  BY GetsDrops DEF PrintMessage
<1>2. PICK c \in Seq(ClientMessages) : c = toClient[p]
  BY DEF TypeOK
<1>3. 1 \in DOMAIN c /\ Head(c) = c[1]
  BY <1>1, <1>2, EmptySeq, LenProperties
<1>4. Holds(toClient[p], "data")
  BY <1>1, <1>2, <1>3, Kinds DEF Holds
<1>5. InFlight(p) /\ ~Holds(toServer[p], "disconnected.")
  BY <1>4 DEF InTouch, AllPrinted, Answered
<1>6. PICK s \in Seq(ClientMessages), m \in Message :
        /\ ~Holds(s, "data") /\ toClient[p] = Append(s, Data(m))
        /\ handed[p] = Append(printed[p], m)
  BY <1>5 DEF InFlight
<1>7. Data(m) \in ClientMessages
  BY DEF ClientMessages
<1>8. s = <<>>
  <2>1. SUFFICES ASSUME s # <<>> PROVE FALSE
    OBVIOUS
  <2>2. 1 \in 1 .. Len(s) /\ 1 \in DOMAIN s
    BY <2>1, EmptySeq, LenProperties
  <2>3. Append(s, Data(m))[1] = s[1]
    BY <1>7, <2>2, AppendElements
  <2>4. s[1].kind = "data"
    BY <1>1, <1>2, <1>3, <1>6, <2>3, Kinds
  <2>5. QED
    BY <1>6, <2>2, <2>4 DEF Holds
<1>9. Len(toClient[p]) = 1 /\ Head(toClient[p]) = Data(m)
  BY <1>6, <1>7, <1>8, AppendProperties, EmptySeq, LenProperties
<1>10. m = n
  BY <1>1, <1>9 DEF Data
<1>11. toClient'[p] = <<>>
  <2>1. PICK k \in 1 .. Len(toClient[p]) :
          toClient'[p] = SubSeq(toClient[p], k + 1, Len(toClient[p]))
    BY <1>1 DEF Drops, TypeOK
  <2>2. toClient'[p] = SubSeq(c, 2, 1)
    BY <1>2, <1>9, <2>1
  <2>3. QED
    BY <1>2, <2>2
<1>12. printed'[p] = Append(printed[p], n) /\ UNCHANGED <<server, handed>>
  BY DEF PrintMessage, TypeOK
<1>13. toServer'[p] = Append(toServer[p], GotIt) /\ toServer[p] \in Seq(ServerMessages)
  BY <1>1, LiveSends DEF PrintMessage
<1>14. GotIt \in ServerMessages /\ GotIt.kind = "GOT_IT"
  BY Kinds DEF ServerMessages
<1>15. ~Holds(toServer[p], "GOT_IT")
  BY <1>5 DEF InFlight
<1>16. Once(toServer[p], "GOT_IT")
  BY <1>15 DEF Once, Holds
<1>17. /\ Holds(toServer'[p], "GOT_IT") /\ Once(toServer'[p], "GOT_IT")
       /\ ~Holds(toServer'[p], "disconnected.")
  BY <1>5, <1>13, <1>14, <1>15, <1>16, AppendHolds, AppendOnce
<1>18. ~Holds(toClient'[p], "data")
  BY <1>11, EmptySeq DEF Holds
<1>19. Awaited(p)'
  BY <1>5, <1>12, AwaitedSame DEF InFlight
<1>20. QED
  BY <1>6, <1>10, <1>12, <1>17, <1>18, <1>19 DEF InTouch, Answered

(* A process that ends, of itself or not, is connected no more. *)
LEMMA EndsConnection ==
  ASSUME TypeOK, NEW p \in Procs, Exit(p) \/ CloseOnRequest(p) \/ ConnectionLost(p)
  PROVE  ~Live(p)'
  BY DEF Exit, CloseOnRequest, ConnectionLost, Live, TypeOK

LEMMA ClientInTouch ==
  ASSUME Typed, UnknownApart, NEW q \in Procs, ClientReads(q) \/ User(q),
         NEW p \in Procs, Live(p)', InTouch(p)
  PROVE  InTouch(p)'
<1>1. TypeOK
  BY DEF Typed
<1>2. UNCHANGED server
  BY OutsideStep
<1>3. UNCHANGED handed /\ (UNCHANGED printed \/ \E n \in Message : PrintMessage(q, n))
  BY DEF ClientReads, User, AnswerId, PrintMessage, CloseOnRequest, ConnectionLost,
     Connect, Exit, TypeCommand
<1>4. CASE q # p
  <2>1. Starting(q) \/ Acting(q)
    BY <1>1, AnswerActs, EndActs, PrintActs, ConnectStarts, ExitActs, TypeActs
       DEF ClientReads, User
  <2>2. toClient'[p] = toClient[p] /\ toServer'[p] = toServer[p]
    BY <1>1, <1>4, <2>1, ActingOthers DEF Starting
  <2>3. printed'[p] = printed[p]
    BY <1>1, <1>3, <1>4 DEF PrintMessage, TypeOK
  <2>4. QED
    BY <1>2, <1>3, <2>2, <2>3, TouchKept
<1>5. CASE Connect(p)
  <2>1. UNCHANGED <<toClient, toServer, printed>>
    BY <1>5 DEF Connect
  <2>2. QED
    BY <1>2, <1>3, <2>1, TouchKept
<1>6. CASE \E m \in Commands : TypeCommand(p, m)
  BY <1>1, <1>6, TypeInTouch
<1>7. CASE AnswerId(p)
  BY <1>1, <1>7, AnswerInTouch
<1>8. CASE \E n \in Message : PrintMessage(p, n)
  BY <1>1, <1>8, PrintInTouch
<1>9. CASE Exit(p) \/ CloseOnRequest(p) \/ ConnectionLost(p)
  BY <1>1, <1>9, EndsConnection
<1>10. QED
  BY <1>4, <1>5, <1>6, <1>7, <1>8, <1>9 DEF ClientReads, User

LEMMA StopAndWaitStep ==
  ASSUME Typed, Connections, UnknownApart, ReplaysToActive, TodoWithin, NoCrossing,
         StopAndWait, [Next]_vars
  PROVE  StopAndWait'
<1>1. SUFFICES ASSUME NEW p \in Procs, Live(p)' PROVE InTouch(p)'
  BY DEF StopAndWait
<1>2. Live(p) /\ InTouch(p)
  BY <1>1, LiveBefore DEF StopAndWait
<1>3. CASE Server
  BY <1>2, <1>3, ServerInTouch
<1>4. CASE \E q \in Procs : ClientReads(q) \/ User(q)
  BY <1>1, <1>2, <1>4, ClientInTouch
<1>5. CASE Idle \/ UNCHANGED vars
  <2>1. UNCHANGED <<server, toClient, toServer, handed, printed>>
    BY <1>5 DEF Idle, vars, network, client
  <2>2. QED
    BY <1>2, <2>1, TouchKept
<1>6. QED
  BY <1>3, <1>4, <1>5 DEF Next

-----------------------------------------------------------------------------
LossInv == /\ Typed /\ Connections /\ SocketsOwn /\ UnknownApart /\ SubscribersResolve
           /\ TopicNamesUnique /\ ReplaysToActive /\ TodoWithin /\ StopAndWait

LEMMA LossInvInit == ASSUME Init PROVE LossInv
<1>1. Typed /\ Connections /\ SocketsOwn /\ UnknownApart
  BY InitTyped, ConnectionsInit, OwnInit
<1>2. SubscribersResolve /\ TopicNamesUnique
  BY TopicsInit
<1>3. ReplaysToActive /\ TodoWithin
  BY EmptySeq DEF Init, ReplaysToActive, Replaying, TodoWithin
<1>4. QED
  BY <1>1, <1>2, <1>3, StopAndWaitInit DEF LossInv

LEMMA LossInvStep ==
  ASSUME LossInv, Orderly, NoCrossing, [Next]_vars PROVE LossInv'
<1>1. Typed' /\ Connections' /\ SocketsOwn' /\ UnknownApart'
  BY NextTyped, ConnectionsStep, OwnStep DEF LossInv
<1>2. SubscribersResolve' /\ TopicNamesUnique' /\ ReplaysToActive' /\ TodoWithin'
  BY TopicsInvStep, ReplaysStep, TodoWithinStep DEF LossInv
<1>3. StopAndWait'
  BY StopAndWaitStep DEF LossInv
<1>4. QED
  BY <1>1, <1>2, <1>3 DEF LossInv

(* The messages in a queue that holds one, at its end, or none. *)
LEMMA DataInNone ==
  ASSUME NEW s, ~Holds(s, "data") PROVE DataIn(s) = <<>>
<1>1. {x \in DOMAIN s : s[x].kind = "data"} = {}
  BY DEF Holds
<1>2. Subsequence(s, {}) = <<>>
  BY SubsequenceNone
<1>3. PICK d : d = Subsequence(s, {})
  OBVIOUS
<1>4. DataIn(s) = [x \in DOMAIN d |-> d[x].n]
  BY <1>1, <1>3 DEF DataIn
<1>5. DOMAIN d = 1 .. 0
  BY <1>2, <1>3
<1>6. DataIn(s) \in Seq(Nat) /\ Len(DataIn(s)) = 0
  BY <1>4, <1>5
<1>7. QED
  BY <1>6, EmptySeq

LEMMA DataInLast ==
  ASSUME NEW s \in Seq(ClientMessages), ~Holds(s, "data"), NEW n \in Message
  PROVE  DataIn(Append(s, Data(n))) = <<n>>
<1>1. Data(n) \in ClientMessages /\ Data(n).kind = "data" /\ Data(n).n = n
  BY DataMessage, Kinds
<1>2. PICK t : t = Append(s, Data(n))
  OBVIOUS
<1>3. /\ DOMAIN t = 1 .. Len(s) + 1 /\ DOMAIN s = 1 .. Len(s) /\ Len(s) \in Nat
      /\ t[Len(s) + 1] = Data(n) /\ \A x \in 1 .. Len(s) : t[x] = s[x]
  BY <1>1, <1>2, AppendElements
<1>4. \A x \in DOMAIN t : t[x].kind = "data" <=> x = Len(s) + 1
  <2>1. \A x \in 1 .. Len(s) + 1 : x \in 1 .. Len(s) \/ x = Len(s) + 1
    BY <1>3
  <2>2. \A x \in 1 .. Len(s) : t[x].kind # "data"
    BY <1>3 DEF Holds
  <2>3. Len(s) + 1 \notin 1 .. Len(s)
    BY <1>3
  <2>4. QED
    BY <1>1, <1>3, <2>1, <2>2, <2>3
<1>5. Len(s) + 1 \in DOMAIN t
  BY <1>3
<1>6. {x \in DOMAIN t : t[x].kind = "data"} = {} \cup {Len(s) + 1}
  BY <1>4, <1>5
<1>7. Subsequence(t, {} \cup {Len(s) + 1}) = Append(Subsequence(s, {}), Data(n))
  BY <1>1, <1>2, SubsequenceAppend
<1>8. Append(Subsequence(s, {}), Data(n)) = <<Data(n)>>
  <2>1. PICK e : e = Data(n)
    OBVIOUS
  <2>2. Append(<<>>, e) = <<e>>
    OBVIOUS
  <2>3. QED
    BY <2>1, <2>2, SubsequenceNone
<1>9. PICK d : d = <<Data(n)>>
  OBVIOUS
<1>10. DataIn(t) = [x \in DOMAIN d |-> d[x].n]
  BY <1>6, <1>7, <1>8, <1>9 DEF DataIn
<1>11. DOMAIN d = 1 .. 1 /\ d[1].n = n
  BY <1>1, <1>9
<1>12. DataIn(t) = <<n>>
  BY <1>10, <1>11
<1>13. QED
  BY <1>2, <1>12

LEMMA NothingLostNow == ASSUME LossInv PROVE NoLoss
<1>1. SUFFICES ASSUME NEW p \in Procs, cstate[p] = "running", link[p] = "open"
               PROVE  handed[p] = printed[p] \o DataIn(toClient[p])
  BY DEF NoLoss
<1>2. PICK r \in Seq(Message) : r = printed[p]
  BY DEF LossInv, Typed, TypeOK
<1>3. InTouch(p)
  BY <1>1 DEF LossInv, StopAndWait, Live
<1>4. CASE AllPrinted(p) \/ Answered(p)
  <2>1. DataIn(toClient[p]) = <<>> /\ handed[p] = printed[p]
    BY <1>4, DataInNone DEF AllPrinted, Answered
  <2>2. r \o <<>> = r
    OBVIOUS
  <2>3. QED
    BY <1>2, <2>1, <2>2
<1>5. CASE InFlight(p)
  <2>1. PICK s \in Seq(ClientMessages), n \in Message :
          /\ ~Holds(s, "data") /\ toClient[p] = Append(s, Data(n))
          /\ handed[p] = Append(printed[p], n)
    BY <1>5 DEF InFlight
  <2>2. DataIn(toClient[p]) = <<n>>
    BY <2>1, DataInLast
  <2>3. r \o <<n>> = Append(r, n)
    OBVIOUS
  <2>4. QED
    BY <1>2, <2>1, <2>2, <2>3
<1>6. QED
  BY <1>3, <1>4, <1>5 DEF InTouch

(* While connections are orderly and no command crosses a message whose     *)
(* answer is awaited, every message the server sends to a connected client  *)
(* is printed there, or on its way: the client drops none, although it      *)
(* looks at the first message of a recv() only.                             *)
THEOREM NothingIsLost == Spec /\ []Orderly /\ []NoCrossing => []NoLoss
<1>1. Init => LossInv
  BY LossInvInit
<1>2. LossInv /\ Orderly /\ NoCrossing /\ [Next]_vars => LossInv'
  BY LossInvStep
<1>3. LossInv => NoLoss
  BY NothingLostNow
<1>4. QED
  BY <1>1, <1>2, <1>3, PTL DEF Spec

(* So clients with IDs of their own that stay lose a message only by a      *)
(* command that crosses it, however many commands are typed and whenever.   *)
THEOREM StayingLostOnlyByCrossing ==
  ASSUME NobodyLeaves, IdsDiffer PROVE Spec => LostOnlyByCrossing
<1>1. Spec => []Orderly
  BY StayingIsOrderly
<1>2. Spec /\ []Orderly /\ []NoCrossing => []NoLoss
  BY NothingIsLost
<1>3. QED
  BY <1>1, <1>2, PTL DEF LostOnlyByCrossing

-----------------------------------------------------------------------------
(* When users wait to be announced and one user of each client types one    *)
(* command, that command has been read before anything is sent to the       *)
(* client, and nothing crosses it.                                          *)
OneCommandEach == \A p, q \in Procs : IdOf[p] = IdOf[q] =>
  MaxCommands[p] <= 1 /\ (MaxCommands[p] = 1 /\ MaxCommands[q] = 1 => p = q)

Has(s, C) == \E x \in DOMAIN s : s[x] \in C
Single(s, C) == \A x, y \in DOMAIN s : s[x] \in C /\ s[y] \in C => x = y

LEMMA HasTail ==
  ASSUME NEW T, NEW s \in Seq(T), s # <<>>, NEW C
  PROVE  /\ Has(Tail(s), C) => Has(s, C)
         /\ Single(s, C) => Single(Tail(s), C)
         /\ Single(s, C) /\ Head(s) \in C => Has(s, C) /\ ~Has(Tail(s), C)
<1>1. PICK t : t = Tail(s)
  OBVIOUS
<1>2. /\ Len(s) \in Nat \ {0} /\ DOMAIN s = 1 .. Len(s) /\ Head(s) = s[1]
      /\ t \in Seq(T) /\ Len(t) = Len(s) - 1
      /\ \A x \in 1 .. Len(t) : t[x] = s[x + 1]
  BY <1>1, EmptySeq, LenProperties, HeadTailProperties
<1>3. DOMAIN t = 1 .. Len(s) - 1
  BY <1>2, LenProperties
<1>4. \A x \in DOMAIN t : x + 1 \in DOMAIN s /\ x + 1 # 1 /\ t[x] = s[x + 1] /\ x \in Int
  BY <1>2, <1>3
<1>5. 1 \in DOMAIN s
  BY <1>2
<1>6. Has(t, C) => Has(s, C)
  BY <1>4 DEF Has
<1>7. Single(s, C) => Single(t, C)
  <2>1. SUFFICES ASSUME Single(s, C), NEW x \in DOMAIN t, NEW y \in DOMAIN t,
                        t[x] \in C, t[y] \in C
                 PROVE  x = y
    BY DEF Single
  <2>2. x + 1 = y + 1
    BY <1>4, <2>1 DEF Single
  <2>3. QED
    BY <1>4, <2>2
<1>8. Single(s, C) /\ Head(s) \in C => Has(s, C) /\ ~Has(t, C)
  BY <1>2, <1>4, <1>5 DEF Single, Has
<1>9. QED
  BY <1>1, <1>6, <1>7, <1>8

LEMMA HasShrinks ==
  ASSUME NEW T, NEW s \in Seq(T), NEW t, Shrinks(s, t), NEW C
  PROVE  /\ Has(t, C) => Has(s, C)
         /\ Single(s, C) => Single(t, C)
<1>1. CASE t = s
  BY <1>1
<1>2. CASE t = <<>>
  BY <1>2, EmptySeq DEF Has, Single
<1>3. CASE s # <<>> /\ t = Tail(s)
  BY <1>3, HasTail
<1>4. QED
  BY <1>1, <1>2, <1>3 DEF Shrinks

LEMMA HasAppend ==
  ASSUME NEW T, NEW s \in Seq(T), NEW m \in T, NEW C
  PROVE  /\ Has(Append(s, m), C) <=> Has(s, C) \/ m \in C
         /\ Single(s, C) /\ (m \in C => ~Has(s, C)) => Single(Append(s, m), C)
<1>1. PICK t : t = Append(s, m)
  OBVIOUS
<1>2. PICK n : n = Len(s)
  OBVIOUS
<1>3. /\ DOMAIN t = 1 .. n + 1 /\ DOMAIN s = 1 .. n /\ n \in Nat /\ t[n + 1] = m
      /\ \A x \in 1 .. n : t[x] = s[x]
  BY <1>1, <1>2, AppendElements
<1>4. \A x : x \in 1 .. n + 1 <=> x \in 1 .. n \/ x = n + 1
  BY <1>3
<1>5. Has(t, C) <=> Has(s, C) \/ m \in C
  BY <1>3, <1>4 DEF Has
<1>6. Single(s, C) /\ (m \in C => ~Has(s, C)) => Single(t, C)
  BY <1>3, <1>4 DEF Has, Single
<1>7. QED
  BY <1>1, <1>5, <1>6

(* What a step does to the commands of a process: a user types one, *)
Types(p) ==
  /\ typed[p] < MaxCommands[p] /\ typed'[p] = typed[p] + 1
  /\ toServer'[p] = toServer[p] \/ \E m \in Commands : toServer'[p] = Append(toServer[p], m)

(* or the queue shrinks or is added something else. *)
NoneTyped(p) ==
  /\ typed'[p] = typed[p]
  /\ \/ Shrinks(toServer[p], toServer'[p])
     \/ \E m \in ServerMessages : m \notin Commands /\ toServer'[p] = Append(toServer[p], m)

LEMMA CommandKinds ==
  /\ \A p : IdReply(p) \notin Commands
  /\ GotIt \notin Commands /\ Bye \notin Commands
  /\ \A m \in ServerMessages : m.kind \in {"subscribe", "unsubscribe"} <=> m \in Commands
<1>1. /\ \A p : IdReply(p).kind = "ID_CLIENT:"
      /\ GotIt.kind = "GOT_IT" /\ Bye.kind = "disconnected."
      /\ \A m \in Commands : m.kind \in {"subscribe", "unsubscribe"}
  BY Kinds
<1>2. /\ "ID_CLIENT:" \notin {"subscribe", "unsubscribe"}
      /\ "GOT_IT" \notin {"subscribe", "unsubscribe"}
      /\ "disconnected." \notin {"subscribe", "unsubscribe"}
  OBVIOUS
<1>3. QED
  BY <1>1, <1>2 DEF ServerMessages

LEMMA CommandStep ==
  ASSUME Typed, [Next]_vars, NEW p \in Procs PROVE NoneTyped(p) \/ Types(p)
<1> TypeOK
  BY DEF Typed
<1>1. toServer[p] \in Seq(ServerMessages)
  BY DEF TypeOK
<1>2. toServer'[p] = toServer[p] => Shrinks(toServer[p], toServer'[p])
  BY DEF Shrinks
<1>3. CASE Server
  <2>1. UNCHANGED typed
    BY <1>3, ServerAsksNothing
  <2>2. Shrinks(toServer[p], toServer'[p])
    BY <1>3, ServerEvent DEF ServerActs, Serving, Closing, Accepting, Shrinks
  <2>3. QED
    BY <2>1, <2>2 DEF NoneTyped
<1>4. ASSUME NEW q \in Procs, q # p, ClientReads(q) \/ User(q) PROVE NoneTyped(p)
  <2>1. Starting(q) \/ Acting(q)
    BY <1>4, AnswerActs, EndActs, PrintActs, ConnectStarts, ExitActs, TypeActs
       DEF ClientReads, User
  <2>2. toServer'[p] = toServer[p]
    BY <1>4, <2>1, ActingOthers DEF Starting
  <2>3. typed'[p] = typed[p]
    BY <1>4 DEF ClientReads, User, AnswerId, PrintMessage, CloseOnRequest, ConnectionLost,
       Connect, Exit, TypeCommand, TypeOK
  <2>4. QED
    BY <1>2, <2>2, <2>3 DEF NoneTyped
<1>5. ASSUME NEW m \in Commands, TypeCommand(p, m) PROVE Types(p)
  BY <1>5 DEF TypeCommand, Types, Sends, TypeOK
<1>6. ASSUME NEW m, m \in ServerMessages, m \notin Commands, Sends(p, m), UNCHANGED typed
      PROVE  NoneTyped(p)
  <2>1. toServer'[p] = toServer[p] \/ toServer'[p] = Append(toServer[p], m)
    BY <1>6 DEF Sends, TypeOK
  <2>2. QED
    BY <1>2, <1>6, <2>1 DEF NoneTyped
<1>7. AnswerId(p) => NoneTyped(p)
  BY <1>6, CommandKinds DEF AnswerId, ServerMessages
<1>8. ASSUME NEW n \in Message, PrintMessage(p, n) PROVE NoneTyped(p)
  BY <1>6, <1>8, CommandKinds DEF PrintMessage, ServerMessages
<1>9. Exit(p) => NoneTyped(p)
  <2>1. SUFFICES ASSUME Exit(p) PROVE NoneTyped(p)
    OBVIOUS
  <2>2. UNCHANGED typed
        /\ (toServer'[p] = toServer[p] \/ toServer'[p] = Append(toServer[p], Bye))
    BY <2>1 DEF Exit, TypeOK
  <2>3. Bye \in ServerMessages /\ Bye \notin Commands
    BY CommandKinds DEF ServerMessages
  <2>4. QED
    BY <1>2, <2>2, <2>3 DEF NoneTyped
<1>10. Connect(p) \/ CloseOnRequest(p) \/ ConnectionLost(p) => NoneTyped(p)
  BY <1>2 DEF Connect, CloseOnRequest, ConnectionLost, NoneTyped
<1>11. Idle \/ UNCHANGED vars => NoneTyped(p)
  BY <1>2 DEF Idle, vars, network, client, NoneTyped
<1>12. QED
  BY <1>3, <1>4, <1>5, <1>7, <1>8, <1>9, <1>10, <1>11 DEF Next, ClientReads, User

(* A command in a queue was typed, and was typed once. *)
TypedOnce == \A p \in Procs :
  /\ typed[p] <= MaxCommands[p]
  /\ Has(toServer[p], Commands) => typed[p] # 0
  /\ Single(toServer[p], Commands)

LEMMA TypedOnceStep ==
  ASSUME OneCommandEach, Typed, TypedOnce, [Next]_vars PROVE TypedOnce'
<1> TypeOK
  BY DEF Typed
<1>1. SUFFICES ASSUME NEW p \in Procs
               PROVE  /\ typed'[p] <= MaxCommands[p]
                      /\ Has(toServer'[p], Commands) => typed'[p] # 0
                      /\ Single(toServer'[p], Commands)
  BY DEF TypedOnce
<1>2. /\ typed[p] \in Nat /\ MaxCommands[p] \in Nat /\ MaxCommands[p] <= 1
      /\ toServer[p] \in Seq(ServerMessages) /\ Commands \subseteq ServerMessages
  BY ConstantsOK DEF TypeOK, OneCommandEach, ServerMessages
<1>3. /\ typed[p] <= MaxCommands[p]
      /\ Has(toServer[p], Commands) => typed[p] # 0
      /\ Single(toServer[p], Commands)
  BY DEF TypedOnce
<1>4. CASE NoneTyped(p) /\ Shrinks(toServer[p], toServer'[p])
  BY <1>2, <1>3, <1>4, HasShrinks DEF NoneTyped
<1>5. ASSUME NEW m \in ServerMessages, m \notin Commands, typed'[p] = typed[p],
             toServer'[p] = Append(toServer[p], m)
      PROVE  /\ typed'[p] <= MaxCommands[p]
             /\ Has(toServer'[p], Commands) => typed'[p] # 0
             /\ Single(toServer'[p], Commands)
  BY <1>2, <1>3, <1>5, HasAppend
<1>6. CASE Types(p)
  <2>1. typed[p] = 0 /\ typed'[p] = 1 /\ typed'[p] <= MaxCommands[p]
    BY <1>2, <1>6 DEF Types
  <2>2. ~Has(toServer[p], Commands)
    BY <1>3, <2>1
  <2>3. CASE toServer'[p] = toServer[p]
    BY <1>3, <2>1, <2>3
  <2>4. ASSUME NEW m \in Commands, toServer'[p] = Append(toServer[p], m)
        PROVE  Single(toServer'[p], Commands)
    BY <1>2, <1>3, <2>2, <2>4, HasAppend
  <2>5. QED
    BY <1>6, <2>1, <2>3, <2>4 DEF Types
<1>7. QED
  BY <1>4, <1>5, <1>6, CommandStep DEF NoneTyped

(* A client whose one command has been read: there will be no other. *)
Spent(c) == \A p \in Procs : IdOf[p] = c =>
  typed[p] >= MaxCommands[p] /\ ~Has(toServer[p], Commands)

LEMMA SpentStays ==
  ASSUME Typed, [Next]_vars, NEW c, Spent(c) PROVE Spent(c)'
<1> TypeOK
  BY DEF Typed
<1>1. SUFFICES ASSUME NEW p \in Procs, IdOf[p] = c
               PROVE  typed'[p] >= MaxCommands[p] /\ ~Has(toServer'[p], Commands)
  BY DEF Spent
<1>2. typed[p] \in Nat /\ MaxCommands[p] \in Nat /\ toServer[p] \in Seq(ServerMessages)
  BY ConstantsOK DEF TypeOK
<1>3. typed[p] >= MaxCommands[p] /\ ~Has(toServer[p], Commands)
  BY <1>1 DEF Spent
<1>4. ~Types(p)
  BY <1>2, <1>3 DEF Types
<1>5. NoneTyped(p)
  BY <1>4, CommandStep
<1>6. CASE Shrinks(toServer[p], toServer'[p])
  BY <1>2, <1>3, <1>5, <1>6, HasShrinks DEF NoneTyped
<1>7. ASSUME NEW m \in ServerMessages, m \notin Commands,
             toServer'[p] = Append(toServer[p], m)
      PROVE  ~Has(toServer'[p], Commands)
  BY <1>2, <1>3, <1>7, HasAppend
<1>8. QED
  BY <1>3, <1>5, <1>6, <1>7 DEF NoneTyped

(* So it is with the client whose subscribe is read. *)
LEMMA SubscribeSpends ==
  ASSUME OneCommandEach, Typed, TypedOnce,
         NEW i \in Fds, NEW p \in Procs, NEW m \in Commands, Subscribe(i, p, m)
  PROVE  Spent(IdOf[p])'
<1> TypeOK
  BY DEF Typed
<1>1. toServer[p] # <<>> /\ Head(toServer[p]) \in Commands /\ toServer' = Consumed(p)
      /\ UNCHANGED typed
  BY DEF Subscribe, Reads, client
<1>2. \A q \in Procs : /\ typed[q] \in Nat /\ MaxCommands[q] \in Nat
                       /\ toServer[q] \in Seq(ServerMessages)
  BY ConstantsOK DEF TypeOK
<1>3. toServer'[p] = Tail(toServer[p]) /\ \A q \in Procs : q # p => toServer'[q] = toServer[q]
  BY <1>1 DEF Consumed, TypeOK
<1>4. Has(toServer[p], Commands) /\ ~Has(Tail(toServer[p]), Commands)
  BY <1>1, <1>2, HasTail DEF TypedOnce
<1>5. typed[p] # 0 /\ typed[p] <= MaxCommands[p] /\ MaxCommands[p] <= 1
  BY <1>4 DEF TypedOnce, OneCommandEach
<1>6. typed[p] = 1 /\ MaxCommands[p] = 1
  BY <1>2, <1>5
<1>7. ASSUME NEW q \in Procs, IdOf[q] = IdOf[p], q # p
      PROVE  typed'[q] >= MaxCommands[q] /\ ~Has(toServer'[q], Commands)
  <2>1. MaxCommands[q] # 1 /\ MaxCommands[q] <= 1 /\ typed[q] <= MaxCommands[q]
    BY <1>6, <1>7 DEF OneCommandEach, TypedOnce
  <2>2. typed[q] = 0 /\ MaxCommands[q] = 0
    BY <1>2, <2>1
  <2>3. ~Has(toServer[q], Commands)
    BY <2>2 DEF TypedOnce
  <2>4. QED
    BY <1>1, <1>3, <1>7, <2>2, <2>3
<1>8. typed'[p] >= MaxCommands[p] /\ ~Has(toServer'[p], Commands)
  BY <1>1, <1>3, <1>4, <1>6
<1>9. QED
  BY <1>7, <1>8 DEF Spent

(* Messages are sent, stored and meant for such clients only. *)
SpentClients == {c \in 0 .. MaxClients :
                   c = 0 \/ (c \in DOMAIN tcp_clients /\ Spent(tcp_clients[c].id))}
SubscribersSpent == Within(Topics \X SpentClients)
TodoSpent == \A x \in DOMAIN todo : todo[x].subscriber \in SpentClients
StoredSpent == \A k \in DOMAIN tcp_clients :
  tcp_clients[k].unreceived # <<>> => k \in SpentClients

LEMMA SpentClientsStay ==
  ASSUME Typed, [Next]_vars, NEW c \in SpentClients PROVE c \in SpentClients'
<1>1. CASE c = 0
  BY <1>1 DEF SpentClients
<1>2. CASE c # 0
  <2>1. c \in DOMAIN tcp_clients /\ Spent(tcp_clients[c].id)
    BY <1>2 DEF SpentClients
  <2>2. c \in DOMAIN tcp_clients' /\ tcp_clients'[c].id = tcp_clients[c].id
    BY <2>1, Stays
  <2>3. PICK d : d = tcp_clients[c].id
    OBVIOUS
  <2>4. Spent(d)'
    BY <2>1, <2>3, SpentStays
  <2>5. Spent(tcp_clients[c].id)'
    BY <2>2, <2>3, <2>4 DEF Spent
  <2>6. QED
    BY <2>2, <2>5 DEF SpentClients
<1>3. QED
  BY <1>1, <1>2

LEMMA SubscribersSpentStep ==
  ASSUME OneCommandEach, Typed, Connections, CommandsAnnounced, SocketsOwn, SocketsApart,
         TypedOnce, SubscribersSpent, [Next]_vars
  PROVE  SubscribersSpent'
<1> TypeOK
  BY DEF Typed
<1>1. PICK W : W = SpentClients'
  OBVIOUS
<1>2. PICK G : G = Topics \X W
  OBVIOUS
<1>3. 0 \in W
  BY <1>1, ConstantsOK DEF SpentClients
<1>4. FillsWithin(G)
  BY <1>2, <1>3 DEF FillsWithin
<1>5. Within(G)
  BY <1>1, <1>2, SpentClientsStay DEF SubscribersSpent, Within
<1>6. SubscribesWithin(G)
  <2>1. SUFFICES ASSUME NEW i \in Fds, NEW p \in Procs, NEW m \in Commands,
                        Subscribe(i, p, m), NEW t \in Topics, <<m.topic, t>> \in Substring
                 PROVE  <<t, current_tcp_client'>> \in G
    BY DEF SubscribesWithin
  <2>2. PICK c : c = current_tcp_client'
    OBVIOUS
  <2>3. c \in DOMAIN tcp_clients /\ tcp_clients[c].id = IdOf[p]
    BY <2>1, <2>2, SubscribesItself
  <2>4. c \in DOMAIN tcp_clients' /\ tcp_clients'[c].id = IdOf[p]
    BY <2>3, Stays
  <2>5. Spent(IdOf[p])'
    BY <2>1, SubscribeSpends
  <2>6. Spent(tcp_clients[c].id)'
    BY <2>4, <2>5 DEF Spent
  <2>7. c \in 0 .. MaxClients
    <3>1. DOMAIN tcp_clients = 1 .. Len(tcp_clients) /\ Len(tcp_clients) \in Nat
          /\ Len(tcp_clients) <= MaxClients /\ MaxClients \in Nat
      BY TableEntries, ConstantsOK DEF TypeOK
    <3>2. QED
      BY <2>3, <3>1
  <2>8. c \in W
    BY <1>1, <2>4, <2>6, <2>7 DEF SpentClients
  <2>9. QED
    BY <1>2, <2>2, <2>8
<1>7. Within(G)'
  BY <1>4, <1>5, <1>6, WithinStep
<1>8. QED
  BY <1>1, <1>2, <1>7 DEF SubscribersSpent, Within

LEMMA TodoSpentStep ==
  ASSUME Typed, SubscribersSpent, TodoSpent, [Next]_vars PROVE TodoSpent'
<1>1. PICK W : W = SpentClients
  OBVIOUS
<1>2. \A k \in DOMAIN all_topics : \A q \in DOMAIN all_topics[k].subscribers :
        all_topics[k].subscribers[q].subscriber \in W
  BY <1>1 DEF SubscribersSpent, Within
<1>3. \A x \in DOMAIN todo' : todo'[x].subscriber \in W
  BY <1>1, <1>2, TodoAmong DEF TodoSpent
<1>4. \A c \in W : c \in SpentClients'
  BY <1>1, SpentClientsStay
<1>5. QED
  BY <1>3, <1>4 DEF TodoSpent

LEMMA AddresseeSpent ==
  ASSUME Typed, TodoSpent, todo # <<>> PROVE Addressee \in SpentClients
<1>1. PICK s \in Seq(Subscription) : s = todo
  BY DEF Typed, TypeOK
<1>2. 1 \in DOMAIN s /\ Head(s) = s[1]
  BY <1>1, EmptySeq, LenProperties
<1>3. QED
  BY <1>1, <1>2 DEF TodoSpent, Addressee

LEMMA StoredSpentStep ==
  ASSUME Typed, TodoSpent, StoredSpent, [Next]_vars PROVE StoredSpent'
<1>1. SUFFICES ASSUME NEW k \in DOMAIN tcp_clients', tcp_clients'[k].unreceived # <<>>
               PROVE  k \in SpentClients'
  BY DEF StoredSpent
<1>2. PICK u \in Seq(Message) : u = tcp_clients'[k].unreceived
  <2>1. TypeOK'
    BY NextTyped DEF Typed
  <2>2. tcp_clients'[k] \in ClientEntry
    BY <2>1 DEF TypeOK
  <2>3. QED
    BY <2>2 DEF ClientEntry
<1>3. 1 \in DOMAIN u
  BY <1>1, <1>2, EmptySeq, LenProperties
<1>4. PICK n : n = u[1]
  OBVIOUS
<1>5. InSeq(n, tcp_clients'[k].unreceived)
  BY <1>2, <1>3, <1>4 DEF InSeq
<1>6. CASE k \in DOMAIN tcp_clients /\ InSeq(n, tcp_clients[k].unreceived)
  <2>1. tcp_clients[k].unreceived # <<>>
    BY <1>6, EmptySeq DEF InSeq
  <2>2. QED
    BY <1>6, <2>1, SpentClientsStay DEF StoredSpent
<1>7. CASE ToInactive /\ k = Addressee
  <2>1. todo # <<>>
    BY <1>7 DEF ToInactive, FanningOut, Typed, HandlerHasWork
  <2>2. QED
    BY <1>7, <2>1, AddresseeSpent, SpentClientsStay
<1>8. QED
  BY <1>5, <1>6, <1>7, StoredMoves

LEMMA NothingCrosses ==
  ASSUME Typed, SocketsOwn, TodoSpent, StoredSpent PROVE NoCrossing
<1> TypeOK
  BY DEF Typed
<1>1. SUFFICES ASSUME NEW p \in Procs, Awaited(p), NEW x \in DOMAIN toServer[p]
               PROVE  toServer[p][x].kind \notin {"subscribe", "unsubscribe"}
  BY DEF NoCrossing
<1>2. PICK k \in DOMAIN tcp_clients :
        /\ tcp_clients[k].is_active = 1 /\ Owner(tcp_clients[k].current_socket) = p
        /\ (pc = "ack" /\ k = Addressee) \/ (pc = "gotit" /\ k = flushing)
  BY <1>1 DEF Awaited
<1>3. k \in SpentClients
  <2>1. CASE pc = "ack" /\ k = Addressee
    BY <2>1, AddresseeSpent DEF Typed, HandlerHasWork
  <2>2. CASE pc = "gotit" /\ k = flushing
    BY <2>2 DEF StoredSpent, Typed, HandlerHasWork, Replaying
  <2>3. QED
    BY <1>2, <2>1, <2>2
<1>4. k # 0
  BY TableEntries
<1>5. Spent(IdOf[p])
  BY <1>2, <1>3, <1>4 DEF SpentClients, SocketsOwn
<1>6. toServer[p][x] \notin Commands
  BY <1>1, <1>5 DEF Spent, Has
<1>7. PICK s \in Seq(ServerMessages) : s = toServer[p]
  BY DEF TypeOK
<1>8. s[x] \in ServerMessages
  BY <1>7, SeqElements
<1>9. QED
  BY <1>6, <1>7, <1>8, CommandKinds

SpentInv == /\ Typed /\ Connections /\ CommandsAnnounced /\ SocketsOwn /\ UnknownApart
            /\ TypedOnce /\ SubscribersSpent /\ TodoSpent /\ StoredSpent

LEMMA SpentInvInit == ASSUME Init PROVE SpentInv
<1>1. Typed /\ Connections /\ CommandsAnnounced /\ SocketsOwn /\ UnknownApart
  BY InitTyped, ConnectionsInit, CommandsInit, OwnInit
<1>2. TypedOnce
  BY ConstantsOK, EmptySeq DEF Init, TypedOnce, Has, Single
<1>3. SubscribersSpent /\ TodoSpent /\ StoredSpent
  BY EmptySeq DEF Init, SubscribersSpent, Within, TodoSpent, StoredSpent
<1>4. QED
  BY <1>1, <1>2, <1>3 DEF SpentInv

LEMMA SpentInvStep ==
  ASSUME ~EagerUsers, OneCommandEach, SpentInv, Orderly, [Next]_vars PROVE SpentInv'
<1>1. Typed' /\ Connections' /\ CommandsAnnounced' /\ SocketsOwn' /\ UnknownApart'
  BY NextTyped, ConnectionsStep, CommandsStep, OwnStep DEF SpentInv
<1>2. TypedOnce' /\ SubscribersSpent' /\ TodoSpent' /\ StoredSpent'
  BY TypedOnceStep, SubscribersSpentStep, TodoSpentStep, StoredSpentStep
     DEF SpentInv, Orderly
<1>3. QED
  BY <1>1, <1>2 DEF SpentInv

(* When users wait to be announced and each client's user types one command, *)
(* no command crosses a message whose answer is awaited, *)
LEMMA OneCommandCrossesNothing ==
  ASSUME ~EagerUsers, OneCommandEach PROVE Spec /\ []Orderly => []NoCrossing
<1>1. Init => SpentInv
  BY SpentInvInit
<1>2. SpentInv /\ Orderly /\ [Next]_vars => SpentInv'
  BY SpentInvStep
<1>3. SpentInv => NoCrossing
  BY NothingCrosses DEF SpentInv
<1>4. QED
  BY <1>1, <1>2, <1>3, PTL DEF Spec

(* and nothing that is sent is lost, however clients come and go. *)
THEOREM OrderlyNothingIsLost ==
  ASSUME ~EagerUsers, OneCommandEach PROVE Spec /\ []Orderly => []NoLoss
<1>1. Spec /\ []Orderly => []NoCrossing
  BY OneCommandCrossesNothing
<1>2. Spec /\ []Orderly /\ []NoCrossing => []NoLoss
  BY NothingIsLost
<1>3. QED
  BY <1>1, <1>2, PTL

(* So it is with clients that have IDs of their own and stay. *)
THEOREM StayingNothingIsLost ==
  ASSUME ~EagerUsers, OneCommandEach, NobodyLeaves, IdsDiffer PROVE Spec => []NoLoss
<1>1. Spec => []Orderly
  BY StayingIsOrderly
<1>2. Spec /\ []Orderly => []NoLoss
  BY OrderlyNothingIsLost
<1>3. QED
  BY <1>1, <1>2, PTL

-----------------------------------------------------------------------------
(* When one client comes and goes, one process after another.               *)
OneId == \A p, q \in Procs : IdOf[p] = IdOf[q]
OneAfterAnother == \A p, q \in Procs : p # q => p \in After[q] \/ q \in After[p]

(* A process starts, runs and ends. *)
LEMMA StateMoves ==
  ASSUME Typed, [Next]_vars, NEW p \in Procs
  PROVE  \/ cstate'[p] = cstate[p]
         \/ cstate[p] = "start" /\ Connect(p)
         \/ cstate[p] = "running" /\ cstate'[p] \in {"done", "failed"}
<1> TypeOK
  BY DEF Typed
<1>1. CASE Server \/ Idle \/ UNCHANGED vars
  BY <1>1, ServerEvent DEF ServerActs, Serving, Closing, Accepting, Idle, vars, client
<1>2. ASSUME NEW q \in Procs, q # p, ClientReads(q) \/ User(q)
      PROVE  cstate'[p] = cstate[p]
  <2>1. Starting(q) \/ Acting(q)
    BY <1>2, AnswerActs, EndActs, PrintActs, ConnectStarts, ExitActs, TypeActs
       DEF ClientReads, User
  <2>2. QED
    BY <1>2, <2>1 DEF Starting, Acting, TypeOK
<1>3. CASE Connect(p)
  BY <1>3 DEF Connect
<1>4. CASE \/ AnswerId(p) \/ CloseOnRequest(p) \/ ConnectionLost(p) \/ Exit(p)
           \/ \E n \in Message : PrintMessage(p, n)
           \/ \E m \in Commands : TypeCommand(p, m)
  <2>1. cstate[p] = "running"
    BY <1>4 DEF AnswerId, Gets, PrintMessage, CloseOnRequest, ConnectionLost, Exit,
       TypeCommand, AtKeyboard
  <2>2. Acting(p)
    BY <1>4, AnswerActs, EndActs, PrintActs, ExitActs, TypeActs
  <2>3. QED
    BY <2>1, <2>2 DEF Acting, TypeOK
<1>5. QED
  BY <1>1, <1>2, <1>3, <1>4 DEF Next, ClientReads, User

(* When one starts, those before it have ended: no two run at once. *)
EndedBefore == \A q \in Procs : cstate[q] # "start" =>
  \A p \in Procs : p \in After[q] => cstate[p] \in {"done", "failed"}

LEMMA EndedBeforeStep ==
  ASSUME Typed, EndedBefore, [Next]_vars PROVE EndedBefore'
<1> TypeOK
  BY DEF Typed
<1>1. SUFFICES ASSUME NEW q \in Procs, cstate'[q] # "start", NEW p \in Procs, p \in After[q]
               PROVE  cstate'[p] \in {"done", "failed"}
  BY DEF EndedBefore
<1>2. cstate[p] \in {"done", "failed"}
  <2>1. CASE cstate[q] # "start"
    BY <1>1, <2>1 DEF EndedBefore
  <2>2. CASE cstate[q] = "start"
    <3>1. Connect(q)
      BY <1>1, <2>2, StateMoves
    <3>2. QED
      BY <1>1, <3>1 DEF Connect
  <2>3. QED
    BY <2>1, <2>2
<1>3. QED
  BY <1>2, StateMoves

LEMMA OneRuns ==
  ASSUME OneAfterAnother, EndedBefore, NEW p \in Procs, NEW q \in Procs,
         cstate[p] = "running", cstate[q] = "running"
  PROVE  p = q
  BY DEF OneAfterAnother, EndedBefore

(* "close client" goes to a process whose connection is being closed. *)
CloseTold == \A p \in Procs : Holds(toClient[p], "close client") => link[p] # "open"

LEMMA CloseTelling ==
  ASSUME Typed, [Next]_vars, NEW p \in Procs, Holds(toClient'[p], "close client")
  PROVE  Holds(toClient[p], "close client") \/ link'[p] # "open"
<1> DEFINE Told == Holds(toClient[p], "close client") \/ link'[p] # "open"
<1> TypeOK
  BY DEF Typed
<1>1. UNCHANGED toClient => Told
  OBVIOUS
<1>2. ASSUME NEW s, Halt(s) PROVE Told
  BY <1>2 DEF Halt, AfterClose
<1>3. ASSUME NEW q \in Procs, NEW m \in ClientMessages, m.kind # "close client",
             Transmit(q, m)
      PROVE  Told
  <2>1. toClient'[p] = toClient[p] \/ toClient'[p] = Append(toClient[p], m)
    BY <1>3 DEF Transmit, TypeOK
  <2>2. toClient[p] \in Seq(ClientMessages)
    BY DEF TypeOK
  <2>3. QED
    BY <1>3, <2>1, <2>2, AppendHolds
<1>4. ASSUME NEW n \in Message
      PROVE  Data(n) \in ClientMessages /\ Data(n).kind # "close client"
  BY <1>4, DataMessage, Kinds
<1>5. Ask \in ClientMessages /\ Ask.kind # "close client"
  BY Kinds DEF ClientMessages
<1>6. ASSUME NEW q \in Procs, ClientReads(q) \/ User(q) PROVE Told
  <2>1. Starting(q) \/ Acting(q)
    BY <1>6, AnswerActs, EndActs, PrintActs, ConnectStarts, ExitActs, TypeActs
       DEF ClientReads, User
  <2>2. CASE Acting(q)
    <3>1. Uses(p)
      BY <1>6, <2>2, ActingUses
    <3>2. \A k \in DOMAIN toClient'[p] :
            \E j \in DOMAIN toClient[p] : toClient'[p][k] = toClient[p][j]
      BY <3>1, UsesElements
    <3>3. QED
      BY <3>2 DEF Holds
  <2>3. QED
    BY <2>1, <2>2 DEF Starting
<1>7. ASSUME NEW i \in Fds, HandleInput(i) PROVE Told
  <2>1. ASSUME NEW q \in Procs,
               \/ IgnoreGotIt(i, q) \/ Register(i, q) \/ Reconnect(i, q) \/ Disconnect(i, q)
               \/ \E m \in Commands : Subscribe(i, q, m) \/ Unsubscribe(i, q, m)
        PROVE  Told
    BY <1>1, <2>1 DEF IgnoreGotIt, Register, Reconnect, Disconnect, Subscribe, Unsubscribe
  <2>2. ASSUME NEW q \in Procs,
               \/ ClientTableOverrun(i, q)
               \/ \E m \in Commands : SubscribeOverrun(i, q, m) \/ UnsubscribeUndefined(i, q, m)
        PROVE  Told
    BY <1>2, <2>2 DEF ClientTableOverrun, SubscribeOverrun, UnsubscribeUndefined, Crash
  <2>3. ASSUME NEW q \in Procs, RefuseDuplicate(i, q) PROVE Told
    <3>1. CASE Crash("died")
      BY <1>2, <3>1 DEF Crash
    <3>2. CASE ~Crash("died")
      <4>1. PICK r : r = Owner(new_tcp_sockfd)
        OBVIOUS
      <4>2. /\ toClient' = IF link[r] = "open"
                           THEN [toClient EXCEPT ![r] = Append(@, CloseClient)]
                           ELSE toClient
            /\ link' = [link EXCEPT ![r] = AfterClose(r, Consumed(q))]
        BY <2>3, <3>2, <4>1 DEF RefuseDuplicate
      <4>3. CASE r # p
        BY <4>2, <4>3 DEF TypeOK
      <4>4. CASE r = p
        BY <4>2, <4>4 DEF AfterClose, TypeOK
      <4>5. QED
        BY <4>3, <4>4
    <3>3. QED
      BY <3>1, <3>2
  <2>4. ReadNothing(i) \/ ReadFails(i) => Told
    BY <1>1, <1>2 DEF ReadNothing, ReadFails, network, Crash
  <2>5. QED
    BY <1>7, <2>1, <2>2, <2>3, <2>4 DEF HandleInput
<1>8. ASSUME Server PROVE Told
  <2>1. Select \/ StoreOrSkip \/ AwaitAck \/ AwaitGotIt
        \/ (\E t \in Topics : ReceiveDatagram(t)) => Told
    BY <1>1 DEF Select, StoreOrSkip, AwaitAck, AwaitGotIt, ReceiveDatagram, network
  <2>2. AcceptFails \/ StopServer \/ SendFails \/ FanOutUndefined
        \/ (\E t \in Topics : TopicTableOverrun(t)) => Told
    BY <1>2 DEF AcceptFails, StopServer, SendFails, FanOutUndefined, TopicTableOverrun, Crash
  <2>3. Accept => Told
    BY <1>3, <1>5 DEF Accept
  <2>4. SendToActive => Told
    <3>1. SUFFICES ASSUME SendToActive PROVE Told
      OBVIOUS
    <3>2. Len(published) \in Message
      BY <3>1, LastMessage DEF SendToActive, ToActive, FanningOut
    <3>3. \E q \in Procs : Transmit(q, Data(Len(published)))
      BY <3>1 DEF SendToActive, CanSend, Owner, TypeOK
    <3>4. QED
      BY <1>3, <1>4, <3>2, <3>3
  <2>5. Replay => Told
    <3>1. SUFFICES ASSUME Replay, ~Crash("died") PROVE Told
      BY <1>2 DEF Crash
    <3>2. flushing \in DOMAIN tcp_clients /\ tcp_clients[flushing].unreceived # <<>>
      BY <3>1 DEF Replay, Typed, HandlerHasWork, Replaying
    <3>3. tcp_clients[flushing].unreceived \in Seq(Message)
      BY <3>2, TableEntries
    <3>4. PICK n \in Message : n = Head(tcp_clients[flushing].unreceived)
      BY <3>2, <3>3, HeadTailProperties
    <3>5. \E q \in Procs : Transmit(q, Data(n))
      BY <3>1, <3>4 DEF Replay, CanSend, Owner, TypeOK
    <3>6. QED
      BY <1>3, <1>4, <3>5
  <2>6. QED
    BY <1>7, <1>8, <2>1, <2>2, <2>3, <2>4, <2>5 DEF Server
<1>9. Idle \/ UNCHANGED vars => Told
  BY <1>1 DEF Idle, vars, network
<1>10. QED
  BY <1>6, <1>8, <1>9 DEF Next

LEMMA CloseToldStep ==
  ASSUME Typed, Connections, CloseTold, [Next]_vars PROVE CloseTold'
<1>1. SUFFICES ASSUME NEW p \in Procs, Holds(toClient'[p], "close client"),
                      link'[p] = "open"
               PROVE  FALSE
  BY DEF CloseTold
<1>2. Holds(toClient[p], "close client")
  BY <1>1, CloseTelling
<1>3. cstate[p] = "start"
  BY <1>1, <1>2, ClosedStaysClosed DEF CloseTold
<1>4. toClient[p] = <<>>
  BY <1>3 DEF Connections, WaitsInSilence, Waits
<1>5. ~Holds(<<>>, "close client")
  BY EmptySeq DEF Holds
<1>6. QED
  BY <1>2, <1>4, <1>5

(* Closing a connection, and nothing else the server does, ends it. *)
LEMMA OpenKept ==
  ASSUME Typed, [Next]_vars, Server, status' = "running", NEW p \in Procs, link[p] = "open"
  PROVE  link'[p] = "open" \/ (Owns(p) /\ toServer'[p] = <<>>)
<1> DEFINE Kept == link'[p] = "open" \/ (Owns(p) /\ toServer'[p] = <<>>)
<1> TypeOK
  BY DEF Typed
<1>1. UNCHANGED link => Kept
  OBVIOUS
<1>2. ASSUME NEW s, s # "running", Halt(s) PROVE Kept
  BY <1>2 DEF Halt
<1>3. ASSUME NEW q \in Procs, NEW m, Transmit(q, m) PROVE Kept
  BY <1>3 DEF Transmit, TypeOK
<1>4. ASSUME NEW q, Receive(q) PROVE Kept
  BY <1>4 DEF Receive, TypeOK
<1>5. ASSUME NEW i \in Fds, HandleInput(i) PROVE Kept
  <2>1. ASSUME NEW q \in Procs,
               \/ IgnoreGotIt(i, q) \/ Register(i, q) \/ Reconnect(i, q)
               \/ \E m \in Commands : Subscribe(i, q, m) \/ Unsubscribe(i, q, m)
        PROVE  Kept
    BY <1>1, <2>1 DEF IgnoreGotIt, Register, Reconnect, Subscribe, Unsubscribe
  <2>2. ASSUME NEW q \in Procs,
               \/ ClientTableOverrun(i, q)
               \/ \E m \in Commands : SubscribeOverrun(i, q, m) \/ UnsubscribeUndefined(i, q, m)
        PROVE  Kept
    BY <1>2, <2>2 DEF ClientTableOverrun, SubscribeOverrun, UnsubscribeUndefined, Crash
  <2>3. ASSUME NEW q \in Procs, Disconnect(i, q) PROVE Kept
    <3>1. CASE UNCHANGED link
      BY <1>1, <3>1
    <3>2. CASE /\ toServer' = [toServer EXCEPT ![q] = <<>>]
               /\ link' = [link EXCEPT ![q] = AfterClose(q, Consumed(q))]
      <4>1. q # p => Kept
        BY <3>2 DEF TypeOK
      <4>2. Owns(q)
        BY <2>3 DEF Disconnect, Reads, Owns
      <4>3. QED
        BY <3>2, <4>1, <4>2 DEF TypeOK
    <3>3. QED
      BY <2>3, <3>1, <3>2 DEF Disconnect
  <2>4. ASSUME NEW q \in Procs, RefuseDuplicate(i, q) PROVE Kept
    <3>1. CASE Crash("died")
      BY <1>2, <3>1 DEF Crash
    <3>2. CASE ~Crash("died")
      <4>1. PICK r : r = Owner(new_tcp_sockfd)
        OBVIOUS
      <4>2. /\ toServer' = [Consumed(q) EXCEPT ![r] = <<>>]
            /\ link' = [link EXCEPT ![r] = AfterClose(r, Consumed(q))]
            /\ CanSend(new_tcp_sockfd)
        BY <2>4, <3>2, <4>1 DEF RefuseDuplicate
      <4>3. r # p => Kept
        BY <4>2 DEF TypeOK
      <4>4. r \in Procs /\ Owns(r)
        BY <4>1, <4>2 DEF CanSend, Owner, Owns, TypeOK
      <4>5. toServer'[r] = <<>>
        BY <4>2, <4>4 DEF Consumed, TypeOK
      <4>6. QED
        BY <4>3, <4>4, <4>5
    <3>3. QED
      BY <3>1, <3>2
  <2>5. ReadNothing(i) \/ ReadFails(i) => Kept
    BY <1>1, <1>2 DEF ReadNothing, ReadFails, network, Crash
  <2>6. QED
    BY <1>5, <2>1, <2>2, <2>3, <2>4, <2>5 DEF HandleInput
<1>6. Select \/ StoreOrSkip \/ (\E t \in Topics : ReceiveDatagram(t)) => Kept
  BY <1>1 DEF Select, StoreOrSkip, ReceiveDatagram, network
<1>7. AcceptFails \/ StopServer \/ SendFails \/ FanOutUndefined
      \/ (\E t \in Topics : TopicTableOverrun(t)) => Kept
  BY <1>2 DEF AcceptFails, StopServer, SendFails, FanOutUndefined, TopicTableOverrun, Crash
<1>8. Accept => Kept
  BY <1>3 DEF Accept
<1>9. SendToActive => Kept
  <2>1. SUFFICES ASSUME SendToActive PROVE Kept
    OBVIOUS
  <2>2. \E q \in Procs : \E m : Transmit(q, m)
    BY <2>1 DEF SendToActive, CanSend, Owner, TypeOK
  <2>3. QED
    BY <1>3, <2>2
<1>10. Replay => Kept
  <2>1. SUFFICES ASSUME Replay, ~Crash("died") PROVE Kept
    BY <1>2 DEF Crash
  <2>2. \E q \in Procs : \E m : Transmit(q, m)
    BY <2>1 DEF Replay, CanSend, Owner, TypeOK
  <2>3. QED
    BY <1>3, <2>2
<1>11. AwaitAck \/ AwaitGotIt => Kept
  BY <1>4 DEF AwaitAck, AwaitGotIt
<1>12. QED
  BY <1>5, <1>6, <1>7, <1>8, <1>9, <1>10, <1>11 DEF Server

LEMMA ServerEnds == ASSUME [Next]_vars, status' = "running" PROVE status = "running"
<1>1. ASSUME NEW s, s # "running", Halt(s) PROVE FALSE
  BY <1>1 DEF Halt
<1>2. Crash("died") \/ Crash("undefined") \/ StopServer => FALSE
  BY <1>1 DEF Crash, StopServer
<1>3. ASSUME NEW i \in Fds, HandleInput(i) PROVE status = "running"
  <2>1. ReadNothing(i) => status = "running"
    BY DEF ReadNothing
  <2>2. ASSUME NEW p \in Procs,
               \/ IgnoreGotIt(i, p) \/ RefuseDuplicate(i, p)
               \/ Register(i, p) \/ Reconnect(i, p) \/ Disconnect(i, p)
        PROVE  status = "running"
    BY <1>2, <2>2 DEF IgnoreGotIt, RefuseDuplicate, Register, Reconnect, Disconnect
  <2>3. ASSUME NEW p \in Procs, NEW m \in Commands,
               \/ Subscribe(i, p, m) \/ SubscribeOverrun(i, p, m)
               \/ Unsubscribe(i, p, m) \/ UnsubscribeUndefined(i, p, m)
        PROVE  status = "running"
    BY <1>2, <2>3 DEF Subscribe, SubscribeOverrun, Unsubscribe, UnsubscribeUndefined
  <2>4. ReadFails(i) \/ (\E p \in Procs : ClientTableOverrun(i, p)) => FALSE
    BY <1>2 DEF ReadFails, ClientTableOverrun
  <2>5. QED
    BY <1>3, <2>1, <2>2, <2>3, <2>4 DEF HandleInput
<1>4. Select \/ Accept \/ SendToActive \/ AwaitAck \/ StoreOrSkip \/ AwaitGotIt
        => status = "running"
  BY DEF Select, Accept, SendToActive, AwaitAck, StoreOrSkip, AwaitGotIt, AtSelect, Turn,
     ToActive, ToInactive, FanningOut
<1>5. Replay => status = "running"
  BY DEF Replay
<1>6. ASSUME NEW t \in Topics, ReceiveDatagram(t) PROVE status = "running"
  BY <1>6 DEF ReceiveDatagram, Turn
<1>7. Server => status = "running"
  BY <1>2, <1>3, <1>4, <1>5, <1>6 DEF Server, AcceptFails, SendFails,
     FanOutUndefined, TopicTableOverrun
<1>8. UNCHANGED server => status = "running"
  BY DEF server
<1>9. QED
  BY <1>7, <1>8, OutsideStep DEF Next

(* A process that waits to be accepted, or to be heard, runs and is          *)
(* connected: it has not been told to leave, and its user waits.            *)
Early(p) == InSeq(p, backlog) \/ Holds(toServer[p], "ID_CLIENT:")
EarlyRun == status = "running" => \A p \in Procs : Early(p) =>
  cstate[p] = "running" /\ link[p] = "open"

LEMMA EarlyNotYet ==
  ASSUME UnknownApart, NEW p \in Procs, Early(p) PROVE NotYet(p) /\ ~Announced(p)
  BY DEF Early, NotYet, Waits, UnknownApart

LEMMA ServerEarly ==
  ASSUME Typed, [Next]_vars, Server, NEW p \in Procs, Early(p)'
  PROVE  Early(p) /\ UNCHANGED cstate /\ (InSeq(p, backlog') => InSeq(p, backlog))
<1> TypeOK
  BY DEF Typed
<1>1. UNCHANGED cstate /\ (backlog' = backlog \/ (backlog # <<>> /\ backlog' = Tail(backlog)))
      /\ Shrinks(toServer[p], toServer'[p])
  BY ServerEvent DEF ServerActs, Serving, Closing, Accepting, Shrinks
<1>2. Holds(toServer'[p], "ID_CLIENT:") => Holds(toServer[p], "ID_CLIENT:")
  BY <1>1, SettledServer
<1>3. InSeq(p, backlog') => InSeq(p, backlog)
  <2>1. CASE backlog' = backlog
    BY <2>1
  <2>2. CASE backlog # <<>> /\ backlog' = Tail(backlog)
    <3>1. PICK b \in Seq(Procs) : b = backlog
      BY DEF TypeOK
    <3>2. Shrinks(b, Tail(b))
      BY <2>2, <3>1 DEF Shrinks
    <3>3. \A x \in DOMAIN Tail(b) : \E y \in DOMAIN b : Tail(b)[x] = b[y]
      BY <3>1, <3>2, ShrinksElements
    <3>4. QED
      BY <2>2, <3>1, <3>3 DEF InSeq
  <2>3. QED
    BY <1>1, <2>1, <2>2
<1>4. QED
  BY <1>1, <1>2, <1>3 DEF Early

LEMMA OwnEarly ==
  ASSUME Typed, ~EagerUsers, Connections, UnknownApart, CloseTold,
         NEW p \in Procs, ClientReads(p) \/ User(p), Early(p)',
         Early(p) => cstate[p] = "running" /\ link[p] = "open"
  PROVE  cstate'[p] = "running" /\ link'[p] = "open"
<1> TypeOK
  BY DEF Typed
<1>1. ASSUME NEW m, Sends(p, m), cstate[p] = "running",
             link[p] = "open" \/ toServer'[p] # toServer[p]
      PROVE  cstate'[p] = "running" /\ link'[p] = "open"
  BY <1>1 DEF Sends
<1>2. CASE Connect(p)
  <2>1. cstate[p] = "start" /\ UNCHANGED toServer
    BY <1>2 DEF Connect
  <2>2. ~Early(p)
    BY <2>1 DEF Connections, WaitsInSilence, BacklogOnce, Waits, Early
  <2>3. backlog' # backlog
    BY <2>1, <2>2 DEF Early
  <2>4. QED
    BY <1>2, <2>3 DEF Connect, TypeOK
<1>3. CASE AnswerId(p)
  <2>1. UNCHANGED backlog /\ cstate[p] = "running" /\ Sends(p, IdReply(p))
    BY <1>3 DEF AnswerId, Gets
  <2>2. Early(p) \/ toServer'[p] # toServer[p]
    BY <2>1 DEF Early
  <2>3. QED
    BY <1>1, <2>1, <2>2
<1>4. ASSUME NEW m \in ServerMessages, m.kind # "ID_CLIENT:", UNCHANGED backlog,
             toServer'[p] = toServer[p] \/ toServer'[p] = Append(toServer[p], m)
      PROVE  Early(p)
  <2>1. toServer[p] \in Seq(ServerMessages)
    BY DEF TypeOK
  <2>2. Holds(toServer'[p], "ID_CLIENT:") => Holds(toServer[p], "ID_CLIENT:")
    BY <1>4, <2>1, AppendHolds
  <2>3. QED
    BY <1>4, <2>2 DEF Early
<1>5. ASSUME NEW n \in Message, PrintMessage(p, n)
      PROVE  cstate'[p] = "running" /\ link'[p] = "open"
  <2>1. UNCHANGED backlog /\ cstate[p] = "running" /\ Sends(p, GotIt)
    BY <1>5 DEF PrintMessage, Gets
  <2>2. GotIt \in ServerMessages /\ GotIt.kind # "ID_CLIENT:"
    BY Kinds DEF ServerMessages
  <2>3. Early(p)
    BY <1>4, <2>1, <2>2 DEF Sends, TypeOK
  <2>4. QED
    BY <1>1, <2>1, <2>3
<1>6. ASSUME NEW m \in Commands, TypeCommand(p, m)
      PROVE  cstate'[p] = "running" /\ link'[p] = "open"
  <2>1. UNCHANGED backlog /\ cstate[p] = "running" /\ Sends(p, m)
    BY <1>6 DEF TypeCommand, AtKeyboard
  <2>2. m \in ServerMessages /\ m.kind \in {"subscribe", "unsubscribe"}
    BY Kinds DEF ServerMessages
  <2>3. m.kind # "ID_CLIENT:"
    BY <2>2
  <2>4. Early(p)
    BY <1>4, <2>1, <2>2, <2>3 DEF Sends, TypeOK
  <2>5. QED
    BY <1>1, <2>1, <2>4
<1>7. Exit(p) => FALSE
  <2>1. SUFFICES ASSUME Exit(p) PROVE FALSE
    OBVIOUS
  <2>2. Announced(p) /\ UNCHANGED backlog
        /\ (toServer'[p] = toServer[p] \/ toServer'[p] = Append(toServer[p], Bye))
    BY <2>1 DEF Exit, AtKeyboard, TypeOK
  <2>3. Bye \in ServerMessages /\ Bye.kind # "ID_CLIENT:"
    BY Kinds DEF ServerMessages
  <2>4. Early(p)
    BY <1>4, <2>2, <2>3
  <2>5. QED
    BY <2>2, <2>4, EarlyNotYet
<1>8. CloseOnRequest(p) => FALSE
  <2>1. SUFFICES ASSUME CloseOnRequest(p) PROVE FALSE
    OBVIOUS
  <2>2. UNCHANGED <<backlog, toServer>> /\ toClient[p] # <<>> /\ Head(toClient[p]) = CloseClient
    BY <2>1 DEF CloseOnRequest, Gets
  <2>3. link[p] = "open"
    BY <2>2 DEF Early
  <2>4. PICK c \in Seq(ClientMessages) : c = toClient[p]
    BY DEF TypeOK
  <2>5. 1 \in DOMAIN c /\ Head(c) = c[1]
    BY <2>2, <2>4, EmptySeq, LenProperties
  <2>6. Holds(toClient[p], "close client")
    BY <2>2, <2>4, <2>5, Kinds DEF Holds
  <2>7. QED
    BY <2>3, <2>6 DEF CloseTold
<1>9. ConnectionLost(p) => FALSE
  BY DEF ConnectionLost, Early
<1>10. QED
  BY <1>2, <1>3, <1>5, <1>6, <1>7, <1>8, <1>9 DEF ClientReads, User

LEMMA EarlyRunStep ==
  ASSUME ~EagerUsers, Typed, Connections, UnknownApart, CloseTold, EarlyRun, [Next]_vars
  PROVE  EarlyRun'
<1> TypeOK
  BY DEF Typed
<1>1. SUFFICES ASSUME status' = "running", NEW p \in Procs, Early(p)'
               PROVE  cstate'[p] = "running" /\ link'[p] = "open"
  BY DEF EarlyRun
<1>2. Early(p) => cstate[p] = "running" /\ link[p] = "open"
  BY <1>1, ServerEnds DEF EarlyRun
<1>3. CASE Server
  <2>1. Early(p) /\ UNCHANGED cstate /\ (InSeq(p, backlog') => InSeq(p, backlog))
    BY <1>1, <1>3, ServerEarly
  <2>2. CASE Owns(p) /\ toServer'[p] = <<>>
    <3>1. ~Holds(<<>>, "ID_CLIENT:")
      BY EmptySeq DEF Holds
    <3>2. InSeq(p, backlog)
      BY <1>1, <2>1, <2>2, <3>1 DEF Early
    <3>3. QED
      BY <2>2, <3>2 DEF Connections, WaitsInSilence, Waits
  <2>3. QED
    BY <1>1, <1>2, <1>3, <2>1, <2>2, OpenKept
<1>4. ASSUME NEW q \in Procs, q # p, ClientReads(q) \/ User(q)
      PROVE  cstate'[p] = "running" /\ link'[p] = "open"
  <2>1. Starting(q) \/ Acting(q)
    BY <1>4, AnswerActs, EndActs, PrintActs, ConnectStarts, ExitActs, TypeActs
       DEF ClientReads, User
  <2>2. cstate'[p] = cstate[p] /\ toServer'[p] = toServer[p]
    BY <1>4, <2>1, ActingOthers DEF Starting, Acting, TypeOK
  <2>3. link'[p] = link[p]
    BY <1>4 DEF ClientReads, User, AnswerId, PrintMessage, CloseOnRequest, ConnectionLost,
       Connect, Exit, TypeCommand, Sends, TypeOK
  <2>4. InSeq(p, backlog') => InSeq(p, backlog)
    <3>1. CASE UNCHANGED backlog
      BY <3>1
    <3>2. CASE backlog' = Append(backlog, q)
      <4>1. backlog \in Seq(Procs)
        BY DEF TypeOK
      <4>2. QED
        BY <1>4, <3>2, <4>1, AppendInSeq
    <3>3. QED
      BY <2>1, <3>1, <3>2 DEF Starting, Acting
  <2>5. QED
    BY <1>1, <1>2, <2>2, <2>3, <2>4 DEF Early
<1>5. CASE ClientReads(p) \/ User(p)
  BY <1>1, <1>2, <1>5, OwnEarly
<1>6. CASE Idle \/ UNCHANGED vars
  BY <1>1, <1>2, <1>6 DEF Idle, vars, network, client, Early
<1>7. QED
  BY <1>3, <1>4, <1>5, <1>6 DEF Next

(* A descriptor is taken by Accept alone, which also remembers it. *)
LEMMA TakenByAccept ==
  ASSUME TypeOK, [Next]_vars, ~Accept
  PROVE  /\ UNCHANGED new_tcp_sockfd
         /\ \A f \in Fds : fd_owner'[f] \in {fd_owner[f], NoProc}
<1> DEFINE Same == /\ UNCHANGED new_tcp_sockfd
                   /\ \A f \in Fds : fd_owner'[f] \in {fd_owner[f], NoProc}
<1>1. UNCHANGED <<fd_owner, stale>> => Same
  BY DEF stale
<1>2. ASSUME NEW s, Halt(s) PROVE Same
  BY <1>1, <1>2 DEF Halt
<1>3. ASSUME NEW i \in Fds, HandleInput(i) PROVE Same
  <2>1. ASSUME NEW p \in Procs,
               \/ IgnoreGotIt(i, p) \/ Register(i, p) \/ Reconnect(i, p)
               \/ \E m \in Commands : Subscribe(i, p, m) \/ Unsubscribe(i, p, m)
        PROVE  Same
    BY <2>1 DEF IgnoreGotIt, Register, Reconnect, Subscribe, Unsubscribe, stale
  <2>2. ASSUME NEW p \in Procs,
               \/ ClientTableOverrun(i, p)
               \/ \E m \in Commands : SubscribeOverrun(i, p, m) \/ UnsubscribeUndefined(i, p, m)
        PROVE  Same
    BY <1>2, <2>2 DEF ClientTableOverrun, SubscribeOverrun, UnsubscribeUndefined, Crash
  <2>3. ASSUME NEW p \in Procs, Disconnect(i, p) PROVE Same
    BY <2>3 DEF Disconnect, stale, TypeOK
  <2>4. ASSUME NEW p \in Procs, RefuseDuplicate(i, p) PROVE Same
    <3>1. CASE Crash("died")
      BY <1>2, <3>1 DEF Crash
    <3>2. CASE ~Crash("died")
      BY <2>4, <3>2 DEF RefuseDuplicate, stale, TypeOK
    <3>3. QED
      BY <3>1, <3>2
  <2>5. ReadNothing(i) \/ ReadFails(i) => Same
    BY <1>1, <1>2 DEF ReadNothing, ReadFails, Crash
  <2>6. QED
    BY <1>3, <2>1, <2>2, <2>3, <2>4, <2>5 DEF HandleInput
<1>4. Select \/ SendToActive \/ AwaitAck \/ StoreOrSkip \/ AwaitGotIt => Same
  BY <1>1 DEF Select, SendToActive, AwaitAck, StoreOrSkip, AwaitGotIt
<1>5. AcceptFails \/ StopServer \/ SendFails \/ FanOutUndefined
      \/ (\E t \in Topics : TopicTableOverrun(t)) => Same
  BY <1>2 DEF AcceptFails, StopServer, SendFails, FanOutUndefined, TopicTableOverrun, Crash
<1>6. Replay => Same
  BY <1>1, <1>2 DEF Replay, Crash
<1>7. ASSUME NEW t \in Topics, ReceiveDatagram(t) PROVE Same
  BY <1>7 DEF ReceiveDatagram
<1>8. UNCHANGED server => Same
  BY <1>1 DEF server
<1>9. Server => Same
  BY <1>3, <1>4, <1>5, <1>6, <1>7 DEF Server
<1>10. QED
  BY <1>8, <1>9, OutsideStep DEF Next

(* The process that runs is behind the last descriptor accepted. *)
NewestRuns == \A f \in Fds, p \in Procs :
  fd_owner[f] = p /\ cstate[p] = "running" => new_tcp_sockfd = f

LEMMA NewestRunsStep ==
  ASSUME OneAfterAnother, Typed, EndedBefore, EndedBefore', Connections, EarlyRun,
         NewestRuns, [Next]_vars
  PROVE  NewestRuns'
<1> TypeOK
  BY DEF Typed
<1>1. SUFFICES ASSUME NEW f \in Fds, NEW p \in Procs, fd_owner'[f] = p,
                      cstate'[p] = "running"
               PROVE  new_tcp_sockfd' = f
  BY DEF NewestRuns
<1>2. p # NoProc
  BY ConstantsOK
<1>3. CASE Accept
  <2>1. PICK g \in Fds, q \in Procs :
          /\ backlog # <<>> /\ q = Head(backlog) /\ fd_owner' = [fd_owner EXCEPT ![g] = q]
          /\ new_tcp_sockfd' = g
    BY <1>3 DEF Accept
  <2>2. UNCHANGED cstate /\ status = "running"
    BY <1>3 DEF Accept, client, Turn
  <2>3. PICK b \in Seq(Procs) : b = backlog
    BY DEF TypeOK
  <2>4. 1 \in DOMAIN b /\ Head(b) = b[1]
    BY <2>1, <2>3, EmptySeq, LenProperties
  <2>5. InSeq(q, backlog)
    BY <2>1, <2>3, <2>4 DEF InSeq
  <2>6. cstate[q] = "running" /\ ~Owns(q)
    BY <2>2, <2>5 DEF EarlyRun, Early, Connections, WaitsInSilence, Waits
  <2>7. p = q
    BY <1>1, <2>2, <2>6, OneRuns
  <2>8. CASE f # g
    <3>1. fd_owner[f] = q
      BY <1>1, <2>1, <2>7, <2>8 DEF TypeOK
    <3>2. QED
      BY <2>6, <3>1 DEF Owns
  <2>9. QED
    BY <2>1, <2>8
<1>4. CASE ~Accept
  <2>1. new_tcp_sockfd' = new_tcp_sockfd /\ fd_owner[f] = p
    BY <1>1, <1>2, <1>4, TakenByAccept
  <2>2. cstate[p] # "start"
    BY <2>1 DEF Connections, WaitsInSilence, Waits, Owns
  <2>3. cstate[p] = "running"
    BY <1>1, <2>2, StateMoves
  <2>4. QED
    BY <2>1, <2>3 DEF NewestRuns
<1>5. QED
  BY <1>3, <1>4

LEMMA TurnOrderly ==
  ASSUME OneId, TypeOK, RegistryIdsUnique, EarlyRun, NewestRuns PROVE Orderly
<1>1. SocketsApart
  <2>1. ASSUME NEW j \in DOMAIN tcp_clients, NEW k \in DOMAIN tcp_clients
        PROVE  j = k
    <3>1. tcp_clients[j].id \in Ids /\ tcp_clients[k].id \in Ids
      BY TableEntries DEF ClientEntry
    <3>2. tcp_clients[j].id = tcp_clients[k].id
      BY <3>1 DEF Ids, OneId
    <3>3. QED
      BY <3>2 DEF RegistryIdsUnique
  <2>2. QED
    BY <2>1 DEF SocketsApart
<1>2. ASSUME NEW i \in Fds, NEW p \in Procs, Reads(i, p, IdReply(p))
      PROVE  new_tcp_sockfd = i
  <2>1. /\ toServer[p] # <<>> /\ Head(toServer[p]) = IdReply(p)
        /\ fd_owner[i] = p /\ status = "running"
    BY <1>2 DEF Reads, Turn
  <2>2. PICK s \in Seq(ServerMessages) : s = toServer[p]
    BY DEF TypeOK
  <2>3. 1 \in DOMAIN s /\ Head(s) = s[1]
    BY <2>1, <2>2, EmptySeq, LenProperties
  <2>4. Holds(toServer[p], "ID_CLIENT:")
    BY <2>1, <2>2, <2>3 DEF Holds, IdReply
  <2>5. cstate[p] = "running"
    BY <2>1, <2>4 DEF EarlyRun, Early
  <2>6. QED
    BY <2>1, <2>5 DEF NewestRuns
<1>3. RefusesLast
  BY <1>2 DEF RefusesLast
<1>4. QED
  BY <1>1, <1>3 DEF Orderly

TurnInv ==
  /\ Typed /\ RegistryIdsUnique /\ Connections /\ SocketsOwn /\ UnknownApart
  /\ EndedBefore /\ CloseTold /\ EarlyRun /\ NewestRuns

LEMMA TurnInvInit == ASSUME Init PROVE TurnInv
<1>1. Typed /\ Connections /\ SocketsOwn /\ UnknownApart
  BY InitTyped, ConnectionsInit, OwnInit
<1>2. \A kind : ~Holds(<<>>, kind)
  BY EmptySeq DEF Holds
<1>3. /\ DOMAIN tcp_clients = {} /\ backlog = <<>>
      /\ \A p \in Procs : toServer[p] = <<>> /\ toClient[p] = <<>> /\ cstate[p] = "start"
      /\ \A f \in Fds : fd_owner[f] = NoProc
  BY EmptySeq DEF Init
<1>4. \A p : ~InSeq(p, backlog)
  BY <1>3, EmptySeq DEF InSeq
<1>5. RegistryIdsUnique /\ EndedBefore
  BY <1>3 DEF RegistryIdsUnique, EndedBefore
<1>6. CloseTold /\ EarlyRun
  BY <1>2, <1>3, <1>4 DEF CloseTold, EarlyRun, Early
<1>7. NewestRuns
  BY <1>3 DEF NewestRuns
<1>8. QED
  BY <1>1, <1>5, <1>6, <1>7 DEF TurnInv

LEMMA TurnInvStep ==
  ASSUME ~EagerUsers, OneId, OneAfterAnother, TurnInv, [Next]_vars PROVE TurnInv'
<1> Typed /\ Connections /\ UnknownApart /\ CloseTold /\ EarlyRun /\ EndedBefore
  BY DEF TurnInv
<1>1. Orderly
  BY TurnOrderly DEF TurnInv, Typed
<1>2. Typed' /\ Connections' /\ EndedBefore' /\ CloseTold' /\ EarlyRun'
  BY NextTyped, ConnectionsStep, EndedBeforeStep, CloseToldStep, EarlyRunStep
<1>3. RegistryIdsUnique'
  BY IdsStep DEF TurnInv
<1>4. SocketsOwn' /\ UnknownApart'
  BY <1>1, OwnStep DEF TurnInv
<1>5. NewestRuns'
  BY <1>2, NewestRunsStep DEF TurnInv
<1>6. QED
  BY <1>2, <1>3, <1>4, <1>5 DEF TurnInv

(* One client that comes and goes, each of its processes started after the  *)
(* one before has ended, is orderly too: a connection that is still in the  *)
(* server's queues when the next is accepted has been announced already.    *)
THEOREM ReturningIsOrderly ==
  ASSUME ~EagerUsers, OneId, OneAfterAnother PROVE Spec => []Orderly
<1>1. Init => TurnInv
  BY TurnInvInit
<1>2. TurnInv /\ [Next]_vars => TurnInv'
  BY TurnInvStep
<1>3. TurnInv => Orderly
  BY TurnOrderly DEF TurnInv, Typed
<1>4. QED
  BY <1>1, <1>2, <1>3, PTL DEF Spec

(* When such a client is taken for a duplicate, since its goodbye was taken  *)
(* for an ACK, it is its own new connection that is closed, *)
THEOREM ReturningRefusesLast ==
  ASSUME ~EagerUsers, OneId, OneAfterAnother PROVE Spec => []RefusesLast
<1>1. Spec => []Orderly
  BY ReturningIsOrderly
<1>2. Orderly => RefusesLast
  BY DEF Orderly
<1>3. QED
  BY <1>1, <1>2, PTL

(* it loses a message only by a command that crosses it, *)
THEOREM ReturningLostOnlyByCrossing ==
  ASSUME ~EagerUsers, OneId, OneAfterAnother PROVE Spec => LostOnlyByCrossing
<1>1. Spec => []Orderly
  BY ReturningIsOrderly
<1>2. Spec /\ []Orderly /\ []NoCrossing => []NoLoss
  BY NothingIsLost
<1>3. QED
  BY <1>1, <1>2, PTL DEF LostOnlyByCrossing

(* every message the server sends it reaches a process of its own, *)
THEOREM ReturningSocketsAreOwn ==
  ASSUME ~EagerUsers, OneId, OneAfterAnother PROVE Spec => []ActiveSocketIsOwn
<1>1. Spec => []Orderly
  BY ReturningIsOrderly
<1>2. Spec /\ []Orderly => []ActiveSocketIsOwn
  BY SocketsAreOwn
<1>3. QED
  BY <1>1, <1>2, PTL

(* the server serves it as PubSub says, *)
THEOREM ReturningServerImplementsPubSub ==
  ASSUME ~EagerUsers, CleanStack, OneId, OneAfterAnother PROVE Spec => Implements
<1>1. Spec => []Orderly
  BY ReturningIsOrderly
<1>2. Spec /\ []Orderly => Implements
  BY OrderlyServerImplementsPubSub
<1>3. QED
  BY <1>1, <1>2, PTL

(* it gets, across all disconnections, every message stored for it, *)
THEOREM ReturningNothingIsMissed ==
  ASSUME ~EagerUsers, NobodyUnsubscribes, OneId, OneAfterAnother PROVE Spec => []NoGap
<1>1. Spec => []Orderly
  BY ReturningIsOrderly
<1>2. Spec /\ []Orderly => []NoGap
  BY OrderlyNothingIsMissed
<1>3. QED
  BY <1>1, <1>2, PTL

(* prints all it is sent, if one command is typed for it, *)
THEOREM ReturningNothingIsLost ==
  ASSUME ~EagerUsers, OneCommandEach, OneId, OneAfterAnother PROVE Spec => []NoLoss
<1>1. Spec => []Orderly
  BY ReturningIsOrderly
<1>2. Spec /\ []Orderly => []NoLoss
  BY OrderlyNothingIsLost
<1>3. QED
  BY <1>1, <1>2, PTL

(* and it prints nothing it has not asked for. *)
THEOREM ReturningPrintsAreWanted ==
  ASSUME ~EagerUsers, OneId, OneAfterAnother PROVE Spec => []PrintsWanted
<1>1. Spec => []Orderly
  BY ReturningIsOrderly
<1>2. Spec /\ []Orderly => []PrintsWanted
  BY PrintsAreWanted
<1>3. QED
  BY <1>1, <1>2, PTL

-----------------------------------------------------------------------------
(* The order of messages.  While no topic lists a client twice,             *)
Unrepeated(s) == \A x, y \in DOMAIN s :
  s[x].subscriber # 0 /\ s[x].subscriber = s[y].subscriber => x = y
SubscribedOnce == \A k \in DOMAIN all_topics : Unrepeated(all_topics[k].subscribers)

(* a datagram goes to a client once. *)
TodoOnce == Unrepeated(todo)

LEMMA TailElements ==
  ASSUME NEW T, NEW s \in Seq(T), s # <<>>
  PROVE  \A x \in DOMAIN Tail(s) : x + 1 \in DOMAIN s /\ x + 1 # 1 /\ Tail(s)[x] = s[x + 1]
<1>1. /\ DOMAIN s = 1 .. Len(s) /\ Len(s) \in Nat /\ Len(Tail(s)) = Len(s) - 1
      /\ Tail(s) \in Seq(T) /\ \A x \in 1 .. Len(Tail(s)) : Tail(s)[x] = s[x + 1]
  BY HeadTailProperties, LenProperties
<1>2. DOMAIN Tail(s) = 1 .. Len(Tail(s))
  BY <1>1, LenProperties
<1>3. QED
  BY <1>1, <1>2

LEMMA UnrepeatedTail ==
  ASSUME NEW T, NEW s \in Seq(T), s # <<>>, Unrepeated(s) PROVE Unrepeated(Tail(s))
<1>1. DOMAIN s \subseteq Nat
  BY LenProperties
<1>2. DOMAIN Tail(s) \subseteq Nat
  BY HeadTailProperties, LenProperties
<1>3. SUFFICES ASSUME NEW x \in DOMAIN Tail(s), NEW y \in DOMAIN Tail(s),
                      Tail(s)[x].subscriber # 0,
                      Tail(s)[x].subscriber = Tail(s)[y].subscriber
               PROVE  x = y
  BY DEF Unrepeated
<1>4. x + 1 = y + 1
  BY <1>3, TailElements DEF Unrepeated
<1>5. QED
  BY <1>2, <1>3, <1>4

LEMMA UnrepeatedNone == Unrepeated(<<>>)
  BY EmptySeq DEF Unrepeated

LEMMA TodoOnceStep ==
  ASSUME Typed, SubscribedOnce, TodoOnce, [Next]_vars PROVE TodoOnce'
<1>1. CASE UNCHANGED todo
  BY <1>1 DEF TodoOnce
<1>2. CASE todo # <<>> /\ todo' = Tail(todo)
  BY <1>2, UnrepeatedTail DEF TodoOnce, Typed, TypeOK
<1>3. ASSUME NEW t \in Topics, ReceiveDatagram(t) PROVE TodoOnce'
  <2>1. todo' = <<>> \/ \E k \in DOMAIN all_topics : todo' = all_topics[k].subscribers
    BY <1>3 DEF ReceiveDatagram, Resume, TopicsNamed
  <2>2. QED
    BY <2>1, UnrepeatedNone DEF TodoOnce, SubscribedOnce
<1>4. QED
  BY <1>1, <1>2, <1>3, TodoMoves

(* While the server waits for an answer, that is all it does. *)
LEMMA WaitMoves ==
  ASSUME Typed, [Next]_vars
  PROVE  /\ pc = "ack" => UNCHANGED Mapped \/ AwaitAck
         /\ pc = "gotit" => UNCHANGED Mapped \/ AwaitGotIt
<1>1. \A i : ~Turn(i) \/ pc = "loop"
  BY DEF Turn
<1>2. pc \in {"ack", "gotit"} => ~Works \/ AwaitAck \/ AwaitGotIt
  <2>1. SUFFICES ASSUME pc \in {"ack", "gotit"}, Works PROVE AwaitAck \/ AwaitGotIt
    OBVIOUS
  <2>2. \A i, p, m : ~Reads(i, p, m)
    BY <1>1, <2>1 DEF Reads
  <2>3. \A i \in Fds, p \in Procs : ~Reads1(i, p) /\ \A m \in Commands : ~Reads2(i, p, m)
    <3>1. SUFFICES ASSUME NEW i \in Fds, NEW p \in Procs
                   PROVE  ~Reads1(i, p) /\ \A m \in Commands : ~Reads2(i, p, m)
      OBVIOUS
    <3>2. ~Register(i, p) /\ ~Reconnect(i, p) /\ ~Disconnect(i, p)
      BY <2>2 DEF Register, Reconnect, Disconnect
    <3>3. \A m \in Commands : ~Subscribe(i, p, m) /\ ~Unsubscribe(i, p, m)
      BY <2>2 DEF Subscribe, Unsubscribe
    <3>4. QED
      BY <3>2, <3>3 DEF Reads1, Reads2
  <2>4. \A t \in Topics : ~ReceiveDatagram(t)
    BY <1>1, <2>1 DEF ReceiveDatagram
  <2>5. ~SendToActive /\ ~StoreOrSkip /\ ~Replay
    BY <2>1 DEF SendToActive, ToActive, StoreOrSkip, ToInactive, FanningOut, Replay
  <2>6. QED
    BY <2>1, <2>3, <2>4, <2>5 DEF Works
<1>3. AwaitAck => pc = "ack"
  BY DEF AwaitAck
<1>4. AwaitGotIt => pc = "gotit"
  BY DEF AwaitGotIt
<1>5. QED
  BY <1>2, <1>3, <1>4, WorkSteps

-----------------------------------------------------------------------------
(* Datagrams are numbered as they come.  What is stored is stored in that   *)
(* order,                                                                   *)
Rising(s) == \A x, y \in DOMAIN s : x < y => s[x] < s[y]
StoredRises == \A k \in DOMAIN tcp_clients : Rising(tcp_clients[k].unreceived)

(* nothing reaches a client before it has come, *)
ReachedPublished == \A c : \A n : Reached(c, n) => n \in 1 .. Len(published)

(* a stored message is newer than all its client has got, but for the one   *)
(* whose GOT_IT is awaited,                                                 *)
GotBefore == \A k \in DOMAIN tcp_clients : \A m, n :
  Got(tcp_clients[k].id, m) /\ InSeq(n, tcp_clients[k].unreceived) =>
    m < n \/ /\ m = n /\ n = Head(tcp_clients[k].unreceived)
             /\ pc = "gotit" /\ flushing = k

(* and the message in hand is newer than all that has reached those it has  *)
(* still to go to.                                                          *)
OwedNew == \A x \in DOMAIN todo : \A k \in DOMAIN tcp_clients : \A m :
  k = todo[x].subscriber /\ Reached(tcp_clients[k].id, m)
    => m < Len(published) \/ (x = 1 /\ pc = "ack")

LEMMA PublishedLonger ==
  ASSUME Typed, [Next]_vars
  PROVE  Len(published) \in Nat /\ Len(published') \in Nat /\ Len(published) <= Len(published')
<1>1. published \in Seq(Topics) /\ published' \in Seq(Topics)
  BY NextTyped DEF Typed, TypeOK
<1>2. \A n \in 1 .. Len(published) : n \in 1 .. Len(published')
  BY <1>1, PublishedGrows, LenProperties DEF Typed
<1>3. Len(published) \in Nat /\ Len(published') \in Nat
  BY <1>1, LenProperties
<1>4. Len(published) # 0 => Len(published) \in 1 .. Len(published)
  BY <1>3
<1>5. QED
  BY <1>2, <1>3, <1>4

LEMMA ReachedPublishedStep ==
  ASSUME Typed, ActiveSocketIsOwn, ReplaysToActive, TodoWithin, ReachedPublished,
         [Next]_vars
  PROVE  ReachedPublished'
<1>1. SUFFICES ASSUME NEW c, NEW n, Reached(c, n)' PROVE n \in 1 .. Len(published')
  BY DEF ReachedPublished, Reached, Got, StoredFor, EntriesWithId, InSeq
<1>2. published \in Seq(Topics)
  BY DEF Typed, TypeOK
<1>3. Reached(c, n) \/ n \in DOMAIN published
  BY <1>1, ReachedMoves
<1>4. n \in 1 .. Len(published)
  BY <1>2, <1>3, LenProperties DEF ReachedPublished
<1>5. QED
  BY <1>4, PublishedLonger

(* The message in hand is newer than what the client whose turn it is got. *)
LEMMA InHandIsNew ==
  ASSUME Typed, OwedNew, pc = "fanout", NEW k \in DOMAIN tcp_clients, k = Addressee,
         NEW m, Reached(tcp_clients[k].id, m)
  PROVE  m < Len(published)
<1>1. todo \in Seq(Subscription) /\ todo # <<>>
  BY DEF Typed, TypeOK, HandlerHasWork
<1>2. 1 \in DOMAIN todo /\ todo[1] = Head(todo)
  BY <1>1, EmptySeq, LenProperties, HeadTailProperties
<1>3. QED
  BY <1>2 DEF OwedNew, Addressee

LEMMA RisingTail ==
  ASSUME NEW s \in Seq(Nat), s # <<>>, Rising(s)
  PROVE  Rising(Tail(s)) /\ \A n : InSeq(n, Tail(s)) => Head(s) < n
<1>1. DOMAIN s = 1 .. Len(s) /\ Len(s) \in Nat \ {0} /\ Head(s) = s[1]
  BY EmptySeq, LenProperties, HeadTailProperties
<1>2. \A x \in DOMAIN Tail(s) : x + 1 \in DOMAIN s /\ x + 1 # 1 /\ Tail(s)[x] = s[x + 1]
  BY TailElements
<1>3. DOMAIN Tail(s) \subseteq Nat
  BY HeadTailProperties, LenProperties
<1>4. \A x \in DOMAIN Tail(s) : s[1] < Tail(s)[x]
  BY <1>1, <1>2, <1>3 DEF Rising
<1>5. \A x, y \in DOMAIN Tail(s) : x < y => Tail(s)[x] < Tail(s)[y]
  <2>1. SUFFICES ASSUME NEW x \in DOMAIN Tail(s), NEW y \in DOMAIN Tail(s), x < y
                 PROVE  Tail(s)[x] < Tail(s)[y]
    OBVIOUS
  <2>2. x + 1 < y + 1
    BY <1>3, <2>1
  <2>3. QED
    BY <1>2, <2>2 DEF Rising
<1>6. QED
  BY <1>1, <1>4, <1>5 DEF Rising, InSeq

LEMMA RisingAppend ==
  ASSUME NEW s \in Seq(Nat), NEW n \in Nat, Rising(s), \A m : InSeq(m, s) => m < n
  PROVE  Rising(Append(s, n))
<1>1. /\ DOMAIN Append(s, n) = 1 .. Len(s) + 1 /\ DOMAIN s = 1 .. Len(s)
      /\ Len(s) \in Nat /\ Append(s, n)[Len(s) + 1] = n
      /\ \A x \in 1 .. Len(s) : Append(s, n)[x] = s[x]
  BY AppendElements
<1>2. SUFFICES ASSUME NEW x \in 1 .. Len(s) + 1, NEW y \in 1 .. Len(s) + 1, x < y
               PROVE  Append(s, n)[x] < Append(s, n)[y]
  BY <1>1 DEF Rising
<1>3. x \in 1 .. Len(s)
  BY <1>1, <1>2
<1>4. CASE y \in 1 .. Len(s)
  BY <1>1, <1>2, <1>3, <1>4 DEF Rising
<1>5. CASE y = Len(s) + 1
  BY <1>1, <1>3, <1>5 DEF InSeq
<1>6. QED
  BY <1>1, <1>4, <1>5

LEMMA StoredAreNumbers ==
  ASSUME TypeOK, NEW k \in DOMAIN tcp_clients
  PROVE  tcp_clients[k].unreceived \in Seq(Nat)
<1>1. PICK s \in Seq(Message) : s = tcp_clients[k].unreceived
  BY TableEntries
<1>2. Message \subseteq Nat
  BY ConstantsOK DEF Message
<1>3. s \in Seq(Nat)
  BY <1>1, <1>2, SeqElements, SeqWithin, ElementOfSeq
<1>4. QED
  BY <1>1, <1>3

LEMMA StoredRisesStep ==
  ASSUME Typed, OwedNew, StoredRises, [Next]_vars PROVE StoredRises'
<1>1. SUFFICES ASSUME NEW k \in DOMAIN tcp_clients' PROVE Rising(tcp_clients'[k].unreceived)
  BY DEF StoredRises
<1>2. PICK t : t = tcp_clients'[k].unreceived
  OBVIOUS
<1>3. PICK u : u = tcp_clients[k].unreceived
  OBVIOUS
<1>4. k \in DOMAIN tcp_clients => u \in Seq(Nat) /\ Rising(u)
  BY <1>3, StoredAreNumbers DEF StoredRises, Typed
<1>5. Rising(<<>>)
  BY EmptySeq DEF Rising
<1>6. CASE k \in DOMAIN tcp_clients /\ Shrinks(u, t)
  <2>1. u \in Seq(Nat) /\ Rising(u)
    BY <1>4, <1>6
  <2>2. u # <<>> => Rising(Tail(u))
    BY <2>1, RisingTail
  <2>3. QED
    BY <1>2, <1>5, <1>6, <2>1, <2>2 DEF Shrinks
<1>7. CASE /\ ToInactive /\ k = Addressee /\ k \in DOMAIN tcp_clients
           /\ Len(published) \in Message /\ t = Append(u, Len(published))
  <2>1. Len(published) \in Nat
    BY <1>7, ConstantsOK DEF Message
  <2>2. \A m : InSeq(m, u) => m < Len(published)
    <3>1. SUFFICES ASSUME NEW m, InSeq(m, u) PROVE m < Len(published)
      OBVIOUS
    <3>2. Reached(tcp_clients[k].id, m)
      BY <1>3, <1>7, <3>1 DEF Reached, StoredFor, EntriesWithId
    <3>3. pc = "fanout"
      BY <1>7 DEF ToInactive, FanningOut
    <3>4. QED
      BY <1>7, <3>2, <3>3, InHandIsNew
  <2>3. PICK n \in Nat : n = Len(published)
    BY <2>1
  <2>4. u \in Seq(Nat) /\ Rising(u) /\ \A m : InSeq(m, u) => m < n
    BY <1>4, <1>7, <2>2, <2>3
  <2>5. Rising(Append(u, n))
    BY <2>4, RisingAppend
  <2>6. QED
    BY <1>2, <1>7, <2>3, <2>5
<1>8. QED
  BY <1>2, <1>3, <1>5, <1>6, <1>7, UnreceivedMoves

(* What becomes of a message whose GOT_IT is awaited. *)
LEMMA AwaitedMoves ==
  ASSUME Typed, [Next]_vars, pc = "gotit", NEW k, k = flushing
  PROVE  \/ UNCHANGED <<pc, flushing, tcp_clients>>
         \/ /\ k \in DOMAIN tcp_clients /\ tcp_clients[k].unreceived # <<>>
            /\ tcp_clients'[k].unreceived = Tail(tcp_clients[k].unreceived)
<1>1. UNCHANGED Mapped => UNCHANGED <<pc, flushing, tcp_clients>>
  BY DEF Mapped
<1>2. CASE AwaitGotIt
  <2>1. CASE UNCHANGED <<tcp_clients, pc>>
    BY <1>2, <2>1 DEF AwaitGotIt, job
  <2>2. CASE tcp_clients' = [tcp_clients EXCEPT ![flushing].unreceived = Unanswered(flushing)]
    <3>1. k \in DOMAIN tcp_clients /\ tcp_clients[k].unreceived # <<>>
      BY DEF Typed, HandlerHasWork, Replaying
    <3>2. PICK s \in Seq(ClientEntry) : s = tcp_clients
      BY DEF Typed, TypeOK
    <3>3. s[k] \in ClientEntry
      BY <3>1, <3>2, TableEntries DEF Typed
    <3>4. PICK v : v = Tail(s[k].unreceived)
      OBVIOUS
    <3>5. tcp_clients' = [s EXCEPT ![k].unreceived = v]
      BY <2>2, <3>2, <3>4 DEF Unanswered
    <3>6. tcp_clients'[k].unreceived = v
      BY <3>1, <3>2, <3>3, <3>5 DEF ClientEntry
    <3>7. QED
      BY <3>1, <3>2, <3>4, <3>6
  <2>3. QED
    BY <1>2, <2>1, <2>2 DEF AwaitGotIt
<1>3. QED
  BY <1>1, <1>2, WaitMoves

LEMMA GotBeforeStep ==
  ASSUME Typed, RegistryIdsUnique, ActiveSocketIsOwn, ReplaysToActive, TodoWithin,
         StoredOnlyOffline, StoredRises, OwedNew, GotBefore, [Next]_vars
  PROVE  GotBefore'
<1> TypeOK
  BY DEF Typed
<1>1. SUFFICES ASSUME NEW k \in DOMAIN tcp_clients', NEW c, c = tcp_clients'[k].id,
                      NEW m, NEW n, Got(c, m)', InSeq(n, tcp_clients'[k].unreceived)
               PROVE  m < n \/ /\ m = n /\ n = Head(tcp_clients'[k].unreceived)
                               /\ pc' = "gotit" /\ flushing' = k
  BY DEF GotBefore, Got, InSeq
<1>2. k \in DOMAIN tcp_clients
  <2>1. tcp_clients'[k].unreceived # <<>>
    BY <1>1, EmptySeq DEF InSeq
  <2>2. QED
    BY <2>1, UnreceivedMoves
<1>3. tcp_clients[k].id = c
  BY <1>1, <1>2, Stays
<1>4. PICK u : u = tcp_clients[k].unreceived
  OBVIOUS
<1>5. u \in Seq(Nat) /\ Rising(u)
  BY <1>2, <1>4, StoredAreNumbers DEF StoredRises
<1>6. CASE StoreOrSkip /\ ToInactive /\ k = Addressee /\ n = Len(published)
  <2>1. ~SentNow(c, m) /\ ~ReplayedNow(c, m)
    BY <1>6 DEF SentNow, SendToActive, ToActive, ReplayedNow, Replay, ToInactive, FanningOut
  <2>2. Got(c, m)
    BY <1>1, <2>1, GotMoves
  <2>3. pc = "fanout"
    BY <1>6 DEF ToInactive, FanningOut
  <2>4. QED
    BY <1>2, <1>3, <1>6, <2>2, <2>3, InHandIsNew DEF Reached
<1>7. CASE InSeq(n, u)
  <2>1. CASE Got(c, m)
    <3>1. m < n \/ (m = n /\ n = Head(u) /\ pc = "gotit" /\ flushing = k)
      BY <1>2, <1>3, <1>4, <1>7, <2>1 DEF GotBefore
    <3>2. CASE m = n /\ n = Head(u) /\ pc = "gotit" /\ flushing = k
      <4>1. CASE UNCHANGED <<pc, flushing, tcp_clients>>
        BY <1>4, <3>2, <4>1
      <4>2. CASE u # <<>> /\ tcp_clients'[k].unreceived = Tail(u)
        BY <1>1, <1>5, <3>2, <4>2, RisingTail
      <4>3. QED
        BY <1>4, <3>2, <4>1, <4>2, AwaitedMoves
    <3>3. QED
      BY <3>1, <3>2
  <2>2. CASE SentNow(c, m)
    <3>1. Addressee = k /\ tcp_clients[k].is_active = 1
      BY <1>2, <1>3, <2>2 DEF SentNow, EntriesWithId, RegistryIdsUnique
    <3>2. ~Replaying
      BY <2>2 DEF SentNow, SendToActive, ToActive, FanningOut, Replaying
    <3>3. u = <<>>
      BY <1>2, <1>4, <3>1, <3>2 DEF StoredOnlyOffline
    <3>4. QED
      BY <1>7, <3>3, EmptySeq DEF InSeq
  <2>3. CASE ReplayedNow(c, m)
    <3>1. flushing = k
      BY <1>2, <1>3, <2>3 DEF ReplayedNow, EntriesWithId, RegistryIdsUnique
    <3>2. /\ m = Head(u) /\ pc' = "gotit" /\ flushing' = k
          /\ tcp_clients'[k].unreceived = u
      BY <1>4, <2>3, <3>1 DEF ReplayedNow
    <3>3. u # <<>>
      BY <1>7, EmptySeq DEF InSeq
    <3>4. n = Head(u) \/ InSeq(n, Tail(u))
      BY <1>5, <1>7, <3>3, TailInSeq
    <3>5. InSeq(n, Tail(u)) => m < n
      BY <1>5, <3>2, <3>3, RisingTail
    <3>6. QED
      BY <3>2, <3>4, <3>5
  <2>4. QED
    BY <1>1, <2>1, <2>2, <2>3, GotMoves
<1>8. QED
  BY <1>1, <1>4, <1>6, <1>7, StoredMoves

LEMMA OwedNewStep ==
  ASSUME Typed, RegistryIdsUnique, TopicNamesUnique, ActiveSocketIsOwn, ReplaysToActive,
         TodoWithin, TodoDone, TodoOnce, ReachedPublished, OwedNew, [Next]_vars
  PROVE  OwedNew'
<1> TypeOK
  BY DEF Typed
<1>1. SUFFICES ASSUME NEW x \in DOMAIN todo', NEW k \in DOMAIN tcp_clients',
                      k = todo'[x].subscriber, NEW c, c = tcp_clients'[k].id,
                      NEW m, Reached(c, m)'
               PROVE  m < Len(published') \/ (x = 1 /\ pc' = "ack")
  BY DEF OwedNew, Reached, Got, StoredFor, EntriesWithId, InSeq
<1>2. todo \in Seq(Subscription) /\ DOMAIN todo = 1 .. Len(todo) /\ Len(todo) \in Nat
  BY LenProperties DEF TypeOK
<1>3. DOMAIN tcp_clients = 1 .. Len(tcp_clients) /\ Len(tcp_clients) \in Nat
  BY TableEntries
<1>4. k # 0
  <2>1. DOMAIN tcp_clients' = 1 .. Len(tcp_clients') /\ Len(tcp_clients') \in Nat
    BY NextTyped, LenProperties DEF Typed, TypeOK
  <2>2. QED
    BY <2>1
<1>5. ASSUME NEW y \in DOMAIN todo, todo[y].subscriber = k
      PROVE  k \in DOMAIN tcp_clients /\ tcp_clients[k].id = c
  <2>1. k \in 0 .. Len(tcp_clients)
    BY <1>5 DEF TodoWithin
  <2>2. QED
    BY <1>1, <1>3, <1>4, <2>1, Stays
(* A client whose turn it is not is reached by nothing new. *)
<1>6. ASSUME NEW y \in DOMAIN todo, todo[y].subscriber = k, y # 1 PROVE Reached(c, m)
  <2>1. k \in DOMAIN tcp_clients /\ tcp_clients[k].id = c
    BY <1>5, <1>6
  <2>2. 1 \in DOMAIN todo /\ todo[1] = Head(todo)
    <3>1. todo # <<>>
      BY <1>6, EmptySeq
    <3>2. QED
      BY <1>2, <3>1, EmptySeq, HeadTailProperties
  <2>3. Addressee # k
    BY <1>4, <1>6, <2>2 DEF TodoOnce, Unrepeated, Addressee
  <2>4. Addressee \notin EntriesWithId(c)
    BY <2>1, <2>3 DEF EntriesWithId, RegistryIdsUnique
  <2>5. QED
    BY <1>1, <2>4, ReachedMoves
<1>7. CASE UNCHANGED <<todo, published>>
  <2>1. PICK y : y = x
    OBVIOUS
  <2>2. y \in DOMAIN todo /\ todo[y].subscriber = k
    BY <1>1, <1>7, <2>1
  <2>3. k \in DOMAIN tcp_clients /\ tcp_clients[k].id = c
    BY <1>5, <2>2
  <2>4. CASE y # 1
    <3>1. Reached(c, m)
      BY <1>6, <2>2, <2>4
    <3>2. QED
      BY <1>7, <2>2, <2>3, <2>4, <3>1 DEF OwedNew
  <2>5. CASE y = 1 /\ pc' # "ack"
    <3>1. todo # <<>>
      BY <2>2, EmptySeq
    <3>2. todo' # Tail(todo)
      <4>1. PICK s \in Seq(Subscription) : s = todo
        BY <1>2
      <4>2. PICK w : w = Tail(s)
        OBVIOUS
      <4>3. Len(w) = Len(s) - 1 /\ Len(s) \in Nat
        BY <3>1, <4>1, <4>2, HeadTailProperties, LenProperties
      <4>4. w # s
        BY <4>3
      <4>5. QED
        BY <1>7, <4>1, <4>2, <4>4
    <3>3. ~SendToActive /\ ~StoreOrSkip /\ ~AwaitAck
      BY <2>5, <3>2 DEF SendToActive, StoreOrSkip, AwaitAck, Resume
    <3>4. pc # "ack"
      BY <2>5, <3>3, WaitMoves DEF Mapped
    <3>5. Reached(c, m)
      BY <1>1, <3>3, ReachedMoves
    <3>6. QED
      BY <1>7, <2>2, <2>3, <3>4, <3>5 DEF OwedNew
  <2>6. QED
    BY <2>1, <2>4, <2>5
<1>8. CASE todo # <<>> /\ todo' = Tail(todo) /\ UNCHANGED published
  <2>1. PICK y : y = x + 1
    OBVIOUS
  <2>2. y \in DOMAIN todo /\ y # 1 /\ todo[y].subscriber = k
    BY <1>1, <1>2, <1>8, <2>1, TailElements
  <2>3. k \in DOMAIN tcp_clients /\ tcp_clients[k].id = c /\ Reached(c, m)
    BY <1>5, <1>6, <2>2
  <2>4. QED
    BY <1>8, <2>2, <2>3 DEF OwedNew
<1>9. ASSUME NEW t \in Topics, ReceiveDatagram(t) PROVE m < Len(published')
  <2>1. /\ Len(published') = Len(published) + 1 /\ pc = "loop"
    BY <1>9, DatagramListed
  <2>2. ~SendToActive /\ ~StoreOrSkip
    BY <2>1 DEF SendToActive, ToActive, StoreOrSkip, ToInactive, FanningOut
  <2>3. Reached(c, m)
    BY <1>1, <2>2, ReachedMoves
  <2>4. m \in 1 .. Len(published)
    BY <2>3 DEF ReachedPublished
  <2>5. QED
    BY <2>1, <2>4, PublishedLonger
<1>10. QED
  BY <1>7, <1>8, <1>9, TodoMoves

(* So what is handed to a client is newer than all it has got. *)
LEMMA HandsOne ==
  ASSUME TypeOK, NEW p, NEW n, Hands(p, n)
  PROVE  ~UNCHANGED handed /\ \A q, m : Hands(q, m) => q = p /\ m = n
<1> p \in Procs /\ n \in Message
  BY DEF Hands
<1>1. PICK s \in Seq(Message) : s = handed[p]
  BY DEF TypeOK
<1>2. handed'[p] = Append(s, n)
  BY <1>1, HandedAt
<1>3. Len(Append(s, n)) = Len(s) + 1 /\ Append(s, n)[Len(s) + 1] = n /\ Len(s) \in Nat
  BY <1>2, AppendElements, AppendProperties
<1>4. Append(s, n) # s
  BY <1>3
<1>5. ASSUME NEW q, NEW m, Hands(q, m) PROVE q = p /\ m = n
  <2>1. q = p
    <3>1. q # p => handed'[p] = handed[p]
      BY <1>2, <1>5, HandedAt
    <3>2. QED
      BY <1>1, <1>2, <1>4, <3>1
  <2>2. handed'[p] = Append(s, m) /\ m \in Message
    BY <1>1, <1>2, <1>5, <2>1, HandedAt DEF Hands
  <2>3. Append(s, m)[Len(s) + 1] = m
    BY <2>2, AppendElements
  <2>4. QED
    BY <1>2, <1>3, <2>1, <2>2, <2>3
<1>6. QED
  BY <1>1, <1>2, <1>4, <1>5

LEMMA HandedIsNew ==
  ASSUME Typed, ActiveSocketIsOwn, ReplaysToActive, TodoWithin, OwedNew, GotBefore,
         [Next]_vars, NEW p \in Procs, NEW n, Hands(p, n), NEW m, Got(IdOf[p], m)
  PROVE  m < n
<1> TypeOK
  BY DEF Typed
<1>1. ~UNCHANGED handed
  BY HandsOne
<1>2. CASE SendToActive /\ Hands(fd_owner[tcp_clients[Addressee].current_socket],
                                 Len(published))
  <2>1. todo # <<>> /\ Addressee # 0 /\ tcp_clients[Addressee].is_active = 1
        /\ status = "running" /\ pc = "fanout"
    BY <1>2 DEF SendToActive, ToActive, FanningOut, Typed, HandlerHasWork
  <2>2. PICK a \in DOMAIN tcp_clients : a = Addressee
    BY <2>1, AddresseeWithin
  <2>3. PICK q : q = fd_owner[tcp_clients[a].current_socket]
    OBVIOUS
  <2>4. IdOf[q] = tcp_clients[a].id
    BY <2>1, <2>2, <2>3, SentToOwn
  <2>5. PICK h : h = Len(published)
    OBVIOUS
  <2>6. q = p /\ h = n
    BY <1>2, <2>2, <2>3, <2>5, HandsOne
  <2>7. Reached(tcp_clients[a].id, m)
    BY <2>4, <2>6 DEF Reached
  <2>8. QED
    BY <2>1, <2>2, <2>5, <2>6, <2>7, InHandIsNew
<1>3. CASE Replay /\ Hands(fd_owner[tcp_clients[flushing].current_socket],
                           Head(tcp_clients[flushing].unreceived))
  <2>1. PICK k : k = flushing
    OBVIOUS
  <2>2. k \in DOMAIN tcp_clients /\ tcp_clients[k].unreceived # <<>> /\ pc = "flush"
        /\ tcp_clients[k].is_active = 1 /\ status = "running"
    BY <1>3, <2>1 DEF Replay, Typed, HandlerHasWork, Replaying, ReplaysToActive
  <2>3. PICK q : q = fd_owner[tcp_clients[k].current_socket]
    OBVIOUS
  <2>4. IdOf[q] = tcp_clients[k].id
    BY <2>2, <2>3, SentToOwn
  <2>5. PICK h : h = Head(tcp_clients[k].unreceived)
    OBVIOUS
  <2>6. q = p /\ h = n
    BY <1>3, <2>1, <2>3, <2>5, HandsOne
  <2>7. InSeq(h, tcp_clients[k].unreceived)
    BY <2>2, <2>5, StoredAreNumbers, HeadInSeq
  <2>8. m < h \/ pc = "gotit"
    BY <2>2, <2>4, <2>6, <2>7 DEF GotBefore
  <2>9. QED
    BY <2>2, <2>6, <2>8
<1>4. QED
  BY <1>1, <1>2, <1>3, HandedStep

-----------------------------------------------------------------------------
(* A process that has been handed a message is announced until it ends: its *)
(* "disconnected." is the last thing it says, *)
ByeDone == \A p \in Procs :
  Holds(toServer[p], "disconnected.") => cstate[p] \in {"done", "failed"}

LEMMA ByeDoneStep ==
  ASSUME Typed, ByeDone, [Next]_vars PROVE ByeDone'
<1> TypeOK
  BY DEF Typed
<1>1. SUFFICES ASSUME NEW p \in Procs, Holds(toServer'[p], "disconnected."),
                      ~Holds(toServer[p], "disconnected.")
               PROVE  cstate'[p] \in {"done", "failed"}
  <2>1. ASSUME NEW p \in Procs, Holds(toServer[p], "disconnected.")
        PROVE  cstate'[p] \in {"done", "failed"}
    BY <2>1, StateMoves DEF ByeDone
  <2>2. QED
    BY <1>1, <2>1 DEF ByeDone
<1>2. toServer'[p] # toServer[p]
  BY <1>1
<1>3. CASE Server \/ Idle \/ UNCHANGED vars
  <2>1. ServerActs
    BY <1>3, ServerEvent, StillServes DEF Idle, ServerActs
  <2>2. Shrinks(toServer[p], toServer'[p])
    BY <1>2, <2>1 DEF ServerActs, Serving, Closing, Accepting
  <2>3. QED
    BY <1>1, <2>2, SettledServer
<1>4. ASSUME NEW q \in Procs, q # p, ClientReads(q) \/ User(q) PROVE FALSE
  <2>1. Starting(q) \/ Acting(q)
    BY <1>4, AnswerActs, EndActs, PrintActs, ConnectStarts, ExitActs, TypeActs
       DEF ClientReads, User
  <2>2. QED
    BY <1>2, <1>4, <2>1, ActingOthers DEF Starting
<1>5. ASSUME NEW m \in ServerMessages, m.kind # "disconnected.", cstate[p] = "running",
             Sends(p, m)
      PROVE  FALSE
  <2>1. toServer'[p] = Append(toServer[p], m)
    BY <1>2, <1>5, SendsActs DEF TypeOK
  <2>2. toServer[p] \in Seq(ServerMessages)
    BY DEF TypeOK
  <2>3. QED
    BY <1>1, <1>5, <2>1, <2>2, AppendHolds
<1>6. CASE AnswerId(p) \/ \E n \in Message : PrintMessage(p, n)
  <2>1. cstate[p] = "running" /\ (Sends(p, IdReply(p)) \/ Sends(p, GotIt))
    BY <1>6 DEF AnswerId, PrintMessage, Gets
  <2>2. IdReply(p) \in ServerMessages /\ GotIt \in ServerMessages
    BY DEF ServerMessages
  <2>3. IdReply(p).kind # "disconnected." /\ GotIt.kind # "disconnected."
    BY Kinds
  <2>4. QED
    BY <1>5, <2>1, <2>2, <2>3
<1>7. ASSUME NEW m \in Commands, TypeCommand(p, m) PROVE FALSE
  <2>1. m \in ServerMessages /\ m.kind # "disconnected."
    BY Kinds DEF ServerMessages
  <2>2. cstate[p] = "running" /\ Sends(p, m)
    BY <1>7 DEF TypeCommand, AtKeyboard
  <2>3. QED
    BY <1>5, <2>1, <2>2
<1>8. CASE Exit(p)
  BY <1>2, <1>8 DEF Exit, TypeOK
<1>9. CASE Connect(p) \/ CloseOnRequest(p) \/ ConnectionLost(p)
  BY <1>2, <1>9 DEF Connect, CloseOnRequest, ConnectionLost
<1>10. QED
  BY <1>3, <1>4, <1>6, <1>7, <1>8, <1>9 DEF Next, ClientReads, User

(* and its connection is not the one refused. *)
Runners == \A p \in Procs :
  handed[p] # <<>> => Announced(p) \/ cstate[p] \in {"done", "failed"}

LEMMA AnnouncedRunner ==
  ASSUME Typed, Connections, UnknownApart, RefusesLast, ByeDone, [Next]_vars,
         NEW p \in Procs, Announced(p)
  PROVE  Announced(p)' \/ cstate'[p] \in {"done", "failed"}
<1> TypeOK
  BY DEF Typed
<1>1. ASSUME NEW i \in Fds, Disconnect(i, p) PROVE cstate'[p] \in {"done", "failed"}
  <2>1. toServer[p] # <<>> /\ Head(toServer[p]) = Bye /\ UNCHANGED cstate
    BY <1>1 DEF Disconnect, Reads, client
  <2>2. PICK s \in Seq(ServerMessages) : s = toServer[p]
    BY DEF TypeOK
  <2>3. 1 \in DOMAIN s /\ s[1] = Head(s)
    BY <2>1, <2>2, EmptySeq, LenProperties, HeadTailProperties
  <2>4. Holds(toServer[p], "disconnected.")
    BY <2>1, <2>2, <2>3, Kinds DEF Holds
  <2>5. QED
    BY <2>1, <2>4 DEF ByeDone
<1>2. ASSUME NEW i \in Fds, NEW q \in Procs, Closes(i, q), Owner(new_tcp_sockfd) = p
      PROVE  FALSE
  <2>1. /\ Reads(i, q, IdReply(q))
        /\ \E k \in DOMAIN tcp_clients : /\ IsFirst(k, EntriesWithId(IdOf[q]))
                                         /\ tcp_clients[k].is_active = 1
    BY <1>2 DEF Closes, RefuseDuplicate
  <2>2. new_tcp_sockfd = i
    BY <2>1 DEF RefusesLast, IsFirst
  <2>3. p = q
    BY <1>2, <2>1, <2>2 DEF Reads, Owner
  <2>4. NotYet(p)
    BY <2>1, <2>3, Heard
  <2>5. QED
    BY <2>4 DEF UnknownApart
<1>3. QED
  BY <1>1, <1>2, AnnouncedUntil DEF AnnouncementEnds

LEMMA RunnersStep ==
  ASSUME Typed, Connections, UnknownApart, SocketsOwn, ReplaysToActive, RefusesLast,
         TodoWithin, ByeDone, Runners, [Next]_vars
  PROVE  Runners'
<1> TypeOK
  BY DEF Typed
<1>1. SUFFICES ASSUME NEW p \in Procs, handed'[p] # <<>>
               PROVE  Announced(p)' \/ cstate'[p] \in {"done", "failed"}
  BY DEF Runners, Announced
<1>2. Announced(p) => Announced(p)' \/ cstate'[p] \in {"done", "failed"}
  BY AnnouncedRunner
<1>3. CASE handed[p] # <<>>
  <2>1. cstate[p] \in {"done", "failed"} => cstate'[p] \in {"done", "failed"}
    BY StateMoves
  <2>2. QED
    BY <1>2, <1>3, <2>1 DEF Runners
<1>4. ASSUME NEW k \in DOMAIN tcp_clients, tcp_clients[k].is_active = 1, NEW n,
             Hands(fd_owner[tcp_clients[k].current_socket], n), handed[p] = <<>>
      PROVE  Announced(p)
  <2>1. PICK q : q = fd_owner[tcp_clients[k].current_socket]
    OBVIOUS
  <2>2. q = p
    BY <1>1, <1>4, <2>1, HandedAt
  <2>3. tcp_clients[k].current_socket \in Fds
    BY TableEntries DEF ClientEntry
  <2>4. QED
    BY <1>4, <2>1, <2>2, <2>3 DEF Announced, Owner
<1>5. CASE SendToActive /\ Hands(fd_owner[tcp_clients[Addressee].current_socket],
                                 Len(published))
  <2>1. /\ Addressee # 0 /\ tcp_clients[Addressee].is_active = 1
        /\ CanSend(tcp_clients[Addressee].current_socket)
    BY <1>5 DEF SendToActive, ToActive, FanningOut
  <2>2. PICK k \in DOMAIN tcp_clients : k = Addressee
    BY <1>5, <2>1, AddresseeWithin DEF Typed, HandlerHasWork, SendToActive, ToActive,
       FanningOut
  <2>3. QED
    BY <1>2, <1>3, <1>4, <1>5, <2>1, <2>2
<1>6. CASE Replay /\ Hands(fd_owner[tcp_clients[flushing].current_socket],
                           Head(tcp_clients[flushing].unreceived))
  <2>1. PICK k : k = flushing
    OBVIOUS
  <2>2. k \in DOMAIN tcp_clients /\ tcp_clients[k].is_active = 1
    BY <1>6, <2>1 DEF Replay, Typed, HandlerHasWork, Replaying, ReplaysToActive
  <2>3. QED
    BY <1>2, <1>3, <1>4, <1>6, <2>1, <2>2
<1>7. QED
  BY <1>1, <1>3, <1>5, <1>6, HandedStep

(* So of the running processes of one client one is handed messages. *)
LEMMA OneReader ==
  ASSUME SocketsOwn, RegistryIdsUnique, Runners, NEW p \in Procs, NEW q \in Procs,
         IdOf[p] = IdOf[q], cstate[p] = "running", cstate[q] = "running",
         handed[p] # <<>>, handed[q] # <<>>
  PROVE  p = q
<1>1. Announced(p) /\ Announced(q)
  BY DEF Runners
<1>2. PICK j \in DOMAIN tcp_clients : /\ tcp_clients[j].is_active = 1
                                      /\ Owner(tcp_clients[j].current_socket) = p
  BY <1>1 DEF Announced
<1>3. PICK k \in DOMAIN tcp_clients : /\ tcp_clients[k].is_active = 1
                                      /\ Owner(tcp_clients[k].current_socket) = q
  BY <1>1 DEF Announced
<1>4. tcp_clients[j].id = tcp_clients[k].id
  BY <1>2, <1>3 DEF SocketsOwn
<1>5. QED
  BY <1>2, <1>3, <1>4 DEF RegistryIdsUnique

-----------------------------------------------------------------------------
(* What a process has not read yet is in order, and newer than all that the *)
(* client has printed.                                                      *)
UnreadRises == \A p \in Procs : \A x, y \in DOMAIN toClient[p] :
  /\ toClient[p][x].kind = "data" /\ toClient[p][y].kind = "data" /\ x < y
  => toClient[p][x].n < toClient[p][y].n

PrintedBefore(p, n) == \A q \in Procs : IdOf[q] = IdOf[p] =>
  \A y \in DOMAIN printed[q] : printed[q][y] < n
UnreadNew == \A p \in Procs : cstate[p] = "running" =>
  \A x \in DOMAIN toClient[p] :
    toClient[p][x].kind = "data" => PrintedBefore(p, toClient[p][x].n)

LEMMA GainsHands ==
  ASSUME Typed, [Next]_vars, NEW p \in Procs, NEW m \in ClientMessages, Gains(p, m),
         m.kind = "data"
  PROVE  Hands(p, m.n)
<1> TypeOK
  BY DEF Typed
<1>1. m.n \in Message
  BY DataMessages
<1>2. PICK s \in Seq(Message) : s = handed[p]
  BY DEF TypeOK
<1>3. handed'[p] = Append(s, m.n)
  BY <1>2 DEF Gains
<1>4. /\ Len(Append(s, m.n)) = Len(s) + 1 /\ Len(s) \in Nat
      /\ Append(s, m.n)[Len(s) + 1] = m.n
  BY <1>1, AppendElements, AppendProperties
<1>5. Append(s, m.n) # s
  BY <1>4
<1>6. ASSUME NEW q, NEW n, Hands(q, n) PROVE Hands(p, m.n)
  <2>1. q = p
    <3>1. q # p => handed'[p] = handed[p]
      BY <1>6, HandedAt
    <3>2. QED
      BY <1>2, <1>3, <1>5, <3>1
  <2>2. handed'[p] = Append(s, n) /\ n \in Message
    BY <1>2, <1>6, <2>1, HandedAt DEF Hands
  <2>3. Append(s, n)[Len(s) + 1] = n
    BY <2>2, AppendElements
  <2>4. n = m.n
    BY <1>3, <1>4, <2>2, <2>3
  <2>5. QED
    BY <1>6, <2>1, <2>4
<1>7. QED
  BY <1>2, <1>3, <1>5, <1>6, HandedStep

(* The order of a queue, element by element. *)
InOrder(s) == \A x, y \in DOMAIN s :
  s[x].kind = "data" /\ s[y].kind = "data" /\ x < y => s[x].n < s[y].n

LEMMA LaterInOrder ==
  ASSUME NEW T, NEW s, NEW t \in Seq(T), NEW d \in Nat, Later(s, t, d), InOrder(s)
  PROVE  InOrder(t)
<1>1. DOMAIN t \subseteq Nat
  BY LenProperties
<1>2. SUFFICES ASSUME NEW x \in DOMAIN t, NEW y \in DOMAIN t, t[x].kind = "data",
                      t[y].kind = "data", x < y
               PROVE  t[x].n < t[y].n
  BY DEF InOrder
<1>3. x + d < y + d
  BY <1>1, <1>2
<1>4. QED
  BY <1>2, <1>3 DEF InOrder, Later

LEMMA AppendInOrder ==
  ASSUME NEW T, NEW s \in Seq(T), NEW m \in T, InOrder(s),
         m.kind = "data" => \A x \in DOMAIN s : s[x].kind = "data" => s[x].n < m.n
  PROVE  InOrder(Append(s, m))
<1>1. /\ DOMAIN Append(s, m) = 1 .. Len(s) + 1 /\ DOMAIN s = 1 .. Len(s)
      /\ Len(s) \in Nat /\ Append(s, m)[Len(s) + 1] = m
      /\ \A x \in 1 .. Len(s) : Append(s, m)[x] = s[x]
  BY AppendElements
<1>2. PICK t : t = Append(s, m)
  OBVIOUS
<1>3. SUFFICES ASSUME NEW x \in 1 .. Len(s) + 1, NEW y \in 1 .. Len(s) + 1,
                      t[x].kind = "data", t[y].kind = "data", x < y
               PROVE  t[x].n < t[y].n
  BY <1>1, <1>2 DEF InOrder
<1>4. x \in 1 .. Len(s) /\ t[x] = s[x]
  BY <1>1, <1>2, <1>3
<1>5. CASE y \in 1 .. Len(s)
  <2>1. t[y] = s[y]
    BY <1>1, <1>2, <1>5
  <2>2. QED
    BY <1>1, <1>3, <1>4, <1>5, <2>1 DEF InOrder
<1>6. CASE y = Len(s) + 1
  <2>1. t[y] = m
    BY <1>1, <1>2, <1>6
  <2>2. QED
    BY <1>1, <1>3, <1>4, <2>1
<1>7. QED
  BY <1>1, <1>5, <1>6

LEMMA UnreadRisesStep ==
  ASSUME Typed, ActiveSocketIsOwn, ReplaysToActive, TodoWithin, OwedNew, GotBefore,
         DataHanded, UnreadRises, [Next]_vars
  PROVE  UnreadRises'
<1> TypeOK /\ TypeOK'
  BY NextTyped DEF Typed
<1>1. SUFFICES ASSUME NEW p \in Procs, NEW t, t = toClient'[p] PROVE InOrder(t)
  BY DEF UnreadRises, InOrder
<1>2. PICK s \in Seq(ClientMessages) : s = toClient[p]
  BY DEF TypeOK
<1>3. InOrder(s)
  BY <1>2 DEF UnreadRises, InOrder
<1>4. CASE Uses(p)
  <2>1. PICK d \in Nat : Later(s, t, d)
    BY <1>1, <1>2, <1>4 DEF Uses
  <2>2. t \in Seq(ClientMessages)
    BY <1>1 DEF TypeOK
  <2>3. QED
    BY <1>3, <2>1, <2>2, LaterInOrder
<1>5. ASSUME NEW m \in ClientMessages, Gains(p, m) PROVE InOrder(t)
  <2>1. ASSUME m.kind = "data", NEW x \in DOMAIN s, s[x].kind = "data"
        PROVE  s[x].n < m.n
    <3>1. InSeq(s[x].n, handed[p])
      BY <1>2, <2>1 DEF DataHanded
    <3>2. Got(IdOf[p], s[x].n)
      BY <3>1 DEF Got
    <3>3. Hands(p, m.n)
      BY <1>5, <2>1, GainsHands
    <3>4. QED
      BY <3>2, <3>3, HandedIsNew
  <2>2. t = Append(s, m)
    BY <1>1, <1>2, <1>5 DEF Gains
  <2>3. QED
    BY <1>3, <2>1, <2>2, AppendInOrder
<1>6. QED
  BY <1>4, <1>5, ClientQueueStep

(* A client prints what it has not read yet, in order. *)
LEMMA PrintsUnread ==
  ASSUME TypeOK, NEW q \in Procs, NEW n \in Message, PrintMessage(q, n)
  PROVE  /\ printed' = [printed EXCEPT ![q] = Append(@, n)]
         /\ cstate[q] = "running" /\ toClient[q] \in Seq(ClientMessages)
         /\ 1 \in DOMAIN toClient[q] /\ toClient[q][1] = Data(n)
         /\ \E d \in Nat \ {0} : Later(toClient[q], toClient'[q], d)
<1>1. printed' = [printed EXCEPT ![q] = Append(@, n)] /\ Gets(q, Data(n))
  BY DEF PrintMessage
<1>2. PICK s \in Seq(ClientMessages) : s = toClient[q]
  BY DEF TypeOK
<1>3. s # <<>> /\ Head(s) = Data(n) /\ cstate[q] = "running"
  BY <1>1, <1>2 DEF Gets
<1>4. 1 \in DOMAIN s /\ s[1] = Data(n)
  BY <1>3, EmptySeq, LenProperties, HeadTailProperties
<1>5. PICK k \in 1 .. Len(s) : toClient'[q] = SubSeq(s, k + 1, Len(s))
  BY <1>1, <1>2 DEF Gets, TypeOK
<1>6. Later(s, SubSeq(s, k + 1, Len(s)), k) /\ k \in Nat \ {0}
  BY <1>5, DropsLater
<1>7. QED
  BY <1>1, <1>2, <1>3, <1>4, <1>5, <1>6

LEMMA DataOfRunner ==
  ASSUME DataHanded, NEW p \in Procs, NEW x \in DOMAIN toClient[p],
         toClient[p][x].kind = "data"
  PROVE  handed[p] # <<>>
<1>1. InSeq(toClient[p][x].n, handed[p])
  BY DEF DataHanded
<1>2. ~InSeq(toClient[p][x].n, <<>>)
  BY EmptySeq DEF InSeq
<1>3. QED
  BY <1>1, <1>2

LEMMA UnreadNewStep ==
  ASSUME Typed, Connections, RegistryIdsUnique, SocketsOwn, ActiveSocketIsOwn, Runners,
         ReplaysToActive, TodoWithin, OwedNew, GotBefore, DataHanded, PrintsHanded,
         UnreadRises, UnreadNew, [Next]_vars
  PROVE  UnreadNew'
<1> TypeOK
  BY DEF Typed
<1>1. SUFFICES ASSUME NEW p \in Procs, cstate'[p] = "running",
                      NEW x \in DOMAIN toClient'[p], toClient'[p][x].kind = "data",
                      NEW n, n = toClient'[p][x].n,
                      NEW q \in Procs, IdOf[q] = IdOf[p], NEW y \in DOMAIN printed'[q]
               PROVE  printed'[q][y] < n
  BY DEF UnreadNew, PrintedBefore
<1>2. PICK s \in Seq(ClientMessages) : s = toClient[p]
  BY DEF TypeOK
<1>3. PICK t : t = toClient'[p]
  OBVIOUS
(* What was there before is newer than what had been printed. *)
<1>4. ASSUME NEW z \in DOMAIN s, s[z].kind = "data"
      PROVE  cstate[p] = "running" /\ PrintedBefore(p, s[z].n)
  <2>1. cstate[p] # "start"
    <3>1. s # <<>>
      BY <1>4, EmptySeq
    <3>2. QED
      BY <1>2, <3>1 DEF Connections, WaitsInSilence, Waits
  <2>2. cstate[p] = "running"
    BY <1>1, <2>1, StateMoves
  <2>3. QED
    BY <1>2, <1>4, <2>2 DEF UnreadNew
<1>5. CASE printed'[q] = printed[q]
  <2>1. CASE Uses(p)
    <3>1. PICK z \in DOMAIN s : t[x] = s[z]
      BY <1>1, <1>2, <1>3, <2>1, UsesElements
    <3>2. s[z].kind = "data" /\ n = s[z].n
      BY <1>1, <1>3, <3>1
    <3>3. PrintedBefore(p, n)
      BY <1>4, <3>2
    <3>4. QED
      BY <1>1, <1>5, <3>3 DEF PrintedBefore
  <2>2. ASSUME NEW m \in ClientMessages, Gains(p, m) PROVE printed'[q][y] < n
    <3>1. t = Append(s, m)
      BY <1>2, <1>3, <2>2 DEF Gains
    <3>2. /\ DOMAIN Append(s, m) = 1 .. Len(s) + 1 /\ DOMAIN s = 1 .. Len(s)
          /\ Len(s) \in Nat /\ Append(s, m)[Len(s) + 1] = m
          /\ \A z \in 1 .. Len(s) : Append(s, m)[z] = s[z]
      BY AppendElements
    <3>3. x \in 1 .. Len(s) \/ x = Len(s) + 1
      BY <1>1, <1>3, <3>1, <3>2
    <3>4. CASE x \in 1 .. Len(s)
      <4>1. x \in DOMAIN s /\ t[x] = s[x]
        BY <3>1, <3>2, <3>4
      <4>2. PrintedBefore(p, n)
        BY <1>1, <1>3, <1>4, <4>1
      <4>3. QED
        BY <1>1, <1>5, <4>2 DEF PrintedBefore
    <3>5. CASE x = Len(s) + 1
      <4>1. t[x] = m
        BY <3>1, <3>2, <3>5
      <4>2. m.kind = "data" /\ n = m.n
        BY <1>1, <1>3, <4>1
      <4>3. Hands(p, n)
        BY <2>2, <4>2, GainsHands
      <4>4. y \in DOMAIN printed[q] /\ InSeq(printed[q][y], handed[q])
        BY <1>1, <1>5 DEF PrintsHanded
      <4>5. Got(IdOf[p], printed[q][y])
        BY <1>1, <4>4 DEF Got
      <4>6. printed[q][y] < n
        BY <4>3, <4>5, HandedIsNew
      <4>7. QED
        BY <1>5, <4>6
    <3>6. QED
      BY <3>3, <3>4, <3>5
  <2>3. QED
    BY <2>1, <2>2, ClientQueueStep
<1>6. ASSUME NEW r \in Procs, NEW h \in Message, PrintMessage(r, h)
      PROVE  printed'[q][y] < n
  <2>1. /\ printed' = [printed EXCEPT ![r] = Append(@, h)]
        /\ cstate[r] = "running" /\ toClient[r] \in Seq(ClientMessages)
        /\ 1 \in DOMAIN toClient[r] /\ toClient[r][1] = Data(h)
        /\ \E d \in Nat \ {0} : Later(toClient[r], toClient'[r], d)
    BY <1>6, PrintsUnread
  <2>2. CASE r # q
    BY <1>5, <2>1, <2>2 DEF TypeOK
  <2>3. CASE r = q
    <3>1. Data(h).kind = "data" /\ Data(h).n = h
      BY DEF Data
    <3>2. Uses(p)
      BY <1>6, PrintActs, ActingUses
    <3>3. PICK z \in DOMAIN s : t[x] = s[z]
      BY <1>1, <1>2, <1>3, <3>2, UsesElements
    <3>4. s[z].kind = "data" /\ n = s[z].n
      BY <1>1, <1>3, <3>3
    <3>5. cstate[p] = "running" /\ PrintedBefore(p, n)
      BY <1>4, <3>4
    <3>6. handed[p] # <<>> /\ handed[q] # <<>>
      BY <1>2, <2>1, <2>3, <3>1, <3>4, DataOfRunner
    <3>7. p = q
      BY <1>1, <2>1, <2>3, <3>5, <3>6, OneReader
    <3>8. PICK d \in Nat \ {0} : Later(s, t, d)
      BY <1>2, <1>3, <2>1, <2>3, <3>7
    <3>9. x + d \in DOMAIN s /\ t[x] = s[x + d]
      BY <1>1, <1>3, <3>8 DEF Later
    <3>10. t \in Seq(ClientMessages)
      BY <1>3, NextTyped DEF Typed, TypeOK
    <3>11. x \in Nat \ {0}
      BY <1>1, <1>3, <3>10, LenProperties
    <3>12. 1 < x + d
      BY <3>11
    <3>13. h < n
      BY <1>1, <1>2, <1>3, <2>1, <2>3, <3>1, <3>7, <3>9, <3>12 DEF UnreadRises
    <3>14. PICK v \in Seq(Message) : v = printed[q]
      BY DEF TypeOK
    <3>15. printed'[q] = Append(v, h)
      BY <2>1, <2>3, <3>14 DEF TypeOK
    <3>16. /\ DOMAIN Append(v, h) = 1 .. Len(v) + 1 /\ DOMAIN v = 1 .. Len(v)
           /\ Len(v) \in Nat /\ Append(v, h)[Len(v) + 1] = h
           /\ \A i \in 1 .. Len(v) : Append(v, h)[i] = v[i]
      BY AppendElements
    <3>17. y \in 1 .. Len(v) \/ y = Len(v) + 1
      BY <1>1, <3>15, <3>16
    <3>18. y \in 1 .. Len(v) => v[y] < n
      BY <1>1, <3>5, <3>14, <3>16 DEF PrintedBefore
    <3>19. QED
      BY <3>13, <3>15, <3>16, <3>17, <3>18
  <2>4. QED
    BY <2>2, <2>3
<1>7. QED
  BY <1>5, <1>6, ClientHistories

-----------------------------------------------------------------------------
OrderInv ==
  /\ Typed /\ RegistryIdsUnique /\ SubscribersResolve /\ TopicNamesUnique /\ Connections
  /\ SocketsOwn /\ UnknownApart /\ StoredOnlyOffline /\ ReplaysToActive
  /\ TodoDone /\ TodoWithin /\ TodoOnce
  /\ StoredRises /\ ReachedPublished /\ GotBefore /\ OwedNew
  /\ DataHanded /\ PrintsHanded /\ ByeDone /\ Runners /\ UnreadRises /\ UnreadNew

LEMMA OrderInvInit == ASSUME Init PROVE OrderInv
<1>1. Typed /\ Connections /\ SocketsOwn /\ UnknownApart
  BY InitTyped, ConnectionsInit, OwnInit
<1>2. SubscribersResolve /\ TopicNamesUnique
  BY TopicsInit
<1>3. DOMAIN tcp_clients = {} /\ DOMAIN todo = {} /\ pc = "loop"
      /\ \A p \in Procs : /\ DOMAIN toServer[p] = {} /\ DOMAIN toClient[p] = {}
                          /\ DOMAIN printed[p] = {} /\ DOMAIN handed[p] = {}
                          /\ handed[p] = <<>>
  BY EmptySeq DEF Init
<1>4. RegistryIdsUnique /\ StoredOnlyOffline /\ ReplaysToActive /\ TodoDone /\ TodoWithin
  BY <1>3 DEF Init, RegistryIdsUnique, StoredOnlyOffline, ReplaysToActive, Replaying,
     TodoDone, TodoWithin
<1>5. TodoOnce /\ StoredRises /\ GotBefore /\ OwedNew
  BY <1>3 DEF TodoOnce, Unrepeated, StoredRises, GotBefore, OwedNew
<1>6. \A c : \A n : ~Reached(c, n)
  BY <1>3 DEF Reached, Got, StoredFor, InSeq, EntriesWithId
<1>7. ReachedPublished
  BY <1>6 DEF ReachedPublished
<1>8. DataHanded /\ PrintsHanded /\ ByeDone /\ Runners /\ UnreadRises /\ UnreadNew
  BY <1>3 DEF DataHanded, PrintsHanded, ByeDone, Holds, Runners, UnreadRises, UnreadNew
<1>9. QED
  BY <1>1, <1>2, <1>4, <1>5, <1>7, <1>8 DEF OrderInv

LEMMA OrderInvStep ==
  ASSUME OrderInv, Orderly, SubscribedOnce, [Next]_vars PROVE OrderInv'
<1>1. Typed' /\ RegistryIdsUnique' /\ SubscribersResolve' /\ TopicNamesUnique'
      /\ Connections' /\ StoredOnlyOffline' /\ ReplaysToActive'
  BY NextTyped, IdsStep, TopicsInvStep, ConnectionsStep, StoredStep, ReplaysStep
  DEF OrderInv
<1>2. SocketsOwn' /\ UnknownApart'
  BY OwnStep DEF OrderInv
<1>3. ActiveSocketIsOwn
  BY DEF OrderInv, SocketsOwn, ActiveSocketIsOwn
<1>4. TodoDone' /\ TodoWithin' /\ TodoOnce'
  BY TodoDoneStep, TodoWithinStep, TodoOnceStep DEF OrderInv
<1>5. StoredRises' /\ ReachedPublished'
  BY <1>3, StoredRisesStep, ReachedPublishedStep DEF OrderInv
<1>6. GotBefore' /\ OwedNew'
  BY <1>3, GotBeforeStep, OwedNewStep DEF OrderInv
<1>7. DataHanded' /\ PrintsHanded'
  BY DataStep, PrintsStep DEF OrderInv
<1>8. ByeDone' /\ Runners'
  BY ByeDoneStep, RunnersStep DEF OrderInv, Orderly
<1>9. UnreadRises' /\ UnreadNew'
  BY <1>3, UnreadRisesStep, UnreadNewStep DEF OrderInv
<1>10. QED
  BY <1>1, <1>2, <1>4, <1>5, <1>6, <1>7, <1>8, <1>9 DEF OrderInv

LEMMA PrintsNewest ==
  ASSUME OrderInv, [Next]_vars, NEW p \in Procs, NEW q \in Procs, IdOf[p] = IdOf[q],
         Len(printed'[p]) > Len(printed[p]), NEW x \in DOMAIN printed[q]
  PROVE  printed[q][x] < printed'[p][Len(printed'[p])]
<1> TypeOK
  BY DEF OrderInv, Typed
<1>1. PICK s \in Seq(Message) : s = printed[p]
  BY DEF TypeOK
<1>2. ~(Len(s) > Len(s))
  <2>1. Len(s) \in Nat
    BY LenProperties
  <2>2. QED
    BY <2>1
<1>3. PICK r \in Procs, h \in Message : PrintMessage(r, h)
  BY <1>1, <1>2, ClientHistories
<1>4. /\ printed' = [printed EXCEPT ![r] = Append(@, h)] /\ cstate[r] = "running"
      /\ 1 \in DOMAIN toClient[r] /\ toClient[r][1] = Data(h)
  BY <1>3, PrintsUnread
<1>5. r = p
  BY <1>1, <1>2, <1>4 DEF TypeOK
<1>6. printed'[p] = Append(s, h)
  BY <1>1, <1>4, <1>5 DEF TypeOK
<1>7. Len(Append(s, h)) = Len(s) + 1 /\ Append(s, h)[Len(s) + 1] = h
  BY AppendElements, AppendProperties
<1>8. Data(h).kind = "data" /\ Data(h).n = h
  BY DEF Data
<1>9. PrintedBefore(p, h)
  BY <1>4, <1>5, <1>8 DEF OrderInv, UnreadNew
<1>10. printed[q][x] < h
  BY <1>9 DEF PrintedBefore
<1>11. QED
  BY <1>6, <1>7, <1>10

(* The processes of one client print each message once, and messages in the *)
(* order the server received them, across disconnections and replays, while *)
(* connections are orderly and no topic lists a client twice: what is        *)
(* stored, in hand and on its way is always newer than what was printed.    *)
THEOREM PrintsInOrder == Spec /\ []Orderly /\ []SubscribedOnce => InOrderOnce
<1>1. Init => OrderInv
  BY OrderInvInit
<1>2. OrderInv /\ Orderly /\ SubscribedOnce /\ [Next]_vars => OrderInv'
  BY OrderInvStep
<1>3. OrderInv /\ [Next]_vars =>
        [\A p, q \in Procs : IdOf[p] = IdOf[q] /\ Len(printed'[p]) > Len(printed[p])
           => \A x \in DOMAIN printed[q] :
                printed[q][x] < printed'[p][Len(printed'[p])]]_vars
  BY PrintsNewest
<1>4. QED
  BY <1>1, <1>2, <1>3, PTL DEF Spec, InOrderOnce

-----------------------------------------------------------------------------
(* No topic lists a client twice when each client's user types one command: *)
(* who subscribes has a command on its way, and those that are listed are   *)
(* spent.                                                                   *)
LEMMA UnrepeatedAppend ==
  ASSUME NEW T, NEW s \in Seq(T), NEW e \in T, Unrepeated(s),
         \A q \in DOMAIN s : s[q].subscriber # 0 => s[q].subscriber # e.subscriber
  PROVE  Unrepeated(Append(s, e))
<1>1. PICK t : t = Append(s, e)
  OBVIOUS
<1>2. PICK n : n = Len(s)
  OBVIOUS
<1>3. /\ DOMAIN t = 1 .. n + 1 /\ DOMAIN s = 1 .. n /\ n \in Nat /\ t[n + 1] = e
      /\ \A x \in 1 .. n : t[x] = s[x]
  BY <1>1, <1>2, AppendElements
<1>4. \A x : x \in 1 .. n + 1 <=> x \in 1 .. n \/ x = n + 1
  BY <1>3
<1>5. SUFFICES ASSUME NEW x \in DOMAIN t, NEW y \in DOMAIN t, t[x].subscriber # 0,
                      t[x].subscriber = t[y].subscriber
               PROVE  x = y
  BY <1>1 DEF Unrepeated
<1>6. CASE x \in 1 .. n /\ y \in 1 .. n
  BY <1>3, <1>5, <1>6 DEF Unrepeated
<1>7. CASE x = n + 1 \/ y = n + 1
  BY <1>3, <1>4, <1>5, <1>7
<1>8. QED
  BY <1>3, <1>4, <1>5, <1>6, <1>7

LEMMA UnrepeatedKeeps ==
  ASSUME NEW T, NEW s \in Seq(T), NEW S \in SUBSET DOMAIN s, Unrepeated(s)
  PROVE  Unrepeated(Subsequence(s, S))
<1>1. PICK t : t = Subsequence(s, S)
  OBVIOUS
<1>2. PICK C : C = Cardinality(S)
  OBVIOUS
<1>3. /\ DOMAIN t = 1 .. C
      /\ \A x \in 1 .. C : Nth(x, S) \in S /\ t[x] = s[Nth(x, S)]
  BY <1>1, <1>2, SubsequenceProperties
<1>4. S \in SUBSET Nat /\ IsFiniteSet(S) /\ C \in Nat
  BY <1>2, Positions
<1>5. SUFFICES ASSUME NEW x \in DOMAIN t, NEW y \in DOMAIN t, t[x].subscriber # 0,
                      t[x].subscriber = t[y].subscriber
               PROVE  x = y
  BY <1>1 DEF Unrepeated
<1>6. Nth(x, S) = Nth(y, S)
  BY <1>3, <1>5 DEF Unrepeated
<1>7. PICK n \in Nat : n = Nth(x, S)
  BY <1>3, <1>4, <1>5
<1>8. ~(n < n)
  BY <1>7
<1>9. ~(x < y) /\ ~(y < x)
  BY <1>2, <1>3, <1>4, <1>5, <1>6, <1>7, <1>8, NthIncreases
<1>10. QED
  BY <1>3, <1>4, <1>5, <1>9

LEMMA NewUnrepeated ==
  ASSUME TypeOK, SubscribedOnce, NEW t \in Topics, NEW s \in Seq(Subscription),
         NewTopic(t, s), Unrepeated(s)
  PROVE  SubscribedOnce'
<1>1. PICK e : e = [topic |-> t, subscribers |-> s]
  OBVIOUS
<1>2. e \in TopicEntry /\ e.subscribers = s
  BY <1>1 DEF TopicEntry
<1>3. PICK a \in Seq(TopicEntry) : a = all_topics
  BY DEF TypeOK
<1>4. PICK n : n = Len(a)
  OBVIOUS
<1>5. all_topics' = Append(a, e)
  BY <1>1, <1>3 DEF NewTopic
<1>6. /\ DOMAIN all_topics' = 1 .. n + 1 /\ DOMAIN a = 1 .. n /\ n \in Nat
      /\ all_topics'[n + 1] = e
      /\ \A x \in 1 .. n : all_topics'[x] = a[x]
  BY <1>2, <1>4, <1>5, AppendElements
<1>7. \A x : x \in 1 .. n + 1 <=> x \in 1 .. n \/ x = n + 1
  BY <1>6
<1>8. QED
  BY <1>2, <1>3, <1>6, <1>7 DEF SubscribedOnce

LEMMA SetUnrepeated ==
  ASSUME TypeOK, SubscribedOnce, NEW k \in DOMAIN all_topics,
         NEW s \in Seq(Subscription), SetSubscribers(k, s), Unrepeated(s)
  PROVE  SubscribedOnce'
<1>1. PICK a \in Seq(TopicEntry) : a = all_topics
  BY DEF TypeOK
<1>2. a \in [DOMAIN a -> TopicEntry]
  BY LenProperties
<1>3. /\ DOMAIN all_topics' = DOMAIN a /\ all_topics'[k].subscribers = s
      /\ \A j \in DOMAIN a : j # k => all_topics'[j] = a[j]
  BY <1>1, <1>2 DEF SetSubscribers, TopicEntry
<1>4. QED
  BY <1>1, <1>3 DEF SubscribedOnce

LEMMA UnlistedSubscribes ==
  ASSUME Typed, Connections, CommandsAnnounced, SocketsOwn, SocketsApart, SubscribersSpent,
         NEW i \in Fds, NEW p \in Procs, NEW m \in Commands, Subscribe(i, p, m),
         NEW k \in DOMAIN all_topics, NEW q \in DOMAIN all_topics[k].subscribers
  PROVE  all_topics[k].subscribers[q].subscriber # current_tcp_client'
         /\ current_tcp_client' \in 1 .. MaxClients
<1>1. PICK c : c = current_tcp_client'
  OBVIOUS
<1>2. c \in DOMAIN tcp_clients /\ tcp_clients[c].id = IdOf[p]
  BY <1>1, SubscribesItself
<1>3. c \in 1 .. MaxClients
  <2>1. DOMAIN tcp_clients = 1 .. Len(tcp_clients) /\ Len(tcp_clients) \in Nat
        /\ Len(tcp_clients) <= MaxClients /\ MaxClients \in Nat
    BY TableEntries, ConstantsOK DEF Typed, TypeOK
  <2>2. QED
    BY <1>2, <2>1
<1>4. toServer[p] # <<>> /\ Head(toServer[p]) \in Commands
  BY DEF Subscribe, Reads
<1>5. PICK s \in Seq(ServerMessages) : s = toServer[p]
  BY DEF Typed, TypeOK
<1>6. 1 \in DOMAIN s /\ Head(s) = s[1]
  BY <1>4, <1>5, EmptySeq, LenProperties
<1>7. ~Spent(IdOf[p])
  BY <1>4, <1>5, <1>6 DEF Spent, Has
<1>8. c \notin SpentClients
  BY <1>2, <1>3, <1>7 DEF SpentClients
<1>9. all_topics[k].subscribers[q].subscriber \in SpentClients
  BY DEF SubscribersSpent, Within
<1>10. QED
  BY <1>1, <1>3, <1>8, <1>9

LEMMA SubscribeUnrepeated ==
  ASSUME Typed, Connections, CommandsAnnounced, SocketsOwn, SocketsApart, SubscribersSpent,
         SubscribedOnce, NEW i \in Fds, NEW p \in Procs, NEW m \in Commands,
         Subscribe(i, p, m)
  PROVE  SubscribedOnce'
<1> TypeOK
  BY DEF Typed
<1>1. PICK c : c = current_tcp_client'
  OBVIOUS
<1>2. PICK own : own = [subscriber |-> c, SF |-> m.SF]
  OBVIOUS
<1>3. c \in DOMAIN tcp_clients /\ m.topic \in Topics
  BY <1>1, SubscribesItself, ConstantsOK
<1>4. own \in Subscription /\ own.subscriber = c
  <2>1. DOMAIN tcp_clients = 1 .. Len(tcp_clients) /\ Len(tcp_clients) \in Nat
        /\ Len(tcp_clients) <= MaxClients /\ MaxClients \in Nat
    BY TableEntries, ConstantsOK DEF TypeOK
  <2>2. c \in 0 .. MaxClients /\ m.SF \in {0, 1}
    BY <1>3, <2>1, ConstantsOK
  <2>3. QED
    BY <1>2, <2>2 DEF Subscription
<1>5. ASSUME NEW k \in DOMAIN all_topics,
             all_topics' = [all_topics EXCEPT ![k].subscribers = Append(@, own)]
      PROVE  SubscribedOnce'
  <2>1. PICK s \in Seq(Subscription) : s = all_topics[k].subscribers
    BY TableEntries
  <2>2. Unrepeated(s)
    BY <2>1 DEF SubscribedOnce
  <2>3. \A q \in DOMAIN s : s[q].subscriber # c
    BY <1>1, <2>1, UnlistedSubscribes
  <2>4. PICK w : w = Append(s, own)
    OBVIOUS
  <2>5. w \in Seq(Subscription) /\ Unrepeated(w)
    BY <1>4, <2>2, <2>3, <2>4, UnrepeatedAppend, AppendProperties
  <2>6. SetSubscribers(k, w)
    BY <1>5, <2>1, <2>4 DEF SetSubscribers
  <2>7. QED
    BY <2>5, <2>6, SetUnrepeated
<1>6. ASSUME Matching(m.topic) = {}, Len(all_topics) < MaxTopics,
             all_topics' = Append(all_topics,
               [topic |-> m.topic,
                subscribers |-> Append(Fill(StackFill[Len(all_topics) + 1]), own)])
      PROVE  SubscribedOnce'
  <2>1. PICK g : g = StackFill[Len(all_topics) + 1]
    OBVIOUS
  <2>2. PICK f : f = Fill(g)
    OBVIOUS
  <2>3. g \in Nat
    <3>1. Len(all_topics) + 1 \in 1 .. MaxTopics
      BY <1>6, TableEntries, ConstantsOK
    <3>2. QED
      BY <2>1, <3>1, ConstantsOK
  <2>4. f \in Seq(Subscription)
    BY <2>2, <2>3, FillTyped, ConstantsOK
  <2>5. \A q \in DOMAIN f : f[q].subscriber = 0
    BY <2>2 DEF Fill
  <2>6. Unrepeated(f)
    BY <2>5 DEF Unrepeated
  <2>7. PICK w : w = Append(f, own)
    OBVIOUS
  <2>8. w \in Seq(Subscription) /\ Unrepeated(w)
    BY <1>4, <2>4, <2>5, <2>6, <2>7, UnrepeatedAppend, AppendProperties
  <2>9. TopicsNamed(m.topic) = {}
    BY <1>3, <1>6, ConstantsOK DEF Matching, TopicsNamed
  <2>10. NewTopic(m.topic, w)
    BY <1>6, <2>1, <2>2, <2>7, <2>9 DEF NewTopic
  <2>11. QED
    BY <1>3, <2>8, <2>10, NewUnrepeated
<1>7. QED
  BY <1>1, <1>2, <1>5, <1>6 DEF Subscribe

LEMMA UnsubscribeUnrepeated ==
  ASSUME Typed, SubscribedOnce,
         NEW i \in Fds, NEW p \in Procs, NEW m \in Commands, Unsubscribe(i, p, m)
  PROVE  SubscribedOnce'
<1> TypeOK
  BY DEF Typed
<1>1. CASE UNCHANGED all_topics
  BY <1>1 DEF SubscribedOnce
<1>2. ASSUME NEW k \in DOMAIN all_topics, NEW id,
             all_topics' = [all_topics EXCEPT ![k].subscribers =
               Keep(all_topics[k].subscribers, DOMAIN all_topics[k].subscribers
                      \ RemovedFrom(all_topics[k].subscribers, id))]
      PROVE  SubscribedOnce'
  <2>1. PICK s \in Seq(Subscription) : s = all_topics[k].subscribers
    BY TableEntries
  <2>2. PICK S \in SUBSET DOMAIN s : S = DOMAIN s \ RemovedFrom(s, id)
    OBVIOUS
  <2>3. PICK w : w = Subsequence(s, S)
    OBVIOUS
  <2>4. w \in Seq(Subscription)
    BY <2>3, SubsequenceProperties
  <2>5. Unrepeated(w)
    BY <2>1, <2>3, UnrepeatedKeeps DEF SubscribedOnce
  <2>6. SetSubscribers(k, w)
    BY <1>2, <2>1, <2>2, <2>3 DEF SetSubscribers, Keep
  <2>7. QED
    BY <2>4, <2>5, <2>6, SetUnrepeated
<1>3. QED
  BY <1>1, <1>2 DEF Unsubscribe

LEMMA SubscribedOnceStep ==
  ASSUME Typed, Connections, CommandsAnnounced, SocketsOwn, SocketsApart, SubscribersSpent,
         SubscribedOnce, [Next]_vars
  PROVE  SubscribedOnce'
<1>1. CASE UNCHANGED all_topics
  BY <1>1 DEF SubscribedOnce
<1>2. ASSUME NEW t \in Topics, ReceiveDatagram(t) PROVE SubscribedOnce'
  <2>1. CASE NewTopic(t, <<>>)
    <3>1. <<>> \in Seq(Subscription)
      BY EmptySeq
    <3>2. QED
      BY <2>1, <3>1, UnrepeatedNone, NewUnrepeated DEF Typed
  <2>2. QED
    BY <1>1, <1>2, <2>1 DEF ReceiveDatagram, NewTopic
<1>3. QED
  BY <1>1, <1>2, SubscribeUnrepeated, UnsubscribeUnrepeated, TablesStep DEF ChangesTopics

(* So each client's processes print in order and once when its user types    *)
(* one command and connections are orderly,                                 *)
THEOREM OrderlyPrintsInOrder ==
  ASSUME ~EagerUsers, OneCommandEach PROVE Spec /\ []Orderly => InOrderOnce
<1>1. Init => SpentInv /\ SubscribedOnce
  BY SpentInvInit, EmptySeq DEF Init, SubscribedOnce
<1>2. SpentInv /\ SubscribedOnce /\ Orderly /\ [Next]_vars => (SpentInv /\ SubscribedOnce)'
  BY SpentInvStep, SubscribedOnceStep DEF SpentInv, Orderly
<1>3. Spec /\ []Orderly => []SubscribedOnce
  BY <1>1, <1>2, PTL DEF Spec
<1>4. Spec /\ []Orderly /\ []SubscribedOnce => InOrderOnce
  BY PrintsInOrder
<1>5. QED
  BY <1>3, <1>4, PTL

(* whether clients have IDs of their own and stay *)
THEOREM StayingPrintsInOrder ==
  ASSUME ~EagerUsers, OneCommandEach, NobodyLeaves, IdsDiffer PROVE Spec => InOrderOnce
<1>1. Spec => []Orderly
  BY StayingIsOrderly
<1>2. Spec /\ []Orderly => InOrderOnce
  BY OrderlyPrintsInOrder
<1>3. QED
  BY <1>1, <1>2, PTL

(* or one client comes and goes.                                            *)
THEOREM ReturningPrintsInOrder ==
  ASSUME ~EagerUsers, OneCommandEach, OneId, OneAfterAnother PROVE Spec => InOrderOnce
<1>1. Spec => []Orderly
  BY ReturningIsOrderly
<1>2. Spec /\ []Orderly => InOrderOnce
  BY OrderlyPrintsInOrder
<1>3. QED
  BY <1>1, <1>2, PTL

=============================================================================
