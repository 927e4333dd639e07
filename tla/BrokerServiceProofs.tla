------------------------ MODULE BrokerServiceProofs ------------------------
(* The server implements PubSub, as long as no subscription points at       *)
(* garbage and the socket of every connected client is its own.             *)
EXTENDS BrokerConnectionProofs, BrokerRefinement

-----------------------------------------------------------------------------
(* What the refinement mapping is a function of. *)
Mapped == <<tcp_clients, all_topics, pc, todo, flushing, published, handed>>

(* A step that leaves all of it alone is no step of the service. *)
LEMMA QuietService == ASSUME UNCHANGED Mapped PROVE UNCHANGED Service!vars
  BY DEF Mapped, Service!vars, Subscriptions, TopicsOf, ClientOf, Online, Mailbox,
     StoredMail, StoredOf, Stored, OwedMail, Owed, Left, EntriesWithId

-----------------------------------------------------------------------------
(* The steps that are more than a stutter of the service, perhaps. *)
Reads1(i, p) == Register(i, p) \/ Reconnect(i, p) \/ Disconnect(i, p)
Reads2(i, p, m) == Subscribe(i, p, m) \/ Unsubscribe(i, p, m)
Works ==
  \/ \E t \in Topics : ReceiveDatagram(t)
  \/ SendToActive \/ AwaitAck \/ StoreOrSkip \/ Replay \/ AwaitGotIt
  \/ \E i \in Fds, p \in Procs :
       Reads1(i, p) \/ \E m \in Commands : Reads2(i, p, m)

LEMMA WorkSteps == ASSUME [Next]_vars PROVE Works \/ UNCHANGED Mapped
<1>1. ASSUME NEW p \in Procs, ClientReads(p) PROVE UNCHANGED Mapped
  BY <1>1 DEF ClientReads, AnswerId, PrintMessage, CloseOnRequest, ConnectionLost,
     Mapped, server, registry, job
<1>2. ASSUME NEW p \in Procs, User(p) PROVE UNCHANGED Mapped
  BY <1>2 DEF User, Connect, Exit, TypeCommand, Mapped, server, registry, job
<1>3. Idle \/ UNCHANGED vars => UNCHANGED Mapped
  BY DEF Idle, vars, server, client, Mapped, registry, job
<1>4. Crash("died") \/ Crash("undefined") \/ StopServer => UNCHANGED Mapped
  BY DEF Crash, Halt, StopServer, Mapped, registry, job, client
<1>5. Select \/ Accept => UNCHANGED Mapped
  BY DEF Select, Accept, Mapped, registry, job, client
<1>6. ASSUME NEW i \in Fds, HandleInput(i) PROVE Works \/ UNCHANGED Mapped
  <2>1. ReadNothing(i) => UNCHANGED Mapped
    BY DEF ReadNothing, Mapped, registry, job, client
  <2>2. ASSUME NEW p \in Procs, IgnoreGotIt(i, p) \/ RefuseDuplicate(i, p)
        PROVE  UNCHANGED Mapped
    BY <1>4, <2>2 DEF IgnoreGotIt, RefuseDuplicate, Mapped, registry, job, client
  <2>3. ReadFails(i) => UNCHANGED Mapped
    BY <1>4 DEF ReadFails
  <2>4. ASSUME NEW p \in Procs, ClientTableOverrun(i, p) PROVE UNCHANGED Mapped
    BY <1>4, <2>4 DEF ClientTableOverrun
  <2>5. ASSUME NEW p \in Procs, NEW m \in Commands,
               SubscribeOverrun(i, p, m) \/ UnsubscribeUndefined(i, p, m)
        PROVE  UNCHANGED Mapped
    BY <1>4, <2>5 DEF SubscribeOverrun, UnsubscribeUndefined
  <2>6. ASSUME NEW p \in Procs, Reads1(i, p) PROVE Works
    BY <2>6 DEF Works
  <2>7. ASSUME NEW p \in Procs, NEW m \in Commands, Reads2(i, p, m) PROVE Works
    BY <2>7 DEF Works
  <2> HIDE DEF Works
  <2>8. QED
    BY <1>6, <2>1, <2>2, <2>3, <2>4, <2>5, <2>6, <2>7 DEF HandleInput, Reads1, Reads2
<1>7. CASE Server
  BY <1>4, <1>5, <1>6, <1>7 DEF Server, Works, AcceptFails, SendFails,
     FanOutUndefined, TopicTableOverrun
<1>8. QED
  BY <1>1, <1>2, <1>3, <1>7 DEF Next

-----------------------------------------------------------------------------
(* The subscriptions a datagram still has to go to are of registered        *)
(* clients; outside a fan-out there are none.                               *)
TodoResolves == \A x \in DOMAIN todo : todo[x].subscriber \in DOMAIN tcp_clients
TodoDone == pc \notin {"fanout", "ack"} => todo = <<>>

(* Stored messages are replayed to a client that is connected. *)
ReplaysToActive == Replaying => tcp_clients[flushing].is_active = 1

ServiceInv == /\ Typed /\ RegistryIdsUnique /\ TopicNamesUnique /\ SubscribersResolve
              /\ StoredOnlyOffline /\ TodoResolves /\ TodoDone /\ ReplaysToActive

(* The list of a fan-out: the subscribers of a topic, then their tails. *)
LEMMA TodoStep ==
  ASSUME Typed, SubscribersResolve, NoGarbage, TodoResolves, TodoDone, [Next]_vars
  PROVE  TodoResolves' /\ TodoDone'
<1>1. TypeOK /\ TypeOK'
  BY NextTyped DEF Typed
<1>2. DOMAIN tcp_clients \subseteq DOMAIN tcp_clients'
  BY Stays
<1>3. DOMAIN tcp_clients = 1 .. Len(tcp_clients) /\ Len(tcp_clients) \in Nat
  BY <1>1, LenProperties DEF TypeOK
<1>4. ASSUME UNCHANGED todo PROVE TodoResolves'
  BY <1>2, <1>4 DEF TodoResolves
<1>5. ASSUME NEW l, Resume(l), \A x \in DOMAIN l : l[x].subscriber \in DOMAIN tcp_clients
      PROVE  TodoResolves' /\ TodoDone'
  BY <1>2, <1>5 DEF TodoResolves, TodoDone, Resume
<1>6. todo # <<>> => \A x \in DOMAIN Tail(todo) :
                       Tail(todo)[x].subscriber \in DOMAIN tcp_clients
  <2> SUFFICES ASSUME todo # <<>>
               PROVE  \A x \in DOMAIN Tail(todo) :
                        Tail(todo)[x].subscriber \in DOMAIN tcp_clients
    OBVIOUS
  <2>1. /\ DOMAIN todo = 1 .. Len(todo) /\ Len(todo) \in Nat
        /\ Tail(todo) \in Seq(Subscription) /\ Len(Tail(todo)) = Len(todo) - 1
        /\ \A x \in 1 .. Len(Tail(todo)) : Tail(todo)[x] = todo[x + 1]
    BY <1>1, HeadTailProperties, LenProperties DEF TypeOK
  <2>2. DOMAIN Tail(todo) = 1 .. Len(Tail(todo))
    BY <2>1, LenProperties
  <2>3. QED
    BY <2>1, <2>2 DEF TodoResolves
<1>7. CASE UNCHANGED Mapped
  BY <1>4, <1>7 DEF Mapped, TodoDone
<1>8. ASSUME NEW t \in Topics, ReceiveDatagram(t) PROVE TodoResolves' /\ TodoDone'
  <2>1. ASSUME NEW k \in DOMAIN all_topics
        PROVE  \A x \in DOMAIN all_topics[k].subscribers :
                 all_topics[k].subscribers[x].subscriber \in DOMAIN tcp_clients
    BY <1>3 DEF SubscribersResolve, NoGarbage
  <2>2. \A x \in DOMAIN <<>> : <<>>[x].subscriber \in DOMAIN tcp_clients
    OBVIOUS
  <2>3. Resume(<<>>) \/ \E k \in DOMAIN all_topics : Resume(all_topics[k].subscribers)
    BY <1>8 DEF ReceiveDatagram, TopicsNamed
  <2>4. CASE Resume(<<>>)
    BY <1>5, <2>2, <2>4
  <2>5. CASE \E k \in DOMAIN all_topics : Resume(all_topics[k].subscribers)
    BY <1>5, <2>1, <2>5
  <2>6. QED
    BY <2>3, <2>4, <2>5
<1>9. CASE SendToActive
  <2>1. UNCHANGED todo /\ pc' = "ack"
    BY <1>9 DEF SendToActive, job
  <2>2. QED
    BY <1>4, <2>1 DEF TodoDone
<1>10. CASE AwaitAck \/ StoreOrSkip
  <2>1. todo # <<>>
    BY <1>10 DEF AwaitAck, StoreOrSkip, ToInactive, FanningOut, Typed, HandlerHasWork
  <2>2. Resume(Tail(todo))
    BY <1>10 DEF AwaitAck, StoreOrSkip
  <2>3. QED
    BY <1>5, <1>6, <2>1, <2>2
<1>11. CASE Replay \/ AwaitGotIt
  <2>1. UNCHANGED todo /\ pc \notin {"fanout", "ack"}
    BY <1>11 DEF Replay, AwaitGotIt, Crash, Halt, job
  <2>2. QED
    BY <1>4, <2>1 DEF TodoDone
<1>12. ASSUME NEW i \in Fds, NEW p \in Procs,
              Reads1(i, p) \/ \E m \in Commands : Reads2(i, p, m)
       PROVE  TodoResolves' /\ TodoDone'
  <2>1. UNCHANGED todo /\ pc = "loop"
    BY <1>12 DEF Reads1, Reads2, Register, Reconnect, Disconnect, Subscribe,
       Unsubscribe, job, Reads, Turn
  <2>2. QED
    BY <1>4, <2>1 DEF TodoDone
<1>13. QED
  BY <1>7, <1>8, <1>9, <1>10, <1>11, <1>12, WorkSteps DEF Works

(* Reconnect starts a replay for the entry it has just made active.         *)
LEMMA ReplaysStep ==
  ASSUME Typed, ReplaysToActive, [Next]_vars PROVE ReplaysToActive'
<1>1. TypeOK /\ DOMAIN tcp_clients = 1 .. Len(tcp_clients)
      /\ Len(tcp_clients) \in Nat
      /\ tcp_clients \in [1 .. Len(tcp_clients) -> ClientEntry]
  BY LenProperties DEF Typed, TypeOK
<1>2. CASE UNCHANGED Mapped
  BY <1>2 DEF Mapped, ReplaysToActive, Replaying
<1>3. ASSUME NEW t \in Topics, ReceiveDatagram(t) PROVE ~Replaying'
  BY <1>3 DEF ReceiveDatagram, Resume, Replaying
<1>4. SendToActive \/ AwaitAck \/ StoreOrSkip => ~Replaying'
  BY DEF SendToActive, AwaitAck, StoreOrSkip, Resume, Replaying
<1>5. CASE Replay
  BY <1>5 DEF Replay, Crash, Halt, registry, job, ReplaysToActive, Replaying
<1>6. CASE AwaitGotIt
  <2>1. flushing' = flushing /\ Replaying
    BY <1>6 DEF AwaitGotIt, job, Replaying
  <2>2. flushing \in DOMAIN tcp_clients
    BY <2>1 DEF Typed, HandlerHasWork
  <2>3. \/ UNCHANGED tcp_clients
        \/ tcp_clients' = [tcp_clients EXCEPT ![flushing].unreceived = Unanswered(flushing)]
    BY <1>6 DEF AwaitGotIt
  <2>4. tcp_clients'[flushing].is_active = tcp_clients[flushing].is_active
    <3> DEFINE v == Unanswered(flushing)
    <3> HIDE DEF v
    <3>1. \/ UNCHANGED tcp_clients
          \/ tcp_clients' = [tcp_clients EXCEPT ![flushing].unreceived = v]
      BY <2>3 DEF v
    <3>2. QED
      BY <1>1, <2>2, <3>1 DEF ClientEntry
  <2>5. QED
    BY <2>1, <2>4 DEF ReplaysToActive
<1>7. ASSUME NEW i \in Fds, NEW p \in Procs, Reconnect(i, p)
      PROVE  ReplaysToActive'
  <2>1. PICK k \in DOMAIN tcp_clients :
          /\ tcp_clients' = [tcp_clients EXCEPT ![k].is_active = 1,
                                                ![k].current_socket = i]
          /\ flushing' = k
    BY <1>7 DEF Reconnect
  <2>2. tcp_clients'[k].is_active = 1
    BY <1>1, <2>1 DEF ClientEntry
  <2>3. QED
    BY <2>1, <2>2 DEF ReplaysToActive
<1>8. ASSUME NEW i \in Fds, NEW p \in Procs,
             Register(i, p) \/ Disconnect(i, p) \/ \E m \in Commands : Reads2(i, p, m)
      PROVE  ~Replaying'
  BY <1>8 DEF Reads2, Register, Disconnect, Subscribe, Unsubscribe, Reads, Turn, Replaying
<1>9. QED
  BY <1>2, <1>3, <1>4, <1>5, <1>6, <1>7, <1>8, WorkSteps DEF Works, Reads1, ReplaysToActive

(* So the whole invariant is kept. *)
LEMMA ServiceInvStep ==
  ASSUME ServiceInv, NoGarbage, [Next]_vars PROVE ServiceInv'
  BY NextTyped, IdsStep, TopicsInvStep, StoredStep, TodoStep, ReplaysStep
  DEF ServiceInv

LEMMA ServiceInvInit == Init => ServiceInv
<1> SUFFICES ASSUME Init PROVE ServiceInv
  OBVIOUS
<1>1. Typed /\ SubscribersResolve /\ TopicNamesUnique
  BY InitTyped, TopicsInit
<1>2. RegistryIdsUnique /\ StoredOnlyOffline /\ TodoResolves /\ TodoDone /\ ReplaysToActive
  BY DEF Init, RegistryIdsUnique, StoredOnlyOffline, TodoResolves, TodoDone,
     ReplaysToActive, Replaying
<1>3. QED
  BY <1>1, <1>2 DEF ServiceInv

-----------------------------------------------------------------------------
(* The refinement mapping, piece by piece. *)

(* The client of an ID has one entry. *)
LEMMA EntryOf ==
  ASSUME RegistryIdsUnique, NEW k \in DOMAIN tcp_clients
  PROVE  EntriesWithId(tcp_clients[k].id) = {k}
  BY DEF RegistryIdsUnique, EntriesWithId

(* A name has one topic. *)
LEMMA TopicOf ==
  ASSUME TopicNamesUnique, NEW k \in DOMAIN all_topics
  PROVE  TopicsOf(all_topics[k].topic) = {k}
  BY DEF TopicNamesUnique, TopicsOf

(* A topic's subscriptions, as the service sees them. *)
Shown(s) == [x \in DOMAIN s |-> [id |-> ClientOf(s[x]), SF |-> s[x].SF]]

ShownRight ==
  /\ \A k \in DOMAIN all_topics :
       Subscriptions[all_topics[k].topic] = Shown(all_topics[k].subscribers)
  /\ \A t \in Topics : TopicsOf(t) = {} => Subscriptions[t] = <<>>

LEMMA SubscriptionsOf == ASSUME TypeOK, TopicNamesUnique PROVE ShownRight
<1>1. ASSUME NEW k \in DOMAIN all_topics
      PROVE  Subscriptions[all_topics[k].topic] = Shown(all_topics[k].subscribers)
  <2>1. all_topics[k].topic \in Topics
    BY TableEntries
  <2>2. (CHOOSE j \in TopicsOf(all_topics[k].topic) : TRUE) = k
    BY TopicOf
  <2>3. QED
    BY <2>1, <2>2, TopicOf DEF Subscriptions, Shown
<1>2. QED
  BY <1>1 DEF Subscriptions, ShownRight

(* The same after a step. *)
LEMMA SubscriptionsOfNext == TypeOK' /\ TopicNamesUnique' => ShownRight'
<1>1. TypeOK /\ TopicNamesUnique => ShownRight
  BY SubscriptionsOf
<1>2. QED
  BY <1>1, PTL

(* What later steps may rely on: entries keep their place and ID. *)
Steady == \A k \in DOMAIN tcp_clients :
            k \in DOMAIN tcp_clients' /\ tcp_clients'[k].id = tcp_clients[k].id

(* Clients that come and go do not touch the subscriptions. *)
LEMMA SameSubscriptions ==
  ASSUME TypeOK, SubscribersResolve, NoGarbage, Steady, UNCHANGED all_topics
  PROVE  Subscriptions' = Subscriptions
<1> SUFFICES ASSUME NEW t \in Topics PROVE Subscriptions'[t] = Subscriptions[t]
  BY DEF Subscriptions
<1>1. TopicsOf(t)' = TopicsOf(t)
  BY DEF TopicsOf
<1>2. ASSUME NEW k \in DOMAIN all_topics, NEW x \in DOMAIN all_topics[k].subscribers
      PROVE  ClientOf(all_topics[k].subscribers[x])' = ClientOf(all_topics[k].subscribers[x])
  <2>1. all_topics[k].subscribers[x].subscriber \in DOMAIN tcp_clients
    BY TableEntries DEF SubscribersResolve, NoGarbage
  <2>2. QED
    BY <2>1 DEF ClientOf, Steady
<1>3. CASE TopicsOf(t) = {}
  BY <1>1, <1>3 DEF Subscriptions
<1>4. CASE TopicsOf(t) # {}
  <2>1. PICK k : k = CHOOSE j \in TopicsOf(t) : TRUE
    OBVIOUS
  <2>2. k \in DOMAIN all_topics
    <3>1. k \in TopicsOf(t)
      BY <1>4, <2>1
    <3>2. QED
      BY <3>1 DEF TopicsOf
  <2>3. PICK s : s = all_topics[k].subscribers
    OBVIOUS
  <2>4. Subscriptions[t] = [x \in DOMAIN s |-> [id |-> ClientOf(s[x]), SF |-> s[x].SF]]
    BY <1>4, <2>1, <2>3 DEF Subscriptions
  <2>5. Subscriptions'[t] = [x \in DOMAIN s |-> [id |-> ClientOf(s[x])', SF |-> s[x].SF]]
    BY <1>1, <1>4, <2>1, <2>3 DEF Subscriptions
  <2>6. \A x \in DOMAIN s : ClientOf(s[x])' = ClientOf(s[x])
    BY <1>2, <2>2, <2>3
  <2>7. QED
    BY <2>4, <2>5, <2>6
<1>5. QED
  BY <1>3, <1>4

(* What is left of a fan-out. *)
LEMMA LeftTyped ==
  ASSUME Typed, TodoResolves
  PROVE  /\ Left \in Seq(Subscription)
         /\ \A x \in DOMAIN Left : Left[x].subscriber \in DOMAIN tcp_clients
<1>1. CASE pc # "ack"
  BY <1>1 DEF Left, Typed, TypeOK, TodoResolves
<1>2. CASE pc = "ack"
  <2>1. todo # <<>> /\ todo \in Seq(Subscription)
    BY <1>2 DEF Typed, TypeOK, HandlerHasWork
  <2>2. /\ DOMAIN todo = 1 .. Len(todo) /\ Len(todo) \in Nat
        /\ Tail(todo) \in Seq(Subscription) /\ Len(Tail(todo)) = Len(todo) - 1
        /\ \A x \in 1 .. Len(Tail(todo)) : Tail(todo)[x] = todo[x + 1]
    BY <2>1, HeadTailProperties, LenProperties
  <2>3. DOMAIN Tail(todo) = 1 .. Len(Tail(todo))
    BY <2>2, LenProperties
  <2>4. QED
    BY <1>2, <2>2, <2>3 DEF Left, TodoResolves
<1>3. QED
  BY <1>1, <1>2

(* The parts of a list that are for one client. *)
For(c, l) == {x \in DOMAIN l : ClientOf(l[x]) = c}

LEMMA OwedTyped ==
  ASSUME Typed, TodoResolves, NEW c
  PROVE  Owed(c) = Subsequence(Left, For(c, Left)) /\ Owed(c) \in Seq(Subscription)
<1>1. For(c, Left) \in SUBSET DOMAIN Left
  BY DEF For
<1>2. Owed(c) = Subsequence(Left, For(c, Left))
  BY DEF Owed, For
<1>3. QED
  BY <1>1, <1>2, LeftTyped, SubsequenceProperties

LEMMA SameOwed ==
  ASSUME Typed, TodoResolves, Steady, UNCHANGED Left, NEW c
  PROVE  Owed(c)' = Owed(c)
<1>1. \A x \in DOMAIN Left : ClientOf(Left[x])' = ClientOf(Left[x])
  BY LeftTyped DEF ClientOf, Steady
<1>2. For(c, Left)' = For(c, Left)
  BY <1>1 DEF For
<1>3. Owed(c)' = Subsequence(Left, For(c, Left)')
  BY DEF Owed, For
<1>4. QED
  BY <1>2, <1>3, OwedTyped

LEMMA SameOwedMail ==
  ASSUME Typed, TodoResolves, Steady, UNCHANGED <<Left, published>>, NEW c
  PROVE  OwedMail(c)' = OwedMail(c)
  BY SameOwed DEF OwedMail

LEMMA SameStoredMail ==
  ASSUME NEW c, EntriesWithId(c)' = EntriesWithId(c),
         \A k \in EntriesWithId(c) : Stored(k)' = Stored(k)
  PROVE  StoredMail(c)' = StoredMail(c)
  BY DEF StoredMail, StoredOf

(* One entry of a mailbox. *)
Mail == [n : Nat, SF : {0, 1}]

LEMMA MailTyped ==
  ASSUME ServiceInv, NEW c
  PROVE  StoredMail(c) \in Seq(Mail) /\ OwedMail(c) \in Seq(Mail)
<1>1. Owed(c) \in Seq(Subscription) /\ Len(published) \in Nat
  BY OwedTyped, LenProperties DEF ServiceInv, Typed, TypeOK
<1>2. OwedMail(c) \in Seq(Mail)
  <2> DEFINE s == Owed(c)
  <2>1. /\ Len(s) \in Nat /\ DOMAIN s = 1 .. Len(s)
        /\ \A x \in 1 .. Len(s) : s[x] \in Subscription
    BY <1>1, LenProperties, ElementOfSeq
  <2>2. OwedMail(c) = [x \in 1 .. Len(s) |-> [n |-> Len(published), SF |-> s[x].SF]]
    BY <2>1 DEF OwedMail
  <2> HIDE DEF s
  <2>3. \A x \in 1 .. Len(s) : [n |-> Len(published), SF |-> s[x].SF] \in Mail
    BY <1>1, <2>1 DEF Subscription, Mail
  <2>4. OwedMail(c) \in [1 .. Len(s) -> Mail]
    BY <2>2, <2>3
  <2>5. QED
    BY <2>1, <2>4, SeqDef
<1>3. StoredOf(c) \in Seq(Message)
  <2>1. ASSUME NEW k \in DOMAIN tcp_clients PROVE Stored(k) \in Seq(Message)
    <3>1. tcp_clients[k].unreceived \in Seq(Message)
      BY TableEntries DEF ServiceInv, Typed
    <3>2. pc = "gotit" /\ flushing = k => tcp_clients[k].unreceived # <<>>
      BY DEF ServiceInv, Typed, HandlerHasWork, Replaying
    <3>3. QED
      BY <3>1, <3>2, HeadTailProperties DEF Stored
  <2>2. EntriesWithId(c) # {} => (CHOOSE k \in EntriesWithId(c) : TRUE) \in DOMAIN tcp_clients
    BY DEF EntriesWithId
  <2>3. <<>> \in Seq(Message)
    BY EmptySeq
  <2>4. QED
    BY <2>1, <2>2, <2>3 DEF StoredOf
<1>4. StoredMail(c) \in Seq(Mail)
  <2> DEFINE s == StoredOf(c)
  <2>1. /\ Len(s) \in Nat /\ DOMAIN s = 1 .. Len(s)
        /\ \A x \in 1 .. Len(s) : s[x] \in Message
    BY <1>3, LenProperties, ElementOfSeq
  <2>2. StoredMail(c) = [x \in 1 .. Len(s) |-> [n |-> s[x], SF |-> 1]]
    BY <2>1 DEF StoredMail
  <2> HIDE DEF s
  <2>3. \A x \in 1 .. Len(s) : [n |-> s[x], SF |-> 1] \in Mail
    BY <2>1, ConstantsOK DEF Message, Mail
  <2>4. StoredMail(c) \in [1 .. Len(s) -> Mail]
    BY <2>2, <2>3
  <2>5. QED
    BY <2>1, <2>4, SeqDef
<1>5. QED
  BY <1>2, <1>4

(* A client that is connected and not being replayed to has nothing stored. *)
LEMMA NothingStored ==
  ASSUME ServiceInv, NEW k \in DOMAIN tcp_clients,
         tcp_clients[k].is_active = 1, ~Replaying
  PROVE  StoredMail(tcp_clients[k].id) = <<>>
<1>1. EntriesWithId(tcp_clients[k].id) = {k}
  BY EntryOf DEF ServiceInv
<1>2. tcp_clients[k].unreceived = <<>>
  BY DEF ServiceInv, StoredOnlyOffline
<1>3. Stored(k) = <<>>
  BY <1>2 DEF Stored, Replaying
<1>4. StoredOf(tcp_clients[k].id) = <<>>
  BY <1>1, <1>3 DEF StoredOf
<1>5. QED
  BY <1>4 DEF StoredMail

-----------------------------------------------------------------------------
(* Clients that come and go. *)

LEMMA SteadyStep == ASSUME Typed, [Next]_vars PROVE Steady
  BY Stays DEF Steady

(* One mailbox holds what is stored and what is owed. *)
LEMMA SameMailbox ==
  ASSUME \A c \in Ids : StoredMail(c)' = StoredMail(c) /\ OwedMail(c)' = OwedMail(c)
  PROVE  Mailbox' = Mailbox
  BY DEF Mailbox

(* Who is connected, as a condition. *)
LEMMA WhoIsOnline ==
  \A c : c \in Online <=> \E k \in DOMAIN tcp_clients :
                            tcp_clients[k].id = c /\ tcp_clients[k].is_active = 1
  BY DEF Online

(* An entry changes without losing its ID or what is stored for it. *)
LEMMA SameStored ==
  ASSUME Typed, NEW k \in DOMAIN tcp_clients, NEW e \in ClientEntry,
         e.id = tcp_clients[k].id, e.unreceived = tcp_clients[k].unreceived,
         tcp_clients' = [tcp_clients EXCEPT ![k] = e],
         pc # "gotit", pc' # "gotit", NEW c
  PROVE  StoredMail(c)' = StoredMail(c)
<1>1. /\ DOMAIN tcp_clients' = DOMAIN tcp_clients
      /\ \A j \in DOMAIN tcp_clients : /\ tcp_clients'[j].id = tcp_clients[j].id
                                       /\ tcp_clients'[j].unreceived = tcp_clients[j].unreceived
  BY EntryTyped DEF Typed, TypeOK
<1>2. EntriesWithId(c)' = EntriesWithId(c)
  BY <1>1 DEF EntriesWithId
<1>3. \A j \in EntriesWithId(c) : Stored(j)' = Stored(j)
  BY <1>1 DEF Stored, EntriesWithId
<1>4. QED
  BY <1>2, <1>3, SameStoredMail

(* A client of an unknown ID comes. *)
LEMMA RegisterComes ==
  ASSUME ServiceInv, NoGarbage, [Next]_vars,
         NEW i \in Fds, NEW p \in Procs, Register(i, p)
  PROVE  Service!Come(IdOf[p])
<1> DEFINE e == NewEntry(i, p)
<1>12. PICK n : n = Len(tcp_clients) + 1
  OBVIOUS
<1>1. /\ UNCHANGED <<pc, all_topics, todo, flushing, published, handed>>
      /\ pc = "loop" /\ EntriesWithId(IdOf[p]) = {}
      /\ tcp_clients' = Append(tcp_clients, e)
  BY DEF Register, Reads, Turn, job, client
<1>2. e \in ClientEntry /\ e.unreceived = <<>> /\ e.id = IdOf[p] /\ e.is_active = 1
  BY EmptySeq DEF NewEntry, ClientEntry, Ids
<1> HIDE DEF e
<1>3. Steady /\ TypeOK
  BY SteadyStep DEF ServiceInv, Typed
<1>4. /\ DOMAIN tcp_clients = 1 .. Len(tcp_clients) /\ Len(tcp_clients) \in Nat
      /\ DOMAIN tcp_clients' = 1 .. n
      /\ \A k \in 1 .. Len(tcp_clients) : tcp_clients'[k] = tcp_clients[k]
      /\ tcp_clients'[n] = e
  <2>1. tcp_clients \in Seq(ClientEntry)
    BY <1>3 DEF TypeOK
  <2>2. QED
    BY <1>1, <1>2, <1>12, <2>1, AppendProperties, LenProperties
<1>5. Subscriptions' = Subscriptions
  BY <1>1, <1>3, SameSubscriptions DEF ServiceInv
<1>6. \A c : c \in Online' <=> c \in Online \/ c = IdOf[p]
  <2>1. \A c : c \in Online' <=> \E k \in DOMAIN tcp_clients' :
                            tcp_clients'[k].id = c /\ tcp_clients'[k].is_active = 1
    BY DEF Online
  <2>2. \A k : k \in DOMAIN tcp_clients' <=> k \in DOMAIN tcp_clients \/ k = n
    BY <1>4, <1>12
  <2>3. \A k \in DOMAIN tcp_clients : tcp_clients'[k] = tcp_clients[k]
    BY <1>4
  <2>4. tcp_clients'[n].id = IdOf[p] /\ tcp_clients'[n].is_active = 1
    BY <1>2, <1>4
  <2>5. QED
    BY <2>1, <2>2, <2>3, <2>4, WhoIsOnline
<1>7. Online' = Online \union {IdOf[p]}
  BY <1>6
<1>8. ASSUME NEW c \in Ids PROVE StoredMail(c)' = StoredMail(c)
  <2>1. CASE c # IdOf[p]
    <3>1. EntriesWithId(c)' = EntriesWithId(c)
      BY <1>2, <1>4, <1>12, <2>1 DEF EntriesWithId
    <3>2. \A k \in EntriesWithId(c) : Stored(k)' = Stored(k)
      BY <1>1, <1>4 DEF Stored, EntriesWithId
    <3>3. QED
      BY <3>1, <3>2, SameStoredMail
  <2>2. CASE c = IdOf[p]
    <3>1. EntriesWithId(c)' = {n}
      <4>1. \A k \in DOMAIN tcp_clients : tcp_clients[k].id # c
        BY <1>1, <2>2 DEF EntriesWithId
      <4>2. QED
        BY <1>2, <1>4, <1>12, <2>2, <4>1 DEF EntriesWithId
    <3>2. Stored(n)' = <<>>
      BY <1>1, <1>2, <1>4 DEF Stored
    <3>3. StoredOf(c)' = <<>>
      BY <3>1, <3>2 DEF StoredOf
    <3>4. StoredOf(c) = <<>>
      BY <1>1, <2>2 DEF StoredOf
    <3>5. QED
      BY <3>3, <3>4 DEF StoredMail
  <2>3. QED
    BY <2>1, <2>2
<1>9. \A c \in Ids : OwedMail(c)' = OwedMail(c)
  BY <1>1, <1>3, SameOwedMail DEF ServiceInv, Left
<1>10. Mailbox' = Mailbox
  BY <1>8, <1>9, SameMailbox
<1>11. QED
  BY <1>1, <1>5, <1>7, <1>10 DEF Service!Come

(* A client that was away is back. *)
LEMMA ReconnectComes ==
  ASSUME ServiceInv, NoGarbage, [Next]_vars,
         NEW i \in Fds, NEW p \in Procs, Reconnect(i, p)
  PROVE  Service!Come(IdOf[p])
<1>1. PICK k \in DOMAIN tcp_clients :
        /\ IsFirst(k, EntriesWithId(IdOf[p]))
        /\ tcp_clients' = [tcp_clients EXCEPT ![k].is_active = 1,
                                              ![k].current_socket = i]
        /\ pc' = IF tcp_clients[k].unreceived = <<>> THEN "loop" ELSE "flush"
  BY DEF Reconnect
<1>2. /\ UNCHANGED <<all_topics, todo, published, handed>> /\ pc = "loop"
      /\ pc' \in {"loop", "flush"}
  BY <1>1 DEF Reconnect, Reads, Turn, client
<1> DEFINE e == [tcp_clients[k] EXCEPT !.is_active = 1, !.current_socket = i]
<1>3. Steady /\ TypeOK /\ tcp_clients[k] \in ClientEntry
      /\ tcp_clients \in [DOMAIN tcp_clients -> ClientEntry]
  <2>1. Steady /\ TypeOK
    BY SteadyStep DEF ServiceInv, Typed
  <2>2. tcp_clients \in Seq(ClientEntry)
    BY <2>1 DEF TypeOK
  <2>3. tcp_clients \in [DOMAIN tcp_clients -> ClientEntry]
    BY <2>2, LenProperties
  <2>4. QED
    BY <2>1, <2>3
<1>4. /\ e \in ClientEntry /\ e.id = tcp_clients[k].id /\ e.is_active = 1
      /\ e.unreceived = tcp_clients[k].unreceived
  BY <1>3 DEF ClientEntry
<1>5. tcp_clients' = [tcp_clients EXCEPT ![k] = e]
  BY <1>1, <1>3
<1> HIDE DEF e
<1>6. tcp_clients[k].id = IdOf[p]
  BY <1>1 DEF IsFirst, EntriesWithId
<1>7. Subscriptions' = Subscriptions
  BY <1>2, <1>3, SameSubscriptions DEF ServiceInv
<1>8. Online' = Online \union {IdOf[p]}
  <2>1. /\ DOMAIN tcp_clients' = DOMAIN tcp_clients
        /\ \A j \in DOMAIN tcp_clients : j # k => tcp_clients'[j] = tcp_clients[j]
        /\ tcp_clients'[k] = e
    BY <1>3, <1>5
  <2>2. \A c : c \in Online' <=> \E j \in DOMAIN tcp_clients' :
                            tcp_clients'[j].id = c /\ tcp_clients'[j].is_active = 1
    BY DEF Online
  <2>3. \A c : c \in Online' <=> c \in Online \/ c = IdOf[p]
    BY <1>4, <1>6, <2>1, <2>2, WhoIsOnline
  <2>4. QED
    BY <2>3
<1>9. \A c \in Ids : StoredMail(c)' = StoredMail(c)
  BY <1>2, <1>4, <1>5, SameStored DEF ServiceInv
<1>10. \A c \in Ids : OwedMail(c)' = OwedMail(c)
  BY <1>2, <1>3, SameOwedMail DEF ServiceInv, Left
<1>11. Mailbox' = Mailbox
  BY <1>9, <1>10, SameMailbox
<1>12. QED
  BY <1>2, <1>7, <1>8, <1>11 DEF Service!Come

(* A connected client goes; or a client that is not, or nobody. *)
LEMMA DisconnectGoes ==
  ASSUME ServiceInv, NoGarbage, [Next]_vars,
         NEW i \in Fds, NEW p \in Procs, Disconnect(i, p)
  PROVE  (\E c \in Ids : Service!Go(c)) \/ UNCHANGED Service!vars
<1>1. /\ UNCHANGED <<pc, all_topics, todo, flushing, published, handed>> /\ pc = "loop"
  BY DEF Disconnect, Reads, Turn, job, client
<1>2. CASE UNCHANGED tcp_clients
  BY <1>1, <1>2, QuietService DEF Mapped
<1>3. CASE \E k \in DOMAIN tcp_clients : tcp_clients' = Deactivated(k)
  <2>1. PICK k \in DOMAIN tcp_clients : tcp_clients' = Deactivated(k)
    BY <1>3
  <2> DEFINE e == [tcp_clients[k] EXCEPT !.is_active = 0]
  <2>2. Steady /\ TypeOK /\ tcp_clients[k] \in ClientEntry
        /\ tcp_clients \in [DOMAIN tcp_clients -> ClientEntry]
    <3>1. Steady /\ TypeOK
      BY SteadyStep DEF ServiceInv, Typed
    <3>2. tcp_clients \in Seq(ClientEntry)
      BY <3>1 DEF TypeOK
    <3>3. tcp_clients \in [DOMAIN tcp_clients -> ClientEntry]
      BY <3>2, LenProperties
    <3>4. QED
      BY <3>1, <3>3
  <2>3. /\ e \in ClientEntry /\ e.id = tcp_clients[k].id /\ e.is_active = 0
        /\ e.unreceived = tcp_clients[k].unreceived
    BY <2>2 DEF ClientEntry
  <2>4. tcp_clients' = [tcp_clients EXCEPT ![k] = e]
    BY <2>1, <2>2 DEF Deactivated
  <2> HIDE DEF e
  <2>5. PICK d : d = tcp_clients[k].id
    OBVIOUS
  <2>6. Subscriptions' = Subscriptions
    BY <1>1, <2>2, SameSubscriptions DEF ServiceInv
  <2>7. Online' = Online \ {d}
    <3>1. /\ DOMAIN tcp_clients' = DOMAIN tcp_clients
          /\ \A j \in DOMAIN tcp_clients : j # k => tcp_clients'[j] = tcp_clients[j]
          /\ tcp_clients'[k] = e
      BY <2>2, <2>4
    <3>2. \A c : c \in Online' <=> \E j \in DOMAIN tcp_clients' :
                            tcp_clients'[j].id = c /\ tcp_clients'[j].is_active = 1
      BY DEF Online
    <3>3. \A j \in DOMAIN tcp_clients : tcp_clients[j].id = d => j = k
      BY <2>5 DEF ServiceInv, RegistryIdsUnique
    <3>4. \A c : c \in Online' <=> c \in Online /\ c # d
      BY <2>3, <2>5, <3>1, <3>2, <3>3, WhoIsOnline
    <3>5. QED
      BY <3>4
  <2>8. \A c \in Ids : StoredMail(c)' = StoredMail(c)
    BY <1>1, <2>3, <2>4, SameStored DEF ServiceInv
  <2>9. \A c \in Ids : OwedMail(c)' = OwedMail(c)
    BY <1>1, <2>2, SameOwedMail DEF ServiceInv, Left
  <2>10. Mailbox' = Mailbox
    BY <2>8, <2>9, SameMailbox
  <2>11. d \in Ids
    BY <2>2, <2>5 DEF ClientEntry
  <2>12. Service!Go(d)
    BY <1>1, <2>6, <2>7, <2>10 DEF Service!Go
  <2>13. QED
    BY <2>11, <2>12
<1>4. QED
  BY <1>2, <1>3 DEF Disconnect

-----------------------------------------------------------------------------
(* Subscribing and unsubscribing. *)

(* The topic whose subscribers change is the only one that does. *)
LEMMA OneTopicChanges ==
  ASSUME ServiceInv, ServiceInv', Steady, NoGarbage, UNCHANGED tcp_clients,
         NEW k \in DOMAIN all_topics, NEW s \in Seq(Subscription), SetSubscribers(k, s)
  PROVE  Subscriptions' = [Subscriptions EXCEPT ![all_topics[k].topic] = Shown(s)]
<1>1. all_topics \in [1 .. Len(all_topics) -> TopicEntry] /\ TypeOK /\ TypeOK'
      /\ DOMAIN all_topics = 1 .. Len(all_topics)
  BY LenProperties DEF ServiceInv, Typed, TypeOK
<1>2. /\ DOMAIN all_topics' = DOMAIN all_topics
      /\ \A j \in DOMAIN all_topics : all_topics'[j].topic = all_topics[j].topic
      /\ \A j \in DOMAIN all_topics : j # k => all_topics'[j] = all_topics[j]
      /\ all_topics'[k].subscribers = s
  BY <1>1 DEF SetSubscribers, TopicEntry
<1>3. PICK t : t = all_topics[k].topic
  OBVIOUS
<1>4. t \in Topics /\ DOMAIN Subscriptions = Topics
  BY <1>1, <1>3, TableEntries DEF Subscriptions
<1>5. \A l : Shown(l)' = Shown(l')
  BY DEF Shown, ClientOf
<1>6. /\ \A j \in DOMAIN all_topics' :
            Subscriptions'[all_topics'[j].topic] = Shown(all_topics'[j].subscribers)
      /\ \A u \in Topics : TopicsOf(u)' = {} => Subscriptions'[u] = <<>>
  <2>1. TopicNamesUnique'
    BY DEF ServiceInv
  <2>2. /\ \A j \in DOMAIN all_topics' :
            Subscriptions'[all_topics'[j].topic] = Shown(all_topics[j].subscribers)'
        /\ \A u \in Topics : TopicsOf(u)' = {} => Subscriptions'[u] = <<>>
    BY <1>1, <2>1, SubscriptionsOfNext DEF ShownRight
  <2>3. QED
    BY <2>2 DEF Shown, ClientOf
<1>7. /\ \A j \in DOMAIN all_topics :
            Subscriptions[all_topics[j].topic] = Shown(all_topics[j].subscribers)
      /\ \A u \in Topics : TopicsOf(u) = {} => Subscriptions[u] = <<>>
  BY <1>1, SubscriptionsOf DEF ServiceInv, ShownRight
<1>8. \A u \in Topics : TopicsOf(u)' = TopicsOf(u)
  BY <1>2 DEF TopicsOf
<1>9. ASSUME NEW u \in Topics PROVE u # t => Subscriptions'[u] = Subscriptions[u]
  <2> SUFFICES ASSUME u # t PROVE Subscriptions'[u] = Subscriptions[u]
    OBVIOUS
  <2>1. CASE TopicsOf(u) = {}
    BY <1>6, <1>7, <1>8, <2>1
  <2>2. CASE TopicsOf(u) # {}
    <3>1. PICK j \in DOMAIN all_topics : all_topics[j].topic = u
      BY <2>2 DEF TopicsOf
    <3>2. j # k /\ all_topics'[j] = all_topics[j] /\ j \in DOMAIN all_topics'
      BY <1>2, <1>3, <3>1
    <3>3. QED
      BY <1>6, <1>7, <3>1, <3>2
  <2>3. QED
    BY <2>1, <2>2
<1>10. Subscriptions'[t] = Shown(s)
  BY <1>2, <1>3, <1>6
<1>11. Subscriptions' \in [Topics -> {Subscriptions'[u] : u \in Topics}]
       /\ Subscriptions \in [Topics -> {Subscriptions[u] : u \in Topics}]
  BY DEF Subscriptions
<1>12. Subscriptions' = [Subscriptions EXCEPT ![t] = Shown(s)]
  BY <1>4, <1>9, <1>10, <1>11
<1>13. QED
  BY <1>3, <1>12

(* A topic is added: nothing else changes. *)
LEMMA TopicAdded ==
  ASSUME ServiceInv, ServiceInv', UNCHANGED tcp_clients,
         NEW t \in Topics, NEW s \in Seq(Subscription), NewTopic(t, s)
  PROVE  /\ Subscriptions' = [Subscriptions EXCEPT ![t] = Shown(s)]
         /\ Subscriptions[t] = <<>>
<1> DEFINE e == [topic |-> t, subscribers |-> s]
<1>1. e \in TopicEntry /\ e.topic = t /\ e.subscribers = s
  BY DEF TopicEntry
<1>2. all_topics' = Append(all_topics, e) /\ TopicsOf(t) = {} /\ all_topics \in Seq(TopicEntry)
  BY DEF NewTopic, TopicsNamed, TopicsOf, ServiceInv, Typed, TypeOK
<1> HIDE DEF e
<1>3. PICK n : n = Len(all_topics) + 1
  OBVIOUS
<1>4. /\ DOMAIN all_topics = 1 .. Len(all_topics) /\ Len(all_topics) \in Nat
      /\ DOMAIN all_topics' = 1 .. n
      /\ \A k \in 1 .. Len(all_topics) : all_topics'[k] = all_topics[k]
      /\ all_topics'[n] = e
  BY <1>1, <1>2, <1>3, AppendProperties, LenProperties
<1>5. ShownRight /\ ShownRight'
  BY SubscriptionsOf, SubscriptionsOfNext DEF ServiceInv, Typed
<1>6. \A j \in DOMAIN all_topics' :
        Subscriptions'[all_topics'[j].topic] = Shown(all_topics'[j].subscribers)
  BY <1>5 DEF ShownRight, Shown, ClientOf
<1>7. ASSUME NEW u \in Topics PROVE u # t => Subscriptions'[u] = Subscriptions[u]
  <2> SUFFICES ASSUME u # t PROVE Subscriptions'[u] = Subscriptions[u]
    OBVIOUS
  <2>1. CASE TopicsOf(u) = {}
    <3>1. TopicsOf(u)' = {}
      BY <1>1, <1>3, <1>4, <2>1 DEF TopicsOf
    <3>2. QED
      BY <1>5, <2>1, <3>1 DEF ShownRight
  <2>2. CASE TopicsOf(u) # {}
    <3>1. PICK j \in DOMAIN all_topics : all_topics[j].topic = u
      BY <2>2 DEF TopicsOf
    <3>2. all_topics'[j] = all_topics[j] /\ j \in DOMAIN all_topics'
      BY <1>3, <1>4, <3>1
    <3>3. QED
      BY <1>5, <1>6, <3>1, <3>2 DEF ShownRight
  <2>3. QED
    BY <2>1, <2>2
<1>8. Subscriptions'[t] = Shown(s)
  BY <1>1, <1>3, <1>4, <1>6
<1>9. DOMAIN Subscriptions = Topics
      /\ Subscriptions' \in [Topics -> {Subscriptions'[u] : u \in Topics}]
      /\ Subscriptions \in [Topics -> {Subscriptions[u] : u \in Topics}]
  BY DEF Subscriptions
<1>10. Subscriptions' = [Subscriptions EXCEPT ![t] = Shown(s)]
  BY <1>7, <1>8, <1>9
<1>11. QED
  BY <1>2, <1>5, <1>10 DEF ShownRight

(* What is shown of a longer list. *)
LEMMA ShownAppend ==
  ASSUME NEW s \in Seq(Subscription), NEW x \in Subscription
  PROVE  Shown(Append(s, x)) = Append(Shown(s), [id |-> ClientOf(x), SF |-> x.SF])
<1> DEFINE T == {[id |-> ClientOf(y), SF |-> y.SF] : y \in Subscription}
           u == Append(s, x)
           z == [id |-> ClientOf(x), SF |-> x.SF]
<1>1. /\ u \in Seq(Subscription) /\ Len(u) = Len(s) + 1 /\ u[Len(s) + 1] = x
      /\ \A q \in 1 .. Len(s) : u[q] = s[q]
      /\ DOMAIN s = 1 .. Len(s) /\ Len(s) \in Nat
  BY AppendProperties, LenProperties
<1>2. DOMAIN u = 1 .. Len(s) + 1
  BY <1>1, LenProperties
<1>3. ASSUME NEW l \in Seq(Subscription)
      PROVE  Shown(l) \in Seq(T) /\ Len(Shown(l)) = Len(l)
             /\ \A q \in 1 .. Len(l) :
                  Shown(l)[q] = [id |-> ClientOf(l[q]), SF |-> l[q].SF]
  <2>1. /\ DOMAIN l = 1 .. Len(l) /\ Len(l) \in Nat
        /\ \A q \in 1 .. Len(l) : l[q] \in Subscription
    BY LenProperties, ElementOfSeq
  <2>2. Shown(l) = [q \in 1 .. Len(l) |-> [id |-> ClientOf(l[q]), SF |-> l[q].SF]]
    BY <2>1 DEF Shown
  <2>3. \A q \in 1 .. Len(l) : [id |-> ClientOf(l[q]), SF |-> l[q].SF] \in T
    BY <2>1
  <2> HIDE DEF T
  <2>4. Shown(l) \in [1 .. Len(l) -> T]
    BY <2>2, <2>3
  <2>5. Shown(l) \in Seq(T)
    BY <2>1, <2>4, SeqDef
  <2>6. Len(Shown(l)) = Len(l)
    BY <2>1, <2>2
  <2>7. QED
    BY <2>2, <2>5, <2>6
<1>4. z \in T
  OBVIOUS
<1> HIDE DEF T, u, z
<1>5. /\ Append(Shown(s), z) \in Seq(T) /\ Len(Append(Shown(s), z)) = Len(s) + 1
      /\ \A q \in 1 .. Len(s) : Append(Shown(s), z)[q] = Shown(s)[q]
      /\ Append(Shown(s), z)[Len(s) + 1] = z
  BY <1>3, <1>4, AppendProperties
<1>6. /\ Shown(u) \in Seq(T) /\ Len(Shown(u)) = Len(s) + 1
      /\ \A q \in 1 .. Len(s) : Shown(u)[q] = Shown(s)[q]
      /\ Shown(u)[Len(s) + 1] = z
  <2>1. /\ Shown(u) \in Seq(T) /\ Len(Shown(u)) = Len(u)
        /\ \A q \in 1 .. Len(u) : Shown(u)[q] = [id |-> ClientOf(u[q]), SF |-> u[q].SF]
    BY <1>1, <1>3
  <2>2. \A q \in 1 .. Len(s) : Shown(u)[q] = [id |-> ClientOf(s[q]), SF |-> s[q].SF]
    BY <1>1, <2>1
  <2>3. \A q \in 1 .. Len(s) : Shown(s)[q] = [id |-> ClientOf(s[q]), SF |-> s[q].SF]
    BY <1>3
  <2>4. Shown(u)[Len(s) + 1] = z
    BY <1>1, <2>1 DEF z
  <2>5. QED
    BY <1>1, <2>1, <2>2, <2>3, <2>4
<1>7. \A q \in 1 .. Len(Shown(u)) : Shown(u)[q] = Append(Shown(s), z)[q]
  BY <1>1, <1>5, <1>6
<1>8. Shown(u) = Append(Shown(s), z)
  BY <1>5, <1>6, <1>7, SeqEqual
<1>9. QED
  BY <1>8 DEF u, z

(* While the clients and the work in hand stay, so do the mailboxes. *)
LEMMA SameMail ==
  ASSUME UNCHANGED <<tcp_clients, pc, todo, flushing, published>>
  PROVE  Mailbox' = Mailbox /\ Online' = Online
  BY DEF ClientOf, Online, Mailbox, StoredMail, StoredOf, Stored, OwedMail, Owed,
     Left, EntriesWithId

(* A subscribe adds one subscription to the topic it joins or creates.      *)
LEMMA SubscribeServes ==
  ASSUME ServiceInv, ServiceInv', NoGarbage, NoGarbage', [Next]_vars,
         NEW i \in Fds, NEW p \in Procs, NEW m \in Commands, Subscribe(i, p, m)
  PROVE  \E c \in Ids, t \in Topics, sf \in {0, 1} : Service!Subscribe(c, t, sf)
<1>1. /\ UNCHANGED <<tcp_clients, pc, todo, flushing, published, handed>>
      /\ TypeOK /\ TypeOK' /\ Steady
  BY SteadyStep DEF Subscribe, job, client, ServiceInv, Typed
<1>2. PICK x : x = [subscriber |-> current_tcp_client', SF |-> m.SF]
  OBVIOUS
<1>3. current_tcp_client' \in 0 .. Len(tcp_clients) /\ Len(tcp_clients) \in Nat
      /\ DOMAIN tcp_clients = 1 .. Len(tcp_clients)
  BY <1>1, TableEntries DEF TypeOK
<1>4. x \in Subscription /\ x.subscriber = current_tcp_client' /\ x.SF = m.SF
      /\ m.SF \in {0, 1} /\ m.topic \in Topics
  <2>1. m.SF \in {0, 1} /\ m.topic \in Topics
    BY ConstantsOK
  <2>2. Len(tcp_clients) <= MaxClients
    BY <1>1 DEF TypeOK
  <2>3. current_tcp_client' \in 0 .. MaxClients
    BY <1>3, <2>2, ConstantsOK
  <2>4. QED
    BY <1>2, <2>1, <2>3 DEF Subscription
<1>5. Mailbox' = Mailbox /\ Online' = Online
  BY <1>1, SameMail
<1>6. ASSUME NEW t \in Topics, NEW s \in Seq(Subscription), x.subscriber # 0,
             Subscriptions[t] = Shown(s),
             Subscriptions' = [Subscriptions EXCEPT ![t] = Shown(Append(s, x))]
      PROVE  \E c \in Ids, sf \in {0, 1} : Service!Subscribe(c, t, sf)
  <2>1. PICK c : c = ClientOf(x)
    OBVIOUS
  <2>2. c \in Ids
    <3>1. x.subscriber \in DOMAIN tcp_clients
      BY <1>3, <1>4, <1>6
    <3>2. tcp_clients[x.subscriber] \in ClientEntry
      BY <1>1, <3>1, TableEntries
    <3>3. QED
      BY <2>1, <3>2 DEF ClientOf, ClientEntry
  <2>3. Shown(Append(s, x)) = Append(Subscriptions[t], [id |-> c, SF |-> m.SF])
    BY <1>4, <1>6, <2>1, ShownAppend
  <2>4. Subscriptions' = [Subscriptions EXCEPT ![t] = Append(@, [id |-> c, SF |-> m.SF])]
    BY <1>6, <2>3
  <2>5. Service!Subscribe(c, t, m.SF)
    BY <1>1, <1>5, <2>4 DEF Service!Subscribe
  <2>6. QED
    BY <1>4, <2>2, <2>5
<1>7. ASSUME NEW k \in DOMAIN all_topics,
             all_topics' = [all_topics EXCEPT ![k].subscribers = Append(@, x)]
      PROVE  \E c \in Ids, t \in Topics, sf \in {0, 1} : Service!Subscribe(c, t, sf)
  <2>1. PICK s : s = all_topics[k].subscribers
    OBVIOUS
  <2>2. PICK t : t = all_topics[k].topic
    OBVIOUS
  <2>3. s \in Seq(Subscription) /\ t \in Topics
    BY <1>1, <2>1, <2>2, TableEntries
  <2>4. Append(s, x) \in Seq(Subscription) /\ Append(s, x)[Len(s) + 1] = x
        /\ Len(Append(s, x)) = Len(s) + 1 /\ Len(s) \in Nat
    BY <1>4, <2>3, AppendProperties, LenProperties
  <2>5. SetSubscribers(k, Append(s, x))
    BY <1>7, <2>1 DEF SetSubscribers
  <2>6. Subscriptions' = [Subscriptions EXCEPT ![t] = Shown(Append(s, x))]
    BY <1>1, <2>2, <2>4, <2>5, OneTopicChanges
  <2>7. Subscriptions[t] = Shown(s)
    BY <1>1, <2>1, <2>2, SubscriptionsOf DEF ServiceInv, ShownRight
  <2>8. x.subscriber # 0
    <3>1. all_topics \in [DOMAIN all_topics -> TopicEntry]
      BY <1>1 DEF TypeOK
    <3>2. k \in DOMAIN all_topics' /\ all_topics'[k].subscribers = Append(s, x)
      BY <1>7, <2>1, <3>1 DEF TopicEntry
    <3>3. Len(s) + 1 \in DOMAIN Append(s, x)
      BY <2>4, LenProperties
    <3>4. QED
      BY <2>4, <3>2, <3>3 DEF NoGarbage
  <2>9. QED
    BY <1>6, <2>3, <2>6, <2>7, <2>8
<1>8. ASSUME Matching(m.topic) = {}, Len(all_topics) < MaxTopics,
             all_topics' = Append(all_topics,
                [topic |-> m.topic,
                 subscribers |-> Append(Fill(StackFill[Len(all_topics) + 1]), x)])
      PROVE  \E c \in Ids, t \in Topics, sf \in {0, 1} : Service!Subscribe(c, t, sf)
  <2>1. PICK g : g = StackFill[Len(all_topics) + 1]
    OBVIOUS
  <2>2. g \in Nat /\ Fill(g) \in Seq(Subscription)
    <3>1. Len(all_topics) \in Nat
      BY <1>1, TableEntries
    <3>2. g \in Nat
      BY <1>8, <2>1, <3>1, ConstantsOK
    <3>3. QED
      BY <3>2, FillTyped, ConstantsOK
  <2>3. PICK s : s = Append(Fill(g), x)
    OBVIOUS
  <2>4. /\ s \in Seq(Subscription) /\ Len(s) = Len(Fill(g)) + 1
        /\ s[Len(Fill(g)) + 1] = x /\ \A q \in 1 .. Len(Fill(g)) : s[q] = Fill(g)[q]
        /\ Len(Fill(g)) \in Nat /\ DOMAIN Fill(g) = 1 .. Len(Fill(g))
    BY <1>4, <2>2, <2>3, AppendProperties, LenProperties
  <2>5. DOMAIN s = 1 .. Len(s)
    BY <2>4, LenProperties
  <2>6. NewTopic(m.topic, s)
    <3>1. TopicsNamed(m.topic) = {}
      <4>1. <<m.topic, m.topic>> \in Substring
        BY <1>4, ConstantsOK
      <4>2. QED
        BY <1>8, <4>1 DEF Matching, TopicsNamed
    <3>2. QED
      BY <1>8, <2>1, <2>3, <3>1 DEF NewTopic
  <2>7. \A q \in DOMAIN s : s[q].subscriber # 0
    <3>1. PICK n : n = Len(all_topics) + 1
      OBVIOUS
    <3>2. [topic |-> m.topic, subscribers |-> s] \in TopicEntry
      BY <1>4, <2>4 DEF TopicEntry
    <3>3. n \in DOMAIN all_topics' /\ all_topics'[n].subscribers = s
      <4>1. all_topics \in Seq(TopicEntry)
            /\ all_topics' = Append(all_topics, [topic |-> m.topic, subscribers |-> s])
        BY <1>1, <1>8, <2>1, <2>3 DEF TypeOK
      <4>2. Len(all_topics) \in Nat /\ Len(all_topics') = Len(all_topics) + 1
            /\ all_topics'[n] = [topic |-> m.topic, subscribers |-> s]
            /\ DOMAIN all_topics' = 1 .. Len(all_topics')
        BY <3>1, <3>2, <4>1, AppendProperties, LenProperties
      <4>3. QED
        BY <3>1, <4>2
    <3>4. QED
      BY <3>3 DEF NoGarbage
  <2>8. Fill(g) = <<>>
    <3>1. \A q \in 1 .. g : Fill(g)[q].subscriber = 0
      BY DEF Fill
    <3>2. DOMAIN Fill(g) = 1 .. g
      BY DEF Fill
    <3>3. ASSUME Len(Fill(g)) >= 1 PROVE FALSE
      <4>1. 1 \in DOMAIN Fill(g) /\ 1 \in DOMAIN s
        BY <2>4, <2>5, <3>3
      <4>2. s[1] = Fill(g)[1]
        BY <2>4, <3>3
      <4>3. QED
        BY <2>7, <3>1, <3>2, <4>1, <4>2
    <3>4. Len(Fill(g)) = 0
      BY <2>4, <3>3
    <3>5. QED
      BY <2>2, <3>4, EmptySeq
  <2>9. x.subscriber # 0
    BY <2>4, <2>5, <2>7
  <2>10. Subscriptions' = [Subscriptions EXCEPT ![m.topic] = Shown(s)]
         /\ Subscriptions[m.topic] = <<>>
    BY <1>1, <1>4, <2>4, <2>6, TopicAdded
  <2>11. Shown(<<>>) = <<>> /\ <<>> \in Seq(Subscription)
    BY EmptySeq DEF Shown
  <2>12. s = Append(<<>>, x)
    BY <2>3, <2>8
  <2>13. \E c \in Ids, sf \in {0, 1} : Service!Subscribe(c, m.topic, sf)
    BY <1>4, <1>6, <2>9, <2>10, <2>11, <2>12
  <2>14. QED
    BY <1>4, <2>13
<1>9. QED
  BY <1>2, <1>7, <1>8 DEF Subscribe

(* What is shown of a part of a list. *)
LEMMA ShownSubsequence ==
  ASSUME NEW s \in Seq(Subscription), NEW S \in SUBSET DOMAIN s
  PROVE  Shown(Subsequence(s, S)) = Service!Subsequence(Shown(s), S)
<1>1. \A x \in 1 .. Cardinality(S) : Nth(x, S) \in DOMAIN s
  BY SubsequenceProperties
<1>2. Shown(Subsequence(s, S)) = [x \in 1 .. Cardinality(S) |->
                 [id |-> ClientOf(s[Nth(x, S)]), SF |-> s[Nth(x, S)].SF]]
  BY DEF Shown, Subsequence
<1>3. \A x \in 1 .. Cardinality(S) : Shown(s)[Nth(x, S)]
              = [id |-> ClientOf(s[Nth(x, S)]), SF |-> s[Nth(x, S)].SF]
  BY <1>1 DEF Shown
<1>4. Shown(Subsequence(s, S)) = Subsequence(Shown(s), S)
  BY <1>2, <1>3 DEF Subsequence
<1>5. Service!Subsequence(Shown(s), S) = Subsequence(Shown(s), S)
  BY DEF Service!Subsequence, Service!Nth, Service!Cardinality, Service!IsFiniteSet,
     Subsequence, Nth, Cardinality, IsFiniteSet
<1>6. QED
  BY <1>4, <1>5

(* An unsubscribe removes subscriptions of the client it found, or nothing. *)
LEMMA UnsubscribeServes ==
  ASSUME ServiceInv, ServiceInv', NoGarbage, NoGarbage', [Next]_vars,
         NEW i \in Fds, NEW p \in Procs, NEW m \in Commands, Unsubscribe(i, p, m)
  PROVE  \/ \E c \in Ids, t \in Topics : Service!Unsubscribe(c, t)
         \/ UNCHANGED Service!vars
<1>1. /\ UNCHANGED <<tcp_clients, pc, todo, flushing, published, handed>>
      /\ TypeOK /\ TypeOK' /\ Steady
  BY SteadyStep DEF Unsubscribe, job, client, ServiceInv, Typed
<1>2. CASE UNCHANGED all_topics
  BY <1>1, <1>2, QuietService DEF Mapped
<1>3. ASSUME NEW k \in DOMAIN all_topics, NEW c,
             all_topics' = [all_topics EXCEPT ![k].subscribers =
               Keep(all_topics[k].subscribers, DOMAIN all_topics[k].subscribers
                      \ RemovedFrom(all_topics[k].subscribers, c))]
      PROVE  \/ \E d \in Ids, t \in Topics : Service!Unsubscribe(d, t)
             \/ UNCHANGED Service!vars
  <2>1. PICK s : s = all_topics[k].subscribers
    OBVIOUS
  <2>2. PICK t : t = all_topics[k].topic
    OBVIOUS
  <2>3. PICK gone : gone = RemovedFrom(s, c)
    OBVIOUS
  <2>4. PICK rest : rest = Subsequence(s, DOMAIN s \ gone)
    OBVIOUS
  <2>5. s \in Seq(Subscription) /\ t \in Topics /\ rest \in Seq(Subscription)
    BY <1>1, <2>1, <2>2, <2>4, TableEntries, SubsequenceType
  <2>6. all_topics' = [all_topics EXCEPT ![k].subscribers = rest]
    BY <1>3, <2>1, <2>3, <2>4 DEF Keep
  <2>7. gone \in SUBSET DOMAIN s /\ \A q \in gone : s[q].subscriber \in EntriesWithId(c)
    BY <2>3 DEF RemovedFrom, RemovedOf
  <2>8. CASE gone = {}
    <3>1. DOMAIN s \ gone = DOMAIN s
      BY <2>8
    <3>2. rest = s
      BY <2>4, <2>5, <3>1, SubsequenceFull
    <3>3. all_topics \in [DOMAIN all_topics -> TopicEntry]
      BY <1>1 DEF TypeOK
    <3>4. UNCHANGED all_topics
      BY <2>1, <2>6, <3>2, <3>3 DEF TopicEntry
    <3>5. QED
      BY <1>1, <3>4, QuietService DEF Mapped
  <2>9. CASE gone # {}
    <3>1. c \in Ids
      <4>1. PICK q \in gone : TRUE
        BY <2>9
      <4>2. s[q].subscriber \in DOMAIN tcp_clients /\ tcp_clients[s[q].subscriber].id = c
        BY <2>7 DEF EntriesWithId
      <4>3. tcp_clients[s[q].subscriber] \in ClientEntry
        BY <1>1, <4>2, TableEntries
      <4>4. QED
        BY <4>2, <4>3 DEF ClientEntry
    <3>2. DOMAIN Shown(s) = DOMAIN s /\ \A q \in DOMAIN s : Shown(s)[q].id = ClientOf(s[q])
      BY DEF Shown
    <3>3. gone \in SUBSET Service!Of(c, Shown(s))
      BY <2>7, <3>2 DEF Service!Of, ClientOf, EntriesWithId
    <3>4. Shown(rest) = Service!Subsequence(Shown(s), DOMAIN Shown(s) \ gone)
      BY <2>4, <2>5, <3>2, ShownSubsequence
    <3>5. Subscriptions' = [Subscriptions EXCEPT ![t] = Shown(rest)]
      BY <1>1, <2>2, <2>5, <2>6, OneTopicChanges DEF SetSubscribers
    <3>6. Subscriptions[t] = Shown(s)
      BY <1>1, <2>1, <2>2, SubscriptionsOf DEF ServiceInv, ShownRight
    <3>7. Subscriptions' = [Subscriptions EXCEPT ![t] =
                              Service!Subsequence(@, DOMAIN @ \ gone)]
      BY <3>4, <3>5, <3>6
    <3>8. Service!Unsubscribe(c, t)
      BY <1>1, <2>9, <3>3, <3>6, <3>7, SameMail DEF Service!Unsubscribe
    <3>9. QED
      BY <2>5, <3>1, <3>8
  <2>10. QED
    BY <2>8, <2>9
<1>4. QED
  BY <1>2, <1>3 DEF Unsubscribe

-----------------------------------------------------------------------------
(* Datagrams. *)

(* A datagram goes to the mailboxes of its topic's subscriptions. *)
LEMMA DatagramPublishes ==
  ASSUME ServiceInv, ServiceInv', NoGarbage, [Next]_vars,
         NEW t \in Topics, ReceiveDatagram(t)
  PROVE  Service!Publish(t)
<1>1. /\ UNCHANGED <<tcp_clients, flushing, handed>>
      /\ published' = Append(published, t) /\ pc = "loop" /\ todo = <<>>
      /\ TypeOK /\ TypeOK' /\ Steady
  BY SteadyStep DEF ReceiveDatagram, Turn, client, ServiceInv, Typed, TodoDone
<1>2. Online' = Online
  BY <1>1 DEF Online
<1>3. Len(published') = Len(published) + 1
  <2>1. published \in Seq(Topics)
    BY <1>1 DEF TypeOK
  <2>2. QED
    BY <1>1, <2>1, AppendProperties
<1>4. \E l \in Seq(Subscription) : /\ Resume(l) /\ Subscriptions[t] = Shown(l)
                                   /\ Subscriptions' = Subscriptions
  <2>1. CASE NewTopic(t, <<>>) /\ Resume(<<>>)
    <3>1. <<>> \in Seq(Subscription) /\ Shown(<<>>) = <<>>
      BY EmptySeq DEF Shown
    <3>2. Subscriptions' = [Subscriptions EXCEPT ![t] = <<>>] /\ Subscriptions[t] = <<>>
      BY <1>1, <2>1, <3>1, TopicAdded
    <3>3. Subscriptions' = Subscriptions
      BY <3>2 DEF Subscriptions
    <3>4. QED
      BY <2>1, <3>1, <3>2, <3>3
  <2>2. ASSUME NEW k \in TopicsNamed(t), Resume(all_topics[k].subscribers),
               UNCHANGED all_topics
        PROVE  \E l \in Seq(Subscription) : /\ Resume(l) /\ Subscriptions[t] = Shown(l)
                                            /\ Subscriptions' = Subscriptions
    <3>1. k \in DOMAIN all_topics /\ all_topics[k].topic = t
      BY <2>2 DEF TopicsNamed
    <3>2. all_topics[k].subscribers \in Seq(Subscription)
      BY <1>1, <3>1, TableEntries
    <3>3. Subscriptions[t] = Shown(all_topics[k].subscribers)
      BY <1>1, <3>1, SubscriptionsOf DEF ServiceInv, ShownRight
    <3>4. Subscriptions' = Subscriptions
      BY <1>1, <2>2, SameSubscriptions DEF ServiceInv
    <3>5. QED
      BY <2>2, <3>2, <3>3, <3>4
  <2>3. QED
    BY <2>1, <2>2 DEF ReceiveDatagram, NewTopic
<1>5. PICK l \in Seq(Subscription) : /\ Resume(l) /\ Subscriptions[t] = Shown(l)
                                     /\ Subscriptions' = Subscriptions
  BY <1>4
<1>6. ASSUME NEW c \in Ids
      PROVE  StoredMail(c)' \o OwedMail(c)' =
        Mailbox[c] \o
          [k \in DOMAIN Service!Subsequence(Subscriptions[t], Service!Of(c, Subscriptions[t]))
             |-> [n |-> Len(published) + 1,
                  SF |-> Service!Subsequence(Subscriptions[t],
                                             Service!Of(c, Subscriptions[t]))[k].SF]]
  <2>1. PICK own : own = Subsequence(l, For(c, l))
    OBVIOUS
  <2>2. StoredMail(c)' = StoredMail(c)
    <3>1. EntriesWithId(c)' = EntriesWithId(c)
      BY <1>1 DEF EntriesWithId
    <3>2. \A k : Stored(k)' = Stored(k)
      BY <1>1, <1>5 DEF Stored, Resume
    <3>3. QED
      BY <3>1, <3>2, SameStoredMail
  <2>3. OwedMail(c) = <<>>
    <3>1. Left = <<>>
      BY <1>1 DEF Left
    <3>2. {x \in DOMAIN <<>> : ClientOf(<<>>[x]) = c} = {}
      OBVIOUS
    <3>3. Owed(c) = <<>>
      BY <3>1, <3>2, SubsequenceNone DEF Owed
    <3>4. QED
      BY <3>3 DEF OwedMail
  <2>4. Mailbox[c] = StoredMail(c)
    <3>1. StoredMail(c) \in Seq(Mail)
      BY MailTyped
    <3>2. QED
      BY <2>3, <3>1, ConcatEmptySeq DEF Mailbox
  <2>5. Owed(c)' = own
    <3>1. Left' = l
      BY <1>5 DEF Left, Resume
    <3>2. {x \in DOMAIN l : ClientOf(l[x])' = c} = For(c, l)
      BY <1>1 DEF For, ClientOf
    <3>3. Owed(c)' = Subsequence(l, {x \in DOMAIN l : ClientOf(l[x])' = c})
      BY <3>1 DEF Owed
    <3>4. QED
      BY <2>1, <3>2, <3>3
  <2>6. OwedMail(c)' = [x \in DOMAIN own |-> [n |-> Len(published) + 1, SF |-> own[x].SF]]
    BY <1>3, <2>5 DEF OwedMail
  <2>7. Service!Of(c, Shown(l)) = For(c, l) /\ For(c, l) \in SUBSET DOMAIN l
    BY DEF Service!Of, For, Shown
  <2>8. Service!Subsequence(Subscriptions[t], Service!Of(c, Subscriptions[t])) = Shown(own)
    BY <1>5, <2>1, <2>7, ShownSubsequence
  <2>9. DOMAIN Shown(own) = DOMAIN own /\ \A x \in DOMAIN own : Shown(own)[x].SF = own[x].SF
    BY DEF Shown
  <2>10. QED
    BY <2>2, <2>4, <2>6, <2>8, <2>9
<1>7. Mailbox' = [c \in Ids |-> StoredMail(c)' \o OwedMail(c)']
  BY DEF Mailbox
<1>8. QED
  BY <1>1, <1>2, <1>5, <1>6, <1>7 DEF Service!Publish


-----------------------------------------------------------------------------
(* Messages leave a mailbox. *)

(* Mailboxes are images of what is stored and owed. *)
AsOwed(n) == [e \in Subscription |-> [n |-> n, SF |-> e.SF]]
AsStored == [n \in Message |-> [n |-> n, SF |-> 1]]

LEMMA OwedImage ==
  ASSUME Typed, TodoResolves, NEW c
  PROVE  OwedMail(c) = Map(AsOwed(Len(published)), Owed(c))
<1>1. \A x \in DOMAIN Owed(c) : Owed(c)[x] \in Subscription
  BY OwedTyped, LenProperties, ElementOfSeq
<1>2. QED
  BY <1>1 DEF OwedMail, Map, AsOwed

LEMMA StoredImage ==
  ASSUME NEW c, StoredOf(c) \in Seq(Message)
  PROVE  StoredMail(c) = Map(AsStored, StoredOf(c))
<1>1. \A x \in DOMAIN StoredOf(c) : StoredOf(c)[x] \in Message
  BY LenProperties, ElementOfSeq
<1>2. QED
  BY <1>1 DEF StoredMail, Map, AsStored

(* What a list owes a client when its head is dealt with. *)
LEMMA OwedTail ==
  ASSUME NEW l \in Seq(Subscription), l # <<>>, NEW c
  PROVE  /\ ClientOf(Head(l)) # c =>
              Subsequence(Tail(l), For(c, Tail(l))) = Subsequence(l, For(c, l))
         /\ ClientOf(Head(l)) = c =>
              /\ Subsequence(l, For(c, l)) # <<>>
              /\ Head(Subsequence(l, For(c, l))) = Head(l)
              /\ Tail(Subsequence(l, For(c, l))) = Subsequence(Tail(l), For(c, Tail(l)))
<1>1. /\ Len(l) \in Nat \ {0} /\ DOMAIN l = 1 .. Len(l) /\ Head(l) = l[1]
      /\ Tail(l) \in Seq(Subscription) /\ Len(Tail(l)) = Len(l) - 1
      /\ \A x \in 1 .. Len(Tail(l)) : Tail(l)[x] = l[x + 1]
  BY EmptySeq, LenProperties, HeadTailProperties
<1>2. DOMAIN Tail(l) = 1 .. Len(l) - 1
  BY <1>1, LenProperties
<1>3. Shift(For(c, l)) = For(c, Tail(l))
  <2>1. ASSUME NEW x PROVE x \in Shift(For(c, l)) <=> x \in For(c, Tail(l))
    <3>1. x \in Shift(For(c, l)) <=> x \in Nat \ {0} /\ x + 1 \in 1 .. Len(l)
                                       /\ ClientOf(l[x + 1]) = c
      BY <1>1 DEF Shift, For
    <3>2. x \in For(c, Tail(l)) <=> x \in 1 .. Len(l) - 1 /\ ClientOf(Tail(l)[x]) = c
      BY <1>2 DEF For
    <3>3. x \in Nat \ {0} /\ x + 1 \in 1 .. Len(l) <=> x \in 1 .. Len(l) - 1
      BY <1>1
    <3>4. x \in 1 .. Len(l) - 1 => Tail(l)[x] = l[x + 1]
      BY <1>1
    <3>5. QED
      BY <3>1, <3>2, <3>3, <3>4
  <2>2. QED
    BY <2>1
<1>4. For(c, l) \in SUBSET DOMAIN l /\ (1 \in For(c, l) <=> ClientOf(Head(l)) = c)
  BY <1>1 DEF For
<1>5. QED
  BY <1>3, <1>4, SubsequenceTail

(* And its mail. *)
LEMMA OwedMailTail ==
  ASSUME ServiceInv, Steady, todo # <<>>, pc # "ack", NEW c,
         Left' = Tail(todo), UNCHANGED published
  PROVE  /\ ClientOf(Head(todo)) # c => OwedMail(c)' = OwedMail(c)
         /\ ClientOf(Head(todo)) = c =>
              /\ OwedMail(c) # <<>>
              /\ Head(OwedMail(c)) = [n |-> Len(published), SF |-> Head(todo).SF]
              /\ OwedMail(c)' = Tail(OwedMail(c))
<1>1. PICK l : l = todo
  OBVIOUS
<1>2. PICK r : r = Tail(l)
  OBVIOUS
<1>3. PICK n : n = Len(published)
  OBVIOUS
<1>4. l \in Seq(Subscription) /\ Left = l /\ Left' = r
      /\ r \in Seq(Subscription) /\ Head(l) \in Subscription
  BY <1>1, <1>2, HeadTailProperties DEF ServiceInv, Typed, TypeOK, Left
<1>5. PICK a : a = Subsequence(l, For(c, l))
  OBVIOUS
<1>6. PICK b : b = Subsequence(r, For(c, r))
  OBVIOUS
<1>7. Owed(c) = a /\ a \in Seq(Subscription)
  BY <1>4, <1>5, OwedTyped DEF ServiceInv
<1>8. Owed(c)' = b
  <2>1. \A x \in DOMAIN r : r[x].subscriber \in DOMAIN tcp_clients
    <3>1. /\ DOMAIN l = 1 .. Len(l) /\ Len(l) \in Nat
          /\ Len(r) = Len(l) - 1 /\ DOMAIN r = 1 .. Len(r)
          /\ \A x \in 1 .. Len(r) : r[x] = l[x + 1]
      BY <1>1, <1>2, <1>4, HeadTailProperties, LenProperties
    <3>2. \A x \in DOMAIN r : x + 1 \in DOMAIN l /\ r[x] = l[x + 1]
      BY <3>1
    <3>3. QED
      BY <1>1, <3>2 DEF ServiceInv, TodoResolves
  <2>2. \A x \in DOMAIN r : ClientOf(r[x])' = ClientOf(r[x])
    BY <2>1 DEF ClientOf, Steady
  <2>3. {x \in DOMAIN r : ClientOf(r[x])' = c} = For(c, r)
    BY <2>2 DEF For
  <2>4. Owed(c)' = Subsequence(r, {x \in DOMAIN r : ClientOf(r[x])' = c})
    BY <1>4 DEF Owed
  <2>5. QED
    BY <1>6, <2>3, <2>4
<1>9. OwedMail(c)' = Map(AsOwed(n), b)
  <2>1. b \in Seq(Subscription)
    BY <1>4, <1>6, SubsequenceProperties DEF For
  <2>2. \A x \in DOMAIN b : b[x] \in Subscription
    BY <2>1, LenProperties, ElementOfSeq
  <2>3. OwedMail(c)' = [x \in DOMAIN b |-> [n |-> n, SF |-> b[x].SF]]
    BY <1>3, <1>8 DEF OwedMail
  <2>4. QED
    BY <2>2, <2>3 DEF Map, AsOwed
<1>10. OwedMail(c) = Map(AsOwed(n), a)
  BY <1>3, <1>7, OwedImage DEF ServiceInv
<1>11. CASE ClientOf(Head(todo)) # c
  <2>1. a = b
    BY <1>1, <1>2, <1>4, <1>5, <1>6, <1>11, OwedTail
  <2>2. QED
    BY <1>9, <1>10, <1>11, <2>1
<1>12. CASE ClientOf(Head(todo)) = c
  <2>1. a # <<>> /\ Head(a) = Head(l) /\ Tail(a) = b
    BY <1>1, <1>2, <1>4, <1>5, <1>6, <1>12, OwedTail
  <2>2. PICK F : F = AsOwed(n)
    OBVIOUS
  <2>3. Map(F, a) # <<>> /\ Head(Map(F, a)) = F[Head(a)] /\ Tail(Map(F, a)) = Map(F, Tail(a))
    BY <1>7, <2>1, MapTail
  <2>4. F[Head(l)] = [n |-> n, SF |-> Head(l).SF]
    BY <1>4, <2>2 DEF AsOwed
  <2>5. QED
    BY <1>1, <1>3, <1>9, <1>10, <1>12, <2>1, <2>2, <2>3, <2>4
<1>13. QED
  BY <1>11, <1>12

(* One mailbox changes. *)
LEMMA OneMailbox ==
  ASSUME NEW c \in Ids, NEW mail, StoredMail(c)' \o OwedMail(c)' = mail,
         \A d \in Ids : d # c => /\ StoredMail(d)' = StoredMail(d)
                                 /\ OwedMail(d)' = OwedMail(d)
  PROVE  Mailbox' = [Mailbox EXCEPT ![c] = mail]
<1>1. Mailbox' = [d \in Ids |-> StoredMail(d)' \o OwedMail(d)']
  BY DEF Mailbox
<1>2. QED
  BY <1>1 DEF Mailbox

(* The first message of a mailbox is sent. *)
LEMMA HandStep ==
  ASSUME NEW p \in Procs, NEW c \in Ids, c = IdOf[p], c \in Online, NEW n,
         Mailbox[c] # <<>>, Head(Mailbox[c]).n = n,
         handed' = [handed EXCEPT ![p] = Append(@, n)],
         Mailbox' = [Mailbox EXCEPT ![c] = Tail(Mailbox[c])],
         Subscriptions' = Subscriptions, Online' = Online, published' = published
  PROVE  Service!Hand(p)
  BY DEF Service!Hand

(* A fan-out has somebody to go to. *)
LEMMA Addressed ==
  ASSUME ServiceInv, pc = "fanout"
  PROVE  /\ todo # <<>> /\ Addressee \in DOMAIN tcp_clients
         /\ ClientOf(Head(todo)) = tcp_clients[Addressee].id
         /\ Head(todo) \in Subscription /\ tcp_clients[Addressee] \in ClientEntry
         /\ tcp_clients[Addressee].id \in Ids
<1>1. todo # <<>> /\ todo \in Seq(Subscription) /\ TypeOK
  BY DEF ServiceInv, Typed, TypeOK, HandlerHasWork
<1>2. 1 \in DOMAIN todo /\ Head(todo) = todo[1] /\ Head(todo) \in Subscription
  BY <1>1, EmptySeq, LenProperties, HeadTailProperties
<1>3. Addressee \in DOMAIN tcp_clients
  BY <1>2 DEF ServiceInv, TodoResolves, Addressee
<1>4. tcp_clients[Addressee] \in ClientEntry
  BY <1>1, <1>3, TableEntries
<1>5. QED
  BY <1>1, <1>2, <1>3, <1>4 DEF ClientOf, Addressee, ClientEntry

(* The process behind the socket of a connected client is one of its own.   *)
LEMMA SentToOwn ==
  ASSUME TypeOK, ActiveSocketIsOwn, status = "running", NEW k \in DOMAIN tcp_clients,
         tcp_clients[k].is_active = 1
  PROVE  LET p == fd_owner[tcp_clients[k].current_socket]
         IN p \in Procs /\ IdOf[p] = tcp_clients[k].id
<1>1. tcp_clients[k].current_socket \in Fds
  BY TableEntries DEF ClientEntry
<1>2. QED
  BY <1>1 DEF ActiveSocketIsOwn, Owner, TypeOK

(* A datagram is sent to a connected subscriber. *)
LEMMA SendHands ==
  ASSUME ServiceInv, NoGarbage, ActiveSocketIsOwn, [Next]_vars, SendToActive
  PROVE  \E p \in Procs : Service!Hand(p)
<1>1. /\ UNCHANGED <<tcp_clients, all_topics, todo, flushing, published>>
      /\ pc = "fanout" /\ pc' = "ack" /\ status = "running"
      /\ TypeOK /\ Steady
  BY SteadyStep DEF SendToActive, ToActive, FanningOut, registry, job, ServiceInv, Typed
<1>2. PICK a : a = Addressee
  OBVIOUS
<1>3. PICK p : p = fd_owner[tcp_clients[a].current_socket]
  OBVIOUS
<1>4. PICK c : c = tcp_clients[a].id
  OBVIOUS
<1>5. /\ todo # <<>> /\ a \in DOMAIN tcp_clients /\ ClientOf(Head(todo)) = c
      /\ c \in Ids /\ tcp_clients[a].is_active = 1
  BY <1>1, <1>2, <1>4, Addressed DEF SendToActive, ToActive
<1>6. p \in Procs /\ IdOf[p] = c
  BY <1>1, <1>3, <1>4, <1>5, SentToOwn
<1>7. handed' = [handed EXCEPT ![p] = Append(@, Len(published))]
  BY <1>2, <1>3 DEF SendToActive
<1>8. c \in Online
  BY <1>4, <1>5, WhoIsOnline
<1>9. Subscriptions' = Subscriptions /\ Online' = Online
  BY <1>1, SameSubscriptions DEF ServiceInv, Online
<1>10. StoredMail(c) = <<>>
  BY <1>1, <1>4, <1>5, NothingStored DEF Replaying
<1>11. \A d \in Ids : StoredMail(d)' = StoredMail(d)
  BY <1>1 DEF StoredMail, StoredOf, Stored, EntriesWithId
<1>12. Left' = Tail(todo)
  BY <1>1 DEF Left
<1>13. OwedMail(c) # <<>> /\ Head(OwedMail(c)) = [n |-> Len(published), SF |-> Head(todo).SF]
       /\ OwedMail(c)' = Tail(OwedMail(c))
  BY <1>1, <1>5, <1>12, OwedMailTail
<1>14. \A d \in Ids : d # c => OwedMail(d)' = OwedMail(d)
  BY <1>1, <1>5, <1>12, OwedMailTail
<1>15. OwedMail(c) \in Seq(Mail)
  BY MailTyped
<1>16. Mailbox[c] = OwedMail(c)
  BY <1>5, <1>10, <1>15, ConcatEmptySeq DEF Mailbox
<1>17. StoredMail(c)' \o OwedMail(c)' = Tail(Mailbox[c])
  <2>1. Tail(OwedMail(c)) \in Seq(Mail)
    BY <1>13, <1>15, HeadTailProperties
  <2>2. <<>> \o Tail(OwedMail(c)) = Tail(OwedMail(c))
    BY <2>1, ConcatEmptySeq
  <2>3. StoredMail(c)' = <<>>
    BY <1>5, <1>10, <1>11
  <2>4. QED
    BY <1>13, <1>16, <2>2, <2>3
<1>18. Mailbox' = [Mailbox EXCEPT ![c] = Tail(Mailbox[c])]
  <2>1. PICK mail : mail = Tail(Mailbox[c])
    OBVIOUS
  <2>2. QED
    BY <1>5, <1>11, <1>14, <1>17, <2>1, OneMailbox
<1>19. Head(Mailbox[c]).n = Len(published) /\ Mailbox[c] # <<>>
  BY <1>13, <1>16
<1>20. Service!Hand(p)
  BY <1>1, <1>5, <1>6, <1>7, <1>8, <1>9, <1>18, <1>19, HandStep
<1>21. QED
  BY <1>6, <1>20

(* Its ACK changes nothing for the service. *)
LEMMA AckServes ==
  ASSUME ServiceInv, NoGarbage, [Next]_vars, AwaitAck
  PROVE  UNCHANGED Service!vars
<1>1. /\ UNCHANGED <<tcp_clients, all_topics, flushing, published, handed>>
      /\ pc = "ack" /\ pc' \in {"loop", "fanout"} /\ todo' = Tail(todo)
      /\ TypeOK /\ Steady
  BY SteadyStep DEF AwaitAck, Resume, registry, client, ServiceInv, Typed
<1>2. Left' = Left
  BY <1>1 DEF Left
<1>3. \A c \in Ids : OwedMail(c)' = OwedMail(c)
  BY <1>1, <1>2, SameOwedMail DEF ServiceInv
<1>4. \A c \in Ids : StoredMail(c)' = StoredMail(c)
  BY <1>1 DEF StoredMail, StoredOf, Stored, EntriesWithId
<1>5. Mailbox' = Mailbox
  BY <1>3, <1>4, SameMailbox
<1>6. Subscriptions' = Subscriptions /\ Online' = Online
  BY <1>1, SameSubscriptions DEF ServiceInv, Online
<1>7. QED
  BY <1>1, <1>5, <1>6 DEF Service!vars

(* Only the stored messages of one client change. *)
LEMMA StoredChange ==
  ASSUME ServiceInv, NEW k \in DOMAIN tcp_clients, NEW s \in Seq(Message),
         tcp_clients' = [tcp_clients EXCEPT ![k].unreceived = s],
         pc' # "gotit", pc = "gotit" => flushing = k, NEW c, c = tcp_clients[k].id
  PROVE  /\ StoredMail(c)' = Map(AsStored, s) /\ Online' = Online
         /\ \A d \in Ids : d # c => StoredMail(d)' = StoredMail(d)
<1>1. /\ DOMAIN tcp_clients' = DOMAIN tcp_clients
      /\ tcp_clients'[k].unreceived = s
      /\ \A j \in DOMAIN tcp_clients :
           /\ tcp_clients'[j].id = tcp_clients[j].id
           /\ tcp_clients'[j].is_active = tcp_clients[j].is_active
           /\ j # k => tcp_clients'[j].unreceived = tcp_clients[j].unreceived
  <2>1. tcp_clients \in [DOMAIN tcp_clients -> ClientEntry]
    BY DEF ServiceInv, Typed, TypeOK
  <2>2. QED
    BY <2>1 DEF ClientEntry
<1>2. \A d : EntriesWithId(d)' = EntriesWithId(d)
  BY <1>1 DEF EntriesWithId
<1>3. Online' = Online
  <2>1. \A d : d \in Online' <=> \E j \in DOMAIN tcp_clients' :
                            tcp_clients'[j].id = d /\ tcp_clients'[j].is_active = 1
    BY DEF Online
  <2>2. \A d : d \in Online' <=> d \in Online
    BY <1>1, <2>1, WhoIsOnline
  <2>3. QED
    BY <2>2 DEF Online
<1>4. EntriesWithId(c) = {k}
  BY EntryOf DEF ServiceInv
<1>5. StoredOf(c)' = s
  <2>1. Stored(k)' = s
    BY <1>1 DEF Stored
  <2>2. EntriesWithId(c)' = {k}
    BY <1>2, <1>4
  <2>3. QED
    BY <2>1, <2>2 DEF StoredOf
<1>6. StoredMail(c)' = Map(AsStored, s)
  <2>1. \A x \in DOMAIN s : s[x] \in Message
    BY LenProperties, ElementOfSeq
  <2>2. StoredMail(c)' = [x \in DOMAIN s |-> [n |-> s[x], SF |-> 1]]
    BY <1>5 DEF StoredMail
  <2>3. QED
    BY <2>1, <2>2 DEF Map, AsStored
<1>7. ASSUME NEW d \in Ids, d # c PROVE StoredMail(d)' = StoredMail(d)
  <2>1. \A j \in EntriesWithId(d) : j \in DOMAIN tcp_clients /\ j # k
    BY <1>7 DEF EntriesWithId
  <2>2. \A j \in EntriesWithId(d) : Stored(j)' = Stored(j)
    BY <1>1, <2>1 DEF Stored
  <2>3. EntriesWithId(d)' = EntriesWithId(d)
    BY <1>2
  <2>4. QED
    BY <2>2, <2>3, SameStoredMail
<1>8. QED
  BY <1>3, <1>6, <1>7

(* What is stored for the client of an entry. *)
LEMMA StoredNow ==
  ASSUME ServiceInv, NEW k \in DOMAIN tcp_clients, pc # "gotit"
  PROVE  StoredMail(tcp_clients[k].id) = Map(AsStored, tcp_clients[k].unreceived)
<1>1. PICK c : c = tcp_clients[k].id
  OBVIOUS
<1>2. EntriesWithId(c) = {k}
  BY <1>1, EntryOf DEF ServiceInv
<1>3. StoredOf(c) = tcp_clients[k].unreceived
  BY <1>2 DEF StoredOf, Stored
<1>4. tcp_clients[k].unreceived \in Seq(Message)
  BY TableEntries DEF ServiceInv, Typed
<1>5. StoredMail(c) = Map(AsStored, StoredOf(c))
  BY <1>3, <1>4, StoredImage
<1>6. QED
  BY <1>1, <1>3, <1>5

(* For a client that is away, a message is stored or missed. *)
LEMMA StoreServes ==
  ASSUME ServiceInv, NoGarbage, [Next]_vars, StoreOrSkip
  PROVE  UNCHANGED Service!vars \/ \E c \in Ids : Service!Miss(c)
<1>1. /\ UNCHANGED <<all_topics, flushing, published, handed>>
      /\ pc = "fanout" /\ pc' \in {"loop", "fanout"} /\ todo' = Tail(todo)
      /\ TypeOK /\ Steady
  BY SteadyStep DEF StoreOrSkip, ToInactive, FanningOut, Resume, client, ServiceInv, Typed
<1>2. PICK k : k = Addressee
  OBVIOUS
<1>3. PICK c : c = tcp_clients[k].id
  OBVIOUS
<1>4. PICK n : n = Len(published)
  OBVIOUS
<1>5. /\ todo # <<>> /\ k \in DOMAIN tcp_clients /\ ClientOf(Head(todo)) = c
      /\ c \in Ids /\ tcp_clients[k].is_active = 0 /\ Head(todo).SF \in {0, 1}
  BY <1>1, <1>2, <1>3, Addressed DEF StoreOrSkip, ToInactive, Subscription
<1>6. c \notin Online
  <2>1. \A j \in DOMAIN tcp_clients : tcp_clients[j].id = c => j = k
    BY <1>3, <1>5 DEF ServiceInv, RegistryIdsUnique
  <2>2. QED
    BY <1>5, <2>1, WhoIsOnline
<1>7. Left' = Tail(todo)
  BY <1>1 DEF Left
<1>8. /\ OwedMail(c) # <<>> /\ Head(OwedMail(c)) = [n |-> n, SF |-> Head(todo).SF]
      /\ OwedMail(c)' = Tail(OwedMail(c))
      /\ \A d \in Ids : d # c => OwedMail(d)' = OwedMail(d)
  BY <1>1, <1>4, <1>5, <1>7, OwedMailTail
<1>9. OwedMail(c) \in Seq(Mail) /\ StoredMail(c) \in Seq(Mail)
  BY MailTyped
<1>10. Subscriptions' = Subscriptions
  BY <1>1, SameSubscriptions DEF ServiceInv
<1>11. CASE Head(todo).SF = 1
  <2>1. PICK s : s = tcp_clients[k].unreceived
    OBVIOUS
  <2>2. s \in Seq(Message) /\ n \in Message /\ Append(s, n) \in Seq(Message)
    <3>1. s \in Seq(Message)
      BY <1>1, <1>5, <2>1, TableEntries
    <3>2. published \in Seq(Topics) /\ Len(published) <= MaxPublish /\ published # <<>>
      BY <1>1 DEF TypeOK, ServiceInv, Typed, HandlerHasWork
    <3>3. n \in Nat \ {0} /\ n <= MaxPublish
      BY <1>4, <3>2, LenProperties, EmptySeq
    <3>4. n \in Message
      BY <3>3, ConstantsOK DEF Message
    <3>5. QED
      BY <3>1, <3>4, AppendProperties
  <2>3. tcp_clients' = [tcp_clients EXCEPT ![k].unreceived = Append(s, n)]
    BY <1>2, <1>4, <1>11, <2>1 DEF StoreOrSkip
  <2>4. /\ StoredMail(c)' = Map(AsStored, Append(s, n)) /\ Online' = Online
        /\ \A d \in Ids : d # c => StoredMail(d)' = StoredMail(d)
    <3>1. PICK u : u = Append(s, n)
      OBVIOUS
    <3>2. u \in Seq(Message) /\ tcp_clients' = [tcp_clients EXCEPT ![k].unreceived = u]
      BY <2>2, <2>3, <3>1
    <3>3. pc' # "gotit" /\ (pc = "gotit" => flushing = k)
      BY <1>1
    <3>4. QED
      BY <1>3, <1>5, <3>1, <3>2, <3>3, StoredChange
  <2>5. StoredMail(c) = Map(AsStored, s)
    BY <1>1, <1>3, <1>5, <2>1, StoredNow
  <2>6. Map(AsStored, Append(s, n)) = Append(StoredMail(c), AsStored[n])
    BY <2>2, <2>5, MapAppend
  <2>7. AsStored[n] = Head(OwedMail(c))
    BY <1>8, <1>11, <2>2 DEF AsStored
  <2>8. StoredMail(c) \o OwedMail(c)
          = Append(StoredMail(c), Head(OwedMail(c))) \o Tail(OwedMail(c))
    BY <1>8, <1>9, ConcatShift
  <2>9. PICK mail : mail = Mailbox[c]
    OBVIOUS
  <2>10. StoredMail(c)' \o OwedMail(c)' = mail
    BY <1>5, <1>8, <2>4, <2>6, <2>7, <2>8, <2>9 DEF Mailbox
  <2>11. Mailbox' = [Mailbox EXCEPT ![c] = mail]
    BY <1>5, <1>8, <2>4, <2>10, OneMailbox
  <2>12. Mailbox' = Mailbox
    BY <2>9, <2>11 DEF Mailbox
  <2>13. QED
    BY <1>1, <1>10, <2>4, <2>12 DEF Service!vars
<1>12. CASE Head(todo).SF = 0
  <2>1. UNCHANGED tcp_clients
    BY <1>12 DEF StoreOrSkip
  <2>2. \A d : StoredMail(d)' = StoredMail(d)
    BY <1>1, <2>1 DEF StoredMail, StoredOf, Stored, EntriesWithId
  <2>3. Online' = Online
    BY <2>1 DEF Online
  <2>4. PICK s : s = StoredMail(c)
    OBVIOUS
  <2>5. PICK w : w = OwedMail(c)
    OBVIOUS
  <2>6. PICK j : j = Len(s) + 1
    OBVIOUS
  <2>7. /\ j \in DOMAIN (s \o w) /\ (s \o w)[j] = Head(w)
        /\ SubSeq(s \o w, 1, j - 1) \o SubSeq(s \o w, j + 1, Len(s \o w)) = s \o Tail(w)
    BY <1>8, <1>9, <2>4, <2>5, <2>6, ConcatSkip
  <2>8. Mailbox[c] = s \o w
    BY <1>5, <2>4, <2>5 DEF Mailbox
  <2>9. StoredMail(c)' \o OwedMail(c)' = s \o Tail(w)
    BY <1>8, <2>2, <2>4, <2>5
  <2>10. Mailbox' = [Mailbox EXCEPT ![c] = s \o Tail(w)]
    BY <1>5, <1>8, <2>2, <2>9, OneMailbox
  <2>11. Mailbox[c][j].SF = 0
    <3>1. Mailbox[c][j] = Head(w)
      BY <2>7, <2>8
    <3>2. Head(w) = [n |-> n, SF |-> 0]
      BY <1>8, <1>12, <2>5
    <3>3. QED
      BY <3>1, <3>2
  <2>12. Mailbox' = [Mailbox EXCEPT ![c] =
                       SubSeq(@, 1, j - 1) \o SubSeq(@, j + 1, Len(@))]
    BY <2>7, <2>8, <2>10
  <2>13. Service!Miss(c)
    BY <1>1, <1>6, <1>10, <2>3, <2>7, <2>8, <2>11, <2>12 DEF Service!Miss
  <2>14. QED
    BY <1>5, <2>13
<1>13. QED
  BY <1>5, <1>11, <1>12

(* A stored message is sent to the client that is back. *)
LEMMA ReplayServes ==
  ASSUME ServiceInv, NoGarbage, ActiveSocketIsOwn, [Next]_vars, Replay
  PROVE  UNCHANGED Service!vars \/ \E p \in Procs : Service!Hand(p)
<1>1. CASE Crash("died")
  <2>1. UNCHANGED Mapped
    BY <1>1 DEF Crash, Halt, Mapped, registry, job, client
  <2>2. QED
    BY <2>1, QuietService
<1>2. CASE ~Crash("died")
  <2>1. PICK k : k = flushing
    OBVIOUS
  <2>2. PICK p : p = fd_owner[tcp_clients[k].current_socket]
    OBVIOUS
  <2>3. PICK c : c = tcp_clients[k].id
    OBVIOUS
  <2>4. PICK s : s = tcp_clients[k].unreceived
    OBVIOUS
  <2>5. /\ UNCHANGED <<tcp_clients, all_topics, todo, flushing, published>>
        /\ pc = "flush" /\ pc' = "gotit" /\ status = "running"
        /\ handed' = [handed EXCEPT ![p] = Append(@, Head(s))]
        /\ TypeOK /\ Steady
    BY <1>2, <2>1, <2>2, <2>4, SteadyStep DEF Replay, registry, job, ServiceInv, Typed
  <2>6. k \in DOMAIN tcp_clients /\ s # <<>> /\ tcp_clients[k].is_active = 1
    BY <2>1, <2>4, <2>5 DEF ServiceInv, Typed, HandlerHasWork, ReplaysToActive, Replaying
  <2>7. s \in Seq(Message) /\ c \in Ids
    BY <2>3, <2>4, <2>5, <2>6, TableEntries DEF ClientEntry
  <2>8. p \in Procs /\ IdOf[p] = c
    BY <2>2, <2>3, <2>5, <2>6, SentToOwn
  <2>9. c \in Online
    BY <2>3, <2>6, WhoIsOnline
  <2>10. Subscriptions' = Subscriptions /\ Online' = Online
    BY <2>5, SameSubscriptions DEF ServiceInv, Online
  <2>11. StoredMail(c) = Map(AsStored, s)
    BY <2>3, <2>4, <2>5, <2>6, StoredNow
  <2>12. StoredMail(c)' = Map(AsStored, Tail(s))
    <3>1. EntriesWithId(c) = {k}
      BY <2>3, <2>6, EntryOf DEF ServiceInv
    <3>2. EntriesWithId(c)' = {k} /\ Stored(k)' = Tail(s)
      BY <2>1, <2>4, <2>5, <3>1 DEF EntriesWithId, Stored
    <3>3. StoredOf(c)' = Tail(s)
      BY <3>2 DEF StoredOf
    <3>4. PICK r : r = Tail(s)
      OBVIOUS
    <3>5. \A x \in DOMAIN r : r[x] \in Message
      BY <2>6, <2>7, <3>4, HeadTailProperties, LenProperties, ElementOfSeq
    <3>6. StoredMail(c)' = [x \in DOMAIN r |-> [n |-> r[x], SF |-> 1]]
      BY <3>3, <3>4 DEF StoredMail
    <3>7. QED
      BY <3>4, <3>5, <3>6 DEF Map, AsStored
  <2>13. \A d \in Ids : d # c => StoredMail(d)' = StoredMail(d)
    <3>1. SUFFICES ASSUME NEW d \in Ids, d # c PROVE StoredMail(d)' = StoredMail(d)
      OBVIOUS
    <3>2. \A j \in EntriesWithId(d) : j # k
      BY <2>3, <3>1 DEF EntriesWithId
    <3>3. \A j \in EntriesWithId(d) : Stored(j)' = Stored(j)
      BY <2>1, <2>5, <3>2 DEF Stored
    <3>4. EntriesWithId(d)' = EntriesWithId(d)
      BY <2>5 DEF EntriesWithId
    <3>5. QED
      BY <3>3, <3>4, SameStoredMail
  <2>14. \A d \in Ids : OwedMail(d)' = OwedMail(d)
    <3>1. Left' = Left
      BY <2>5 DEF Left
    <3>2. QED
      BY <2>5, <3>1, SameOwedMail DEF ServiceInv
  <2>15. /\ StoredMail(c) # <<>> /\ Head(StoredMail(c)) = AsStored[Head(s)]
         /\ Tail(StoredMail(c)) = StoredMail(c)'
    BY <2>6, <2>7, <2>11, <2>12, MapTail
  <2>16. StoredMail(c) \in Seq(Mail) /\ OwedMail(c) \in Seq(Mail)
    BY MailTyped
  <2>17. PICK a : a = StoredMail(c)
    OBVIOUS
  <2>18. PICK w : w = OwedMail(c)
    OBVIOUS
  <2>19. a \o w # <<>> /\ Head(a \o w) = Head(a) /\ Tail(a \o w) = Tail(a) \o w
    BY <2>15, <2>16, <2>17, <2>18, ConcatTail
  <2>20. Mailbox[c] = a \o w
    BY <2>7, <2>17, <2>18 DEF Mailbox
  <2>21. StoredMail(c)' \o OwedMail(c)' = Tail(a) \o w
    BY <2>7, <2>14, <2>15, <2>17, <2>18
  <2>22. Mailbox' = [Mailbox EXCEPT ![c] = Tail(a) \o w]
    BY <2>7, <2>13, <2>14, <2>21, OneMailbox
  <2>23. Mailbox' = [Mailbox EXCEPT ![c] = Tail(Mailbox[c])]
    BY <2>19, <2>20, <2>22
  <2>24. Head(Mailbox[c]).n = Head(s) /\ Mailbox[c] # <<>>
    <3>1. Head(s) \in Message
      BY <2>6, <2>7, HeadTailProperties
    <3>2. AsStored[Head(s)] = [n |-> Head(s), SF |-> 1]
      BY <3>1 DEF AsStored
    <3>3. QED
      BY <2>15, <2>17, <2>19, <2>20, <3>2
  <2>25. PICK n : n = Head(s)
    OBVIOUS
  <2>26. handed' = [handed EXCEPT ![p] = Append(@, n)] /\ Head(Mailbox[c]).n = n
    BY <2>5, <2>24, <2>25
  <2>27. Service!Hand(p)
    BY <2>5, <2>7, <2>8, <2>9, <2>10, <2>23, <2>24, <2>26, HandStep
  <2>28. QED
    BY <2>8, <2>27
<1>3. QED
  BY <1>1, <1>2

(* Its GOT_IT changes nothing for the service. *)
LEMMA GotItServes ==
  ASSUME ServiceInv, NoGarbage, [Next]_vars, AwaitGotIt
  PROVE  UNCHANGED Service!vars
<1>1. /\ UNCHANGED <<all_topics, todo, flushing, published, handed>>
      /\ pc = "gotit" /\ TypeOK /\ Steady
  BY SteadyStep DEF AwaitGotIt, job, client, ServiceInv, Typed
<1>2. CASE UNCHANGED <<tcp_clients, pc>>
  BY <1>1, <1>2, QuietService DEF Mapped
<1>3. CASE ~UNCHANGED <<tcp_clients, pc>>
  <2>1. PICK k : k = flushing
    OBVIOUS
  <2>2. PICK s : s = Tail(tcp_clients[k].unreceived)
    OBVIOUS
  <2>3. /\ tcp_clients' = [tcp_clients EXCEPT ![k].unreceived = s]
        /\ pc' \in {"loop", "flush"}
    BY <1>3, <2>1, <2>2 DEF AwaitGotIt, Unanswered
  <2>4. k \in DOMAIN tcp_clients /\ tcp_clients[k].unreceived # <<>>
    BY <1>1, <2>1 DEF ServiceInv, Typed, HandlerHasWork, Replaying
  <2>5. tcp_clients[k].unreceived \in Seq(Message)
    BY <1>1, <2>4, TableEntries
  <2>6. s \in Seq(Message)
    BY <2>2, <2>4, <2>5, HeadTailProperties
  <2>7. PICK c : c = tcp_clients[k].id
    OBVIOUS
  <2>8. /\ StoredMail(c)' = Map(AsStored, s) /\ Online' = Online
        /\ \A d \in Ids : d # c => StoredMail(d)' = StoredMail(d)
    <3>1. pc' # "gotit" /\ (pc = "gotit" => flushing = k)
      BY <2>1, <2>3
    <3>2. QED
      BY <2>3, <2>4, <2>6, <2>7, <3>1, StoredChange
  <2>9. StoredMail(c) = Map(AsStored, s)
    <3>1. EntriesWithId(c) = {k}
      BY <2>4, <2>7, EntryOf DEF ServiceInv
    <3>2. StoredOf(c) = s
      BY <1>1, <2>1, <2>2, <3>1 DEF StoredOf, Stored
    <3>3. QED
      BY <2>6, <3>2, StoredImage
  <2>10. \A d \in Ids : StoredMail(d)' = StoredMail(d)
    BY <2>8, <2>9
  <2>11. Left' = Left
    BY <1>1, <2>3 DEF Left
  <2>12. \A d \in Ids : OwedMail(d)' = OwedMail(d)
    BY <1>1, <2>11, SameOwedMail DEF ServiceInv
  <2>13. Mailbox' = Mailbox
    BY <2>10, <2>12, SameMailbox
  <2>14. Subscriptions' = Subscriptions
    BY <1>1, SameSubscriptions DEF ServiceInv
  <2>15. QED
    BY <1>1, <2>8, <2>13, <2>14 DEF Service!vars
<1>4. QED
  BY <1>2, <1>3

-----------------------------------------------------------------------------
(* Every step of the server is a step of the service, or none. *)
LEMMA ServiceStep ==
  ASSUME ServiceInv, NoGarbage, NoGarbage', ActiveSocketIsOwn, [Next]_vars
  PROVE  [Service!Next]_Service!vars
<1>1. ServiceInv'
  BY ServiceInvStep
<1>2. ASSUME NEW i \in Fds, NEW p \in Procs, Reads1(i, p)
      PROVE  Service!Next \/ UNCHANGED Service!vars
  <2>1. IdOf[p] \in Ids
    BY DEF Ids
  <2>2. CASE Register(i, p)
    BY <2>1, <2>2, RegisterComes DEF Service!Next
  <2>3. CASE Reconnect(i, p)
    BY <2>1, <2>3, ReconnectComes DEF Service!Next
  <2>4. CASE Disconnect(i, p)
    BY <2>4, DisconnectGoes DEF Service!Next
  <2>5. QED
    BY <1>2, <2>2, <2>3, <2>4 DEF Reads1
<1>3. ASSUME NEW i \in Fds, NEW p \in Procs, NEW m \in Commands, Reads2(i, p, m)
      PROVE  Service!Next \/ UNCHANGED Service!vars
  <2>1. CASE Subscribe(i, p, m)
    BY <1>1, <2>1, SubscribeServes DEF Service!Next
  <2>2. CASE Unsubscribe(i, p, m)
    BY <1>1, <2>2, UnsubscribeServes DEF Service!Next
  <2>3. QED
    BY <1>3, <2>1, <2>2 DEF Reads2
<1>4. ASSUME NEW t \in Topics, ReceiveDatagram(t) PROVE Service!Next
  BY <1>1, <1>4, DatagramPublishes DEF Service!Next
<1>5. SendToActive => Service!Next
  BY SendHands DEF Service!Next
<1>6. StoreOrSkip => Service!Next \/ UNCHANGED Service!vars
  BY StoreServes DEF Service!Next
<1>7. Replay => Service!Next \/ UNCHANGED Service!vars
  BY ReplayServes DEF Service!Next
<1>8. AwaitAck \/ AwaitGotIt => UNCHANGED Service!vars
  BY AckServes, GotItServes
<1>9. CASE Works
  BY <1>2, <1>3, <1>4, <1>5, <1>6, <1>7, <1>8, <1>9 DEF Works
<1>10. CASE UNCHANGED Mapped
  BY <1>10, QuietService
<1>11. QED
  BY <1>9, <1>10, WorkSteps

LEMMA ServiceInit == Init => Service!Init
<1> SUFFICES ASSUME Init PROVE Service!Init
  OBVIOUS
<1>1. /\ tcp_clients = <<>> /\ all_topics = <<>> /\ published = <<>> /\ todo = <<>>
      /\ pc = "loop" /\ handed = [p \in Procs |-> <<>>]
  BY DEF Init
<1>2. Subscriptions = [t \in Topics |-> <<>>]
  <2>1. \A t : TopicsOf(t) = {}
    BY <1>1 DEF TopicsOf
  <2>2. QED
    BY <2>1 DEF Subscriptions
<1>3. Online = {}
  BY <1>1 DEF Online
<1>4. Mailbox = [c \in Ids |-> <<>>]
  <2>1. SUFFICES ASSUME NEW c \in Ids PROVE StoredMail(c) \o OwedMail(c) = <<>>
    BY DEF Mailbox
  <2>2. StoredMail(c) = <<>>
    <3>1. EntriesWithId(c) = {}
      BY <1>1 DEF EntriesWithId
    <3>2. StoredOf(c) = <<>>
      BY <3>1 DEF StoredOf
    <3>3. QED
      BY <3>2 DEF StoredMail
  <2>3. OwedMail(c) = <<>>
    <3>1. Left = <<>>
      BY <1>1 DEF Left
    <3>2. {x \in DOMAIN <<>> : ClientOf(<<>>[x]) = c} = {}
      OBVIOUS
    <3>3. Owed(c) = <<>>
      BY <3>1, <3>2, SubsequenceNone DEF Owed
    <3>4. QED
      BY <3>3 DEF OwedMail
  <2>4. QED
    BY <2>2, <2>3
<1>5. QED
  BY <1>1, <1>2, <1>3, <1>4 DEF Service!Init

(* The server implements PubSub: a datagram goes once to each subscription  *)
(* it meets, messages leave for a process of their client, in order, and    *)
(* only a client that is away and asked for no storing misses one; for any  *)
(* number of clients, topics, messages and processes, and whatever users    *)
(* type and the kernel does, while no subscription points at garbage and    *)
(* the socket of every connected client leads to a process of its own.      *)
THEOREM ServerImplementsPubSub ==
  Spec /\ []NoGarbage /\ []ActiveSocketIsOwn => Implements
<1>1. Init => ServiceInv /\ Service!Init
  BY ServiceInvInit, ServiceInit
<1>2. ServiceInv /\ NoGarbage /\ [Next]_vars => ServiceInv'
  BY ServiceInvStep
<1>3. ServiceInv /\ NoGarbage /\ NoGarbage' /\ ActiveSocketIsOwn /\ [Next]_vars
        => [Service!Next]_Service!vars
  BY ServiceStep
<1>4. QED
  BY <1>1, <1>2, <1>3, PTL DEF Spec, Implements, Service!Spec

(* It does so whenever users wait to be announced, the counters start from  *)
(* zero, descriptors are not taken over from entries that still name them   *)
(* and the connection refused is the one with the duplicate ID.             *)
THEOREM OrderlyServerImplementsPubSub ==
  ASSUME ~EagerUsers, CleanStack PROVE Spec /\ []Orderly => Implements
<1>1. Spec => []NoGarbage
  BY NothingIsGarbage
<1>2. Spec /\ []Orderly => []ActiveSocketIsOwn
  BY SocketsAreOwn
<1>3. Spec /\ []NoGarbage /\ []ActiveSocketIsOwn => Implements
  BY ServerImplementsPubSub
<1>4. QED
  BY <1>1, <1>2, <1>3, PTL

(* With clients that have IDs of their own and stay, no more is needed.     *)
THEOREM StayingServerImplementsPubSub ==
  ASSUME ~EagerUsers, CleanStack, NobodyLeaves, IdsDiffer PROVE Spec => Implements
<1>1. Spec => []NoGarbage
  BY NothingIsGarbage
<1>2. Spec => []ActiveSocketIsOwn
  BY StayingSocketsAreOwn
<1>3. Spec /\ []NoGarbage /\ []ActiveSocketIsOwn => Implements
  BY ServerImplementsPubSub
<1>4. QED
  BY <1>1, <1>2, <1>3, PTL
=============================================================================
