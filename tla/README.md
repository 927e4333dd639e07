# Verification of CommunicationProtocols

The repository holds three programs that share nothing but their language: a publish/subscribe application
(server, TCP client), a software router, and a client of a REST service. Paths below are relative to `src/`.
This project models all three: each has a specification of its own, TLC runs and proofs.

## 1. Inventory

### Publish/subscribe application — `client-server application over TCP and UDP/`

| component | state | operations | interacts by |
| --- | --- | --- | --- |
| server, `server.c` | `tcp_clients[100]`, `all_topics[100]`, `read_fds`, `new_tcp_sockfd`, and stack slots that are read before they are set | one `select()` loop; accept, `exit`, datagram, input on a client socket (ID, disconnect, subscribe, unsubscribe, GOT_IT) | TCP messages with each client, datagrams in |
| TCP client, `client.c` | its socket; `argv[1]` is its ID | keyboard (`exit`, commands); socket (ID request, close, message) | TCP messages with the server |
| sockets (kernel) | queues, FIN/RST state, descriptor numbers | `accept send recv close select` | both |
| datagram formatting, `server.c:171-219` | none | INT, SHORT_REAL, FLOAT, STRING to text | inside the datagram handler |
| UDP publisher, `test.py` | – | load and tests | external |

Hard here: the handlers of the server are long, and two of them wait in `recv()` in the middle (for an ACK, for a
GOT_IT) while clients and users go on; users type whenever they like; connections are lost, reset or reused at any
moment; and nothing but a descriptor number connects a socket to an entry of `tcp_clients`. What makes it correct:
an ID has one entry, subscriptions mean the same client for ever, messages reach the clients that asked for them and
no others, once and in order, stored messages survive an absence, and the server keeps serving everybody.

### Router — `Router emulator/skel/`

| component | state | operations |
| --- | --- | --- |
| forwarding, `router.c` | `rtable`, `arp_table`, read once | per packet: checksum, echo reply, TTL, route, TTL and checksum update, ARP lookup, send |
| packet I/O and ICMP, `skel.c` | `interfaces[3]` | `get_packet`, `send_packet`, `send_icmp`, `send_icmp_error`, `parse_icmp`, both checksums |
| `queue.c`, `list.c` | – | linked in, never called |
| `checker.py`, `tests.py`, `topo.py`, `info.py` | – | test harness |

Hard here: arithmetic (checksum folding, masks compared in network byte order, TTL at its limit), the order of the
checks, what has already been changed when a packet is dropped, and which interface is served. Correct means: a
forwarded packet has a valid checksum, one TTL less and the hop of the longest prefix; every other packet is answered
by the right ICMP message or dropped; nothing is forwarded for ever.

### REST client — `web client - communication with REST API/`

| component | state | operations |
| --- | --- | --- |
| session, `client.c` | `current_cookie_session`, `current_JWT`, `isSomeoneLoggedIn`, `isSomeoneInLibrary` | register, login, enter_library, get_books, get_book, add_book, delete_book, logout, exit |
| response reader, `helpers.c:73-126`, `buffer.c` | a growing buffer, `header_end`, `content_length` | read until the header, then until the length |
| request text, `requests.c` | – | wording |
| `parson.c` | – | vendored JSON library |

Hard here: the session state of the client against that of the server (expiry, a failed logout, a token read from an
error answer), and an answer that arrives in pieces or stops early.

## 2. Modules

| module | what it is |
| --- | --- |
| `Subsequences` | what is left of a sequence when only some positions are kept (the shifting loop of unsubscribe, filters) |
| `Broker` | server, clients and the sockets between them; also mutated forms of some definitions, each a plausible slip |
| `BrokerProperties` | its properties, with what each says about the code |
| `PubSub` | what the publish/subscribe application promises: subscriptions and a mailbox per client, no sockets or handlers |
| `BrokerRefinement` | the refinement mapping from `Broker` to `PubSub` |
| `Checksum` | `ip_checksum` and `icmp_checksum` as operators on words |
| `Router` | the forwarding loop, over a network of routers and hosts; extends `Checksum` |
| `RouterProperties` | its properties |
| `HttpReceive` | `receive_from_server()` and the buffer it fills |
| `RestClient` | the session of the REST client, composed with `HttpReceive` and an external server |
| `RestProperties` | its properties |
| `MCBroker`, `MCRouter`, `MCRest` | instances for TLC; one `.cfg` per run |
| `SubsequenceProofs` | lemmas about `Subsequences` |
| `BrokerProofs` | theorems about `Broker` alone: types, tables, who may have messages stored |
| `BrokerConnectionProofs` | descriptors, connections and the commands on them |
| `BrokerServiceProofs` | the refinement of `PubSub` |
| `BrokerDeliveryProofs` | what becomes of messages: wanted, none missed, none lost, in order; clients that return |
| `RouterProofs` | checksums, TTL, longest prefix |
| `RestProofs`, `RestSessionProofs` | the reader of answers; the session of the client against that of the server |

### How Broker corresponds to the code

The server is one thread, and `pc` says where it stands: `"loop"` in the pass over the descriptors that `select()`
reported (`ready` is `tmp_fds`, handled lowest first), `"fanout"`/`"ack"` in the fan-out of a datagram (before a
subscriber, waiting in `recv()` at `server.c:232`), `"flush"`/`"gotit"` in the replay of stored messages (before a
message, in the loop at `server.c:292`). Everything between two blocking calls is one action, since nothing else in
the process runs then; the clients run between actions.

| code | actions |
| --- | --- |
| `select`, `accept` (92-118) | `Select`, `Accept`, `AcceptFails` |
| `exit` at the server (119-136) | `StopServer` |
| datagram (137-245) | `ReceiveDatagram`, then `SendToActive`/`SendFails`, `AwaitAck`, `StoreOrSkip`; `TopicTableOverrun`, `FanOutUndefined` |
| ID (252-317) | `Register`, `RefuseDuplicate`, `Reconnect`, then `Replay`, `AwaitGotIt`; `ClientTableOverrun` |
| disconnect, unsubscribe, subscribe (318-399) | `Disconnect`, `Unsubscribe`, `Subscribe`; `UnsubscribeUndefined`, `SubscribeOverrun` |
| end of stream, stray GOT_IT, failing `recv` (249-250) | `ReadNothing`, `IgnoreGotIt`, `ReadFails` |
| client.c | `Connect`, `TypeCommand`, `Exit`, `AnswerId`, `PrintMessage`, `CloseOnRequest`, `ConnectionLost` |

Entries of `tcp_clients` and topics are records with the fields of `helpers.h`; a `struct tcp_client *` is a position
in `tcp_clients`, and 0 is a pointer that was never set. Lookups with `break` are "the first position such that".

*Undefined behaviour.* An overrun of a fixed array, or following an unset pointer, ends the model with status
`"undefined"`. Three stack slots are read before they are set in the block, and keep what an earlier pass left there:
`new_tcp_sockfd`, the pointer `current_tcp_client` of subscribe (both stay), and the structure of the same name in
unsubscribe (`leftover_id`: stays until a topic name is copied over it, or a datagram formatted). That is where the build without
optimisation puts them, observed on the running server; the parameter `StackFill` gives the `n_subscribers` each
slot of `all_topics` holds before its first use.

*Sockets.* `link[p]` follows what `close()`, `send()` and `recv()` do on a Linux TCP connection: closing with unread
input sends RST and not FIN, a send after the peer's close is answered by RST, the next one raises SIGPIPE, which neither
program ignores. `accept` returns the lowest free descriptor. A client's `recv()` may return several queued messages,
and it acts on the first only; its messages are `BUFLEN` bytes and arrive whole.

*Left out.* The wording of messages; malformed command lines and over-long names; a `send()` that fills the socket
buffer; IDs that contain a command word. A datagram is its topic and a serial number.

### What Broker implements

`PubSub` says what the README of the application promises: a datagram goes to the mailbox of every subscription its
topic has at that moment, messages leave a mailbox one at a time, oldest first, for a process of a connected client, and
nothing is lost except what a client without store-and-forward misses while it is away. `BrokerRefinement` maps the
tables to it: `subscriptions` and `online` are read off `all_topics` and `tcp_clients`, and the mailbox of a client is
what is stored for it (`unreceived`) followed by what the fan-out under way still owes it (`todo`); a message whose ACK
or GOT_IT is awaited has left the mailbox. `Implements` (run `reconnect`: departures, storing, replays) and
`Serves` (run `steady`: fair, two clients at once) are `PubSub`'s specifications under that mapping.

### How Router corresponds to the code

One turn of the loop of `main` is one action of `Turn(r)`: nothing in it waits except `get_packet`, which takes a packet from the
lowest ready interface. `Valid`, `ForInterface`, `InTransit` and `Routed` are the conditions the loop has passed, in its order.

| code | definition |
| --- | --- |
| bad checksum (`router.c:118`) | `DropCorrupt` |
| own address: echo request; not ICMP (123-131) | `EchoReply`; `NullIcmp`, the null pointer of `parse_icmp` |
| TTL (135), no route (143) | `TimeExceeded`, `Unreachable` |
| TTL and checksum update, ARP lookup (150-160) | `NoArp`, or `NextHop` in `Forward` |
| `send_packet` on an interface past the end of `interfaces[]` | `WildInterface` |
| `get_best_route`, `send_icmp`, `send_icmp_error` | the same names |

An address is two words in network order; masks are compared through `LittleEndian`, as the machine reads them. The header is ten
words and carries a real checksum; a packet received lies two bytes off a 32-bit boundary and a new one on it, which
is what `Received` and `Fresh` say. `Word`, `Byte` and `ByteBits` (a byte has `2 ^ ByteBits` values) are parameters, so that TLC can use narrow ones. Every frame carries
ghost fields (`source`, `first`, `path`) that the properties read and the loop never does. Links lose and reorder
nothing; hosts (external) take what bears their MAC and IP address.

### How RestClient corresponds to the code

A command is two actions: the one that sends (guard of the command, request, and what the server does with it), and the
one that draws what the client keeps from the answer (`LoginUser` and `LoggedIn`, `EnterLibrary` and `Entered`, ...). Between
them `HttpReceive` reads the answer: a sequence of symbols (status, cookie, length, CRLFs, the tokens of the body)
that arrives in pieces of up to `BUFLEN` symbols, cut anywhere, the header terminator included. `header_end` and
`content_length` are computed from the buffer after every piece as `helpers.c:93-124` does; without a terminator the total
is `(size_t) -1`, so that only the close ends the wait. The server is external: its sessions, tokens and libraries are what the
client's reading of its answers relies on. Faults (`ConnectFails`, `ReadFails`, `AnswerCut`, `Expire`) may happen at any moment.

`AnswerCut` may stop the answer between two symbols or inside a cookie, a token or a list (`Cuts`, `Torn`). The client does not notice: it keeps the beginning of a
cookie or of a token as it would the whole (`Partial`) and is logged in or in the library with it. `OwnToken` and `WholeAnswer` are stated with such answers included.

Reads of memory that was never set are explicit: `Uninitialised` cookie and token, and `books[50]`, which shares its bytes with `password[]` (observed in the build). A list of more than `BOOKS` books is an overrun and ends the model;
`BOOKS` is two in the code, where a book takes about twenty-five bytes.

## 3. Runs

Sizes are per run in its `.cfg`.

| run | question | result |
| --- | --- | --- |
| `steady` | two clients that stay, a command each, two datagrams | `NoLoss`, `ConnectServed`, `Delivered`, `ServerReturns`, `Serves` hold |
| `commands` | the same with two commands each, of three kinds, on two topics | `TypeOK`, `NoUnsolicited`, `ActiveSocketIsOwn`, `NoGarbage`, `OthersKeepTheirs`, `LostOnlyByCrossing` hold |
| `reconnect` | one client, three connections in turn, four datagrams on two topics | `NoGap`, `NoLoss`, `StoredOnlyOffline`, `PrintsWanted`, `InOrderOnce`, `RefusesLast`, `Implements` hold |
| `anything` | two processes with one ID and a third, all at once, eager users, exits, substring topics | `RegistryIdsUnique`, `TopicNamesUnique`, `StoredOnlyOffline`, `EntriesStay` hold |
| `limits` | tables of one or two places, dirty stack slots, exits, server stopped | `SubscribersResolve`, `HandlerHasWork` hold up to the overrun or crash |
| `network` | two routers, four hosts, any three of twelve packets | `TypeOK`, `ChecksumsValid`, `TtlPaid`, `LongestPrefixUsed`, `Delivered`, `FallSilent` hold |
| `session` | two accounts, every command, pieces, one fault | `TypeOK`, `WholeAnswer`, `OwnToken`, `Agreed`, `OwnBooks`, `Truthful`, `Returns` hold |
| `lost_as_ack` | `NoLoss` with two commands | violated |
| `wrong_refused` | `OthersStayConnected` with a duplicate ID | violated |
| `stuck_replay` | `ConnectServed` when clients leave | violated |
| `echo_lost` | `EchoAnswered` for one ping of the own gateway | violated |
| `books_shown` | `ShowsBooks` when an answer holds no list | violated |

*Bounds of the Broker runs.* Every loop of the server is met empty, with one and with several elements; two clients are
enough for one to be in the way of the other, three processes for a duplicate, its original and a bystander; two
topics tell "this topic" from "another", with or without one name containing the other; three connections
of one client give a replay after a replay; capacities of one and two are met from below and exceeded. `MaxCommands`
and `MaxPublish` bound the length of a behaviour. `steady`, `commands` and `reconnect` have users who type only once the server has announced
their client, which the tests of the application do too (`EagerUsers = FALSE`); `steady` and `commands` have no exits.
Those are the conditions under which the properties hold; the violation runs show what happens outside them.

In `commands` a second command can be typed while the first message is on its way, so `NoLoss` fails there. What holds is the temporal implication
`LostOnlyByCrossing == []NoCrossing => []NoLoss`: a behaviour that loses a message has, somewhere, a command under way to the server while it awaits an answer of that client; TLC looks for
a behaviour in which `NoLoss` fails and `NoCrossing` never does. In `reconnect` the goodbye of a client can be read as the ACK of the message it did not
wait for. The server then takes the client for connected and refuses its return as a duplicate; `RefusesLast` says that the connection closed is that one.

*Bounds of the router runs.* The topology, the addresses and the shape of the tables are those of `topo.py`, `rtable0.txt`,
`rtable1.txt` and `arp_table.txt`, with bytes of 16 values (`ByteBits = 4`, `Word = 256`) and `FreshTtl = 6` for 64. The tables hold
prefixes of five lengths, overlapping, in and out of order, one of them on interface 3. The twelve packets cover every action: crossing
both routers, one router only, a TTL of 1, 2 and 3, damage, no route, no ARP entry, the own address of a router with and without
ICMP. `MaxSent = 3` puts packets behind each other on one queue and on both routers at once.

*Bounds of the REST runs.* Answers have three to eight symbols and pieces of one to three, so that terminator, length and body are
split in every way that the reader tells apart; three cookies and tokens are a login, a token and another login or token; one fault of four
kinds may come at any moment; two books against `BOOKS = 1` reach the overrun. Both accounts are typed and only one is
registered from the start, so that logins are refused and answered. `Framings` leaves `"open"` out (an answer without a length on a
connection that stays open, waited for without end): the service announces every length.

*Deadlock* is checked in `steady` and `commands`: `Idle` makes waiting in `select()` a step, so a deadlock would be
a server in `recv()` for a message that nobody will send. It is not checked elsewhere: users need not type,
a client may leave, a network falls silent, a process exits.

*Fairness.* `Spec` has none. For `Broker`, `FairSpec` adds weak fairness of the server and of each client's reading: both are
loops around `select()` that never wait by choice. For `Router`, each router with a packet to read takes its turn
(`WF(Turn(r))`), since its loop waits for nothing else. For the REST client, `WF(Reads)`: what has been sent arrives. Users and hosts are never
obliged to do anything, and no fairness is assumed of faults. `PubSub!FairSpec` asks only that the mailbox of a client that stays connected is emptied.

Every property has a mutant in `PROJECT.json`: a mapped definition replaced by one with a plausible slip, under
which the same run finds the property violated.

## 4. Findings

1. **A command is taken for an ACK** (`server.c:232`, run `lost_as_ack`). One command that crosses a message is enough; against README.txt:81, the next message is lost.
2. **The wrong connection is refused** (`server.c:268-273`, `wrong_refused`): the last accepted one is closed.
3. **A client that leaves during its replay stops the server** (`server.c:292`, `stuck_replay`).
4. **An echo reply never reaches the host that asked** (`router.c:128`, `echo_lost`): source and destination, of both
   layers, are those of the request.
5. **Uninitialised memory is parsed and printed as the list of books** (`client.c:260` of the REST client, `books_shown`).
   Text that begins with a JSON value is printed; what `json_parse_string()` refuses ends the client in `puts(NULL)`.

In the models without a run of their own, since no document says what should happen:

- a subscribe before the ID is answered subscribes somebody else or garbage (`server.c:363`), an unsubscribe then may remove another
  client's subscription, and after descriptor reuse a disconnect may go to the wrong entry (`server.c:324`);
- one TCP client that exits with unread input, or before its ACK, ends the server (`ReadFails`, `SendFails`);
- a packet to a router's own address that is not ICMP ends the router (`NullIcmp`); the shipped tables name an interface 3
  that does not exist (`WildInterface`);
- since ICMP answers go to the destination of what they answer, one ping to the *other* router's interface
  makes the routers answer each other without end. `Delivered` and `FallSilent` are stated for networks without such a
  ping (`NoRemotePing`) and with every router up;
- an answer cut in the middle is not told from a whole one: a login can end with the beginning of a cookie, which the server does not know,
  and `enter_library` crashes on an answer cut behind `{`; a third book overruns `books[50]`; a session that expires leaves the client
  logged in and unable to log in again until it is restarted.

## 5. Proofs

Every safety invariant and every action property that a run checks, and the refinement `Implements`, is also a theorem,
for all values of the constants under the assumptions that the modules name: `ConstantsOK` (types of the parameters, a name contains itself),
`WordOK` (a word has more than 32 values), `RoutersOK` and `HostFramesOK` (types; a host's frame is its own and has been nowhere),
`TablesOK` (entries of the routing table have the type of `struct route_table_entry`, and a mask has its ones first), `BytesOK` (a byte has `2 ^ ByteBits`
values; the rest of it is what `^` means, which the provers do not know and TLC evaluates), `BufferOK` (a read returns at least a symbol), `SessionOK`
(types). The code gives no other guarantee, so conditions on users and connections are hypotheses of theorems and not assumptions of modules.

### Conditions of the Broker theorems

Some properties of the server hold only of clients that behave; the violation runs and §4 say what happens otherwise.

| condition | meaning |
| --- | --- |
| `~EagerUsers` | a user types a command once the server has announced the client |
| `CleanStack` | the counters of `all_topics`, never initialised, start at 0 |
| `NobodyUnsubscribes` | no unsubscribe is typed (a client that leaves a topic and comes back to it does miss what came between) |
| `OneCommandEach` | at most one command is typed for each ID |
| `Orderly` | no connected entry names a descriptor that another entry names too (`SocketsApart`), and the ID that is refused came on the last connection accepted (`RefusesLast`) |
| `NoCrossing` | no command is under way to the server while it waits for an answer of the same process |
| `SubscribedOnce` | no topic lists a client twice |
| Staying: `NobodyLeaves`, `IdsDiffer` | clients have IDs of their own and stay |
| Returning: `OneId`, `OneAfterAnother` | one client leaves and returns any number of times, one process after another |

The first four and the last two are about constants: what users type and when they start and stop. The three in between speak of states. Each of these
is proved from conditions on constants: `Orderly` for a client that returns
(`ReturningIsOrderly`) and, as a lemma, for clients that stay, where nothing could disturb it; `NoCrossing` (a lemma) and `SubscribedOnce` from one command each (`OrderlyPrintsInOrder`).
`LostOnlyByCrossing` needs no condition on commands: it is `NothingIsLost` with `NoCrossing` moved into the property. The constants of the runs
`steady` and `commands` are Staying, those of `reconnect` Returning, so that in those runs the hypotheses hold and
datagrams, storing and replays happen.

| module | theorem | property | under |
| --- | --- | --- | --- |
| `BrokerProofs` | `TypeCorrect` | `TypeOK` | |
| | `HandlersHaveWork` | `HandlerHasWork` | |
| | `EntriesAlwaysStay` | `EntriesStay` | |
| | `IdsUnique` | `RegistryIdsUnique` | |
| | `SubscribersAlwaysResolve` | `SubscribersResolve` | |
| | `TopicsUnique` | `TopicNamesUnique` | |
| | `StoredForTheAbsent` | `StoredOnlyOffline` | |
| `BrokerConnectionProofs` | `SocketsAreOwn` | `ActiveSocketIsOwn` | `Orderly` |
| | `StayingSocketsAreOwn` | `ActiveSocketIsOwn` | Staying |
| | `NothingIsGarbage` | `NoGarbage` | `~EagerUsers`, `CleanStack` |
| | `OthersAlwaysKeepTheirs` | `OthersKeepTheirs` | `~EagerUsers` |
| `BrokerServiceProofs` | `ServerImplementsPubSub` | `Implements` | `NoGarbage`, `ActiveSocketIsOwn` |
| | `OrderlyServerImplementsPubSub` | `Implements` | `~EagerUsers`, `CleanStack`, `Orderly` |
| | `StayingServerImplementsPubSub` | `Implements` | `~EagerUsers`, `CleanStack`, Staying |
| `BrokerDeliveryProofs` | `PrintsAreWanted` | `PrintsWanted` | `~EagerUsers`, `Orderly` |
| | `NothingUnsolicited` | `NoUnsolicited` | the same, `IdsDiffer` |
| | `StayingNothingUnsolicited` | `NoUnsolicited` | `~EagerUsers`, Staying |
| | `NothingIsMissed` | `NoGap` | `NobodyUnsubscribes`, `ActiveSocketIsOwn` |
| | `OrderlyNothingIsMissed`, `StayingNothingIsMissed` | `NoGap` | `NobodyUnsubscribes`; `Orderly` or Staying |
| | `NothingIsLost` | `NoLoss` | `Orderly`, `NoCrossing` |
| | `StayingLostOnlyByCrossing` | `LostOnlyByCrossing` | Staying |
| | `OrderlyNothingIsLost`, `StayingNothingIsLost` | `NoLoss` | `~EagerUsers`, `OneCommandEach`; `Orderly` or Staying |
| | `PrintsInOrder` | `InOrderOnce` | `Orderly`, `SubscribedOnce` |
| | `OrderlyPrintsInOrder`, `StayingPrintsInOrder` | `InOrderOnce` | `~EagerUsers`, `OneCommandEach`; `Orderly` or Staying |
| | `ReturningIsOrderly` | `Orderly` | `~EagerUsers`, Returning |
| | `ReturningRefusesLast` | `RefusesLast` | `~EagerUsers`, Returning |
| | `ReturningSocketsAreOwn` | `ActiveSocketIsOwn` | `~EagerUsers`, Returning |
| | `ReturningLostOnlyByCrossing` | `LostOnlyByCrossing` | `~EagerUsers`, Returning |
| | `ReturningServerImplementsPubSub` | `Implements` | the same, `CleanStack` |
| | `ReturningPrintsAreWanted` | `PrintsWanted` | `~EagerUsers`, Returning |
| | `ReturningNothingIsMissed` | `NoGap` | the same, `NobodyUnsubscribes` |
| | `ReturningNothingIsLost`, `ReturningPrintsInOrder` | `NoLoss`, `InOrderOnce` | `~EagerUsers`, Returning, `OneCommandEach` |
| `RouterProofs` | `HeaderVerifies`, `MessageVerifies` | what is sent with a computed checksum sums to 0 at the receiver | |
| | `TypeCorrect` | `TypeOK` | |
| | `ChecksumsCorrect` | `ChecksumsValid` | |
| | `TtlCorrect` | `TtlPaid` | |
| | `LongestPrefixAlways` | `LongestPrefixUsed` | |
| `RestProofs` | `TypeCorrect` | `TypeOK` | |
| | `AnswersWhole` | `WholeAnswer` | |
| | `TokensOwn` | `OwnToken` | |
| `RestSessionProofs` | `SessionInvariance` | the invariant of the next three | |
| | `FlagsAgree` | `Agreed` | |
| | `BooksOwn` | `OwnBooks` | |
| | `ReportsTrue` | `Truthful` | |

### Arguments

*Tables.* `TypeOK` is not inductive: what a handler sends next is typed only because there is something left to send, so the
invariant is `Typed == TypeOK /\ HandlerHasWork`, with a lemma per action. On top of it, `EntriesStep` says what any
step does to `tcp_clients` (keep all IDs, or append an unused one) and gives `EntriesStay` and `RegistryIdsUnique`;
`TopicsStep` says what any step does to `all_topics` (nothing, a topic with a new name, other subscribers for one
topic, all resolvable) and gives `SubscribersResolve` and `TopicNamesUnique`; `ReplayStep` says that only `Reconnect`
starts and only `AwaitGotIt` ends a replay, for `StoredOnlyOffline`. `SubsequenceProofs` is about what an unsubscribe leaves:
by ranks in a finite set of positions, every kept element is found once and in order (`NthRank`), and the lists of
messages lose a head and gain a last element as one expects (`SubsequenceTail`, `SubsequenceAppend`).

*Connections.* Nothing but a descriptor ties a socket to an entry of `tcp_clients`. `Connections` says what the kernel and the server agree
on: a process is behind one descriptor and in the backlog once, it is asked for its ID before anything else and answers once. From it, `SocketsOwn` (a connected
entry's descriptor leads to a process with its ID) is inductive while connections are `Orderly`; a process that has not been announced has no entry pointing
at it (`UnknownApart`). `CommandsAnnounced` says that nothing a user who waits has typed comes before the ID, which keeps the uninitialised pointers unused
(`NothingIsGarbage`: subscribers stay within `RealSubscribers`) and gives `OthersKeepTheirs`: an unsubscribe removes positions of its own sender only, whatever the shifting loop skips.
`Orderly` itself is proved for clients that stay, where no descriptor is ever freed, and for a client that returns (`TurnInv`): the processes before the newest have ended (`EndedBefore`), a
process is told to close only when its connection is being closed (`CloseTold`), so that a process the server has still to hear runs (`EarlyRun`) and the one that runs is behind the last descriptor accepted (`NewestRuns`).

*Refinement.* `ServiceStep` maps every step of `Broker` to one step of `PubSub` or a stutter: a datagram is `Publish`; a send and a replayed message
are `Hand`, a subscriber that is away and stores nothing is `Miss`; registering and reconnecting are `Come`, a disconnect is `Go`; everything else but subscribe and unsubscribe stutters. The
mailbox is what is stored followed by what the fan-out still owes, so the proof needs the list of the fan-out to be what `PubSub` computes
(`TodoResolves`, `TodoDone`), nothing to be stored for a client that is connected (`StoredOnlyOffline`) and IDs and topics to be found at one place.

*Wanted* (`WantedInv`). A message of a topic goes from the list of subscribers to the fan-out, to what is stored or handed over, to the
connection and to the screen; each of these lists holds only messages of topics that some process of the ID asked for, each because the one before it does.

*Missed* (`GapInv`). `Gapless` is `NoGap` with the fan-out under way spelt out: of two messages of a stored topic, if the first has reached the client, the second has, or is
still owed to it. `AwaitedGot` keeps the message whose answer is awaited among those got, and `TodoListed` and `ReachedSubscribed` say
that a client reached once is still on the list when the next datagram comes.

*Lost* (`LossInv`). The client acts on the first message of a `recv()` and drops the others, so nothing may be lost only if there is never a message behind another. `StopAndWait` says so: everything
handed over is printed, or one message is in flight whose answer the server awaits, or it is printed and the answer is on its way. A command that crosses it would be taken for the
answer; `NoCrossing` excludes that, and `SpentInv` proves it of users with one command: whoever is subscribed, is owed a message or has one stored, has typed it and the server has read it.

*In order* (`OrderInv`). Serial numbers rise along the way of a message. On the server: what is stored for a client rises (`StoredRises`), is later than what it got (`GotBefore`),
and a message still owed is newer than all of these (`OwedNew`; `TodoOnce` because nobody is listed twice). At the clients: what is unread
rises and is newer than anything printed by a process of the same ID (`UnreadRises`, `UnreadNew`); only one of the processes of an ID can have anything to read
(`Runners`, `OneReader`), since the server announces the next one after the goodbye of the one before, which is the last thing that one says (`ByeDone`).

*Checksum.* Folding keeps a sum modulo `Word - 1` (`CarriesEnd` and the lemmas around it: three rounds are enough
to end below `Word`, and a sum that is not 0 never becomes 0). A header whose checksum field was 0 and is filled in sums to a multiple of `Word - 1` that is not 0,
so its fold is `Word - 1` and the complement 0; moving the header to the other alignment changes the sum by a multiple of `Word - 1`
only.

*Router.* The properties form one inductive invariant over the frames in queues and at hosts: a step adds at most
one frame, and it is one of `send_icmp`, `send_icmp_error` and `Forwarded`, each with a lemma. Checksums of frames from the loop rest on `HeaderVerifies`
and `MessageVerifies`. For `LongestPrefixUsed`, `get_best_route` compares masks as little-endian numbers: byte by byte from the last, masks with their ones first are ordered as their
lengths are (`ByteOrder`, `LongerIsGreater`), so the entry with the greatest mask (`BestRoute`) is one with the longest prefix.

*REST.* `WholeAnswer` is not inductive: the buffer has to be the part of the answer that precedes what is still on the socket, and
the total the reader waits for has to be the length of the answer whenever a header is complete. That is `Reads_OK`, over
a description `Shape` of what answers the server makes (the terminator occurs once, the length announced is that of the body). `OwnToken` needs to
know that the answer under way is for the cookie that is still held, `Session`. The invariant is
`IInv == TypeOK /\ Reads_OK /\ Session /\ OwnToken`; `AnswerShape` shows that `Handled` only makes answers of that shape. The session needs more: what
the answer says of the server when it is sent must still be true when the client draws its conclusions. `SInv` says that an answer has one status (`OneStatus`), a cookie in it is a
session of the account that logged in (`SessionsKnown`), a token belongs to that session (`TokensValid`), the count of
reported books and the answer under way add up to what the server stored (`Counted`), and a list in it is that of the library (`ListKnown`).

### Only model-checked

Liveness under fairness is beyond the prover: `ConnectServed`, `Delivered` (of both), `ServerReturns`, `Serves`, `FallSilent`, `Returns` are checked on the instances above only.
Nothing else is: no other property of a passing run is without a theorem.

## 6. Not modelled

- *Datagram formatting* (`server.c:171-219`): payload to text, no state; a message is the number of its datagram.
- *Router*: `send_arp` and `parse_arp` (never called), raw sockets, MAC parsing and the reading of the table files in `skel.c`, `queue.c` and `list.c` (never called).
- *REST client*: the wording of requests in `requests.c` (their parts are modelled), what `scanf` leaves unread, and the end of the keyboard input, which repeats
  the last command; `parson.c` is a vendored library.
- *Harnesses*: `test.py`, `checker.py`, `tests.py`, `topo.py`, `info.py`, the UDP client.

## 7. Plan

What is left, in order: weaker conditions for the theorems about messages (several clients that come and go at once, with IDs
of their own; a second command once the first has been read); the hazards that no property covers because no document says what should happen (the overruns of fixed tables, SIGPIPE, a packet
that is not ICMP); the conversions of `server.c:171-219` against exact decimal arithmetic.
