----------------------------- MODULE RestClient -----------------------------
(* The REST client: one session typed at the keyboard, one connection and  *)
(* one answer per command, and the server as far as the client relies on   *)
(* it.  A command sends its request and, when receive_from_server() is     *)
(* done with the answer, draws from the text of the answer what it keeps.  *)
EXTENDS HttpReceive

CONSTANTS
    Users, NoUser,      \* the accounts that are typed, with their passwords
    Accounts,           \* those the server knows before the client starts
    BOOKS,              \* how many books fit into books[50]
    Framings,           \* how the server ends an answer: "length", "close", "open"
    MaxIssued,          \* bound: cookies and tokens the server issues
    MaxBooks,           \* bound: books ever added
    MaxFaults           \* bound: how many different things go wrong

ASSUME SessionOK ==
    /\ NoUser \notin Users
    /\ Accounts \subseteq Users
    /\ BOOKS \in Nat
    /\ Framings \subseteq {"length", "close", "open"}
    /\ MaxIssued \in Nat
    /\ MaxBooks \in Nat
    /\ MaxFaults \in Nat

VARIABLES
    client,             \* the variables of main() and the command under way
    server,             \* external: [registered, sessions, tokens, owner, library, issued]
    happened            \* what went wrong so far, for the properties

vars == <<socket, reader, client, server, happened>>

Uninitialised == -1     \* current_JWT and the cookie before they are first set
Empty == 0              \* the empty string
Partial == -2           \* what is left of a cookie, a token or a list that was cut off
None == -3              \* NULL, for a part that a request does not have

Ids == 1 .. MaxBooks
Garbage == Symbol("garbage", {})
Password == Symbol("password", {})
Nothing == Symbol("nothing", {})

----------------------------------------------------------------------------
(* requests.c: the parts of a request.                                     *)

Register == "/api/v1/tema/auth/register"
Login == "/api/v1/tema/auth/login"
Logout == "/api/v1/tema/auth/logout"
Access == "/api/v1/tema/library/access"
Books == "/api/v1/tema/library/books"

compute_get_request(url, id, cookies, jwt) ==
    [method |-> "GET", url |-> url, id |-> id, cookies |-> cookies, jwt |-> jwt]

compute_delete_request(url, id, jwt) ==
    [compute_get_request(url, id, {}, jwt) EXCEPT !.method = "DELETE"]

compute_post_request(url, body, jwt) ==
    [method |-> "POST", url |-> url, body |-> body, jwt |-> jwt]

NewProcess ==
    [at |-> "prompt",
     current_cookie_session |-> Uninitialised, current_JWT |-> Uninitialised,
     isSomeoneLoggedIn |-> 0, isSomeoneInLibrary |-> 0,
     books |-> Garbage, shown |-> Nothing, told |-> 0]

----------------------------------------------------------------------------
(* The server (external), as the client's reading of its answers fixes it. *)

Answer(status, cookies, body, framing) ==
    <<Symbol("status", {status})>>
        \o cookies
        \o (IF framing = "length" THEN <<Symbol("length", {Len(body)})>> ELSE <<>>)
        \o <<Symbol("crlf", {}), Symbol("crlf", {})>>
        \o body

Json(key, val) == <<Symbol("{", {}), Symbol(key, {}), Symbol("value", val), Symbol("}", {})>>
Refusal == [status |-> 400, cookies |-> <<>>, body |-> Json("error", {400})]
Success == [status |-> 200, cookies |-> <<>>, body |-> <<>>]

\* The account a cookie or a token stands for, NoUser when it is not valid.
Bearer(k, valid) == IF k \in valid THEN server.owner[k] ELSE NoUser
SessionOf(request) == Bearer(TheOnly(request.cookies), server.sessions)
TokenOf(request) == Bearer(request.jwt, server.tokens)

Issue(user) == [server EXCEPT !.owner = Append(@, user)]
New == Len(server.owner) + 1

\* What the server does with a request: its new state and its answer.
Handled(request) ==
    CASE request.url = Register ->
            IF request.body \in server.registered THEN <<server, Refusal>>
            ELSE <<[server EXCEPT !.registered = @ \cup {request.body}],
                   [Success EXCEPT !.status = 201]>>
      [] request.url = Login ->
            IF request.body \notin server.registered THEN <<server, Refusal>>
            ELSE <<[Issue(request.body) EXCEPT !.sessions = @ \cup {New}],
                   [Success EXCEPT !.cookies = <<Symbol("cookie", {New})>>]>>
      [] request.url = Access ->
            IF SessionOf(request) = NoUser THEN <<server, Refusal>>
            ELSE <<[Issue(SessionOf(request)) EXCEPT !.tokens = @ \cup {New}],
                   [Success EXCEPT !.body = Json("token", {New})]>>
      [] request.url = Logout ->
            IF SessionOf(request) = NoUser THEN <<server, Refusal>>
            ELSE <<[server EXCEPT !.sessions = @ \ request.cookies], Success>>
      [] request.url = Books ->
            LET user == TokenOf(request)
            IN  IF user = NoUser THEN <<server, Refusal>>
                ELSE CASE request.method = "POST" ->
                            <<[server EXCEPT !.library[user] = @ \cup {server.issued + 1},
                                             !.issued = @ + 1], Success>>
                       [] request.method = "GET" /\ request.id = None ->
                            <<server, [Success EXCEPT
                                 !.body = <<Symbol("list", server.library[user])>>]>>
                       [] request.method # "POST" /\ request.id # None ->
                            IF request.id \notin server.library[user] THEN <<server, Refusal>>
                            ELSE IF request.method = "GET" THEN <<server, Success>>
                            ELSE <<[server EXCEPT !.library[user] = @ \ {request.id}], Success>>

----------------------------------------------------------------------------
(* Sending a command: open_connection(), compute_..., send_to_server().    *)

AtPrompt == client.at = "prompt"

Send(command, request) ==
    /\ AtPrompt
    /\ Len(server.owner) < MaxIssued \/ command \notin {"login", "enter_library"}
    /\ client' = [client EXCEPT !.at = command, !.shown = Nothing]
    /\ server' = Handled(request)[1]
    /\ LET answer == Handled(request)[2]
       IN  \E framing \in Framings :
              socket' = Sent(Answer(answer.status, answer.cookies, answer.body, framing),
                             framing = "close")
    /\ reader' = Reading
    /\ UNCHANGED happened

RegisterUser ==
    \E u \in Users :
       Send("register", compute_post_request(Register, u, None))

\* mutant: a second login while somebody is logged in
LoginGuard_Dropped == TRUE

LoginGuard == client.isSomeoneLoggedIn = 0

LoginUser ==
    /\ LoginGuard
    /\ \E u \in Users :
          Send("login", compute_post_request(Login, u, None))

EnterLibrary ==
    /\ client.isSomeoneLoggedIn = 1
    /\ Send("enter_library",
            compute_get_request(Access, None, {client.current_cookie_session}, None))

InLibrary == client.isSomeoneInLibrary = 1

GetBooks ==
    /\ InLibrary
    /\ Send("get_books",
            compute_get_request(Books, None, {client.current_cookie_session},
                                client.current_JWT))

GetBook ==
    /\ InLibrary
    /\ \E id \in Ids :
          Send("get_book", compute_get_request(Books, id, {}, client.current_JWT))

AddBook ==
    /\ InLibrary
    /\ server.issued < MaxBooks
    /\ Send("add_book", compute_post_request(Books, "book", client.current_JWT))

DeleteBook ==
    /\ InLibrary
    /\ \E id \in Ids :
          Send("delete_book", compute_delete_request(Books, id, client.current_JWT))

\* logout asks no question: it may send an uninitialised cookie.
LogoutUser ==
    Send("logout", compute_get_request(Logout, None, {client.current_cookie_session}, None))

----------------------------------------------------------------------------
(* What a command does with the answer, and close_connection().            *)

Where(is) == {i \in 1 .. Len(reader.buffer) : reader.buffer[i].is = is}
Has(is) == Where(is) # {}
ValOf(is) == reader.buffer[TheOnly(Where(is))].val
Status(code) == Has("status") /\ ValOf("status") = {code}

Done(command) == client.at = command /\ reader.at = "done"

Return(new) ==
    /\ client' = [new EXCEPT !.at = "prompt"]
    /\ reader' = Idle
    /\ socket' = Closed
    /\ UNCHANGED <<server, happened>>

\* The process ends; what it knew is gone.
Stop(how) ==
    /\ client' = [NewProcess EXCEPT !.at = how]
    /\ reader' = Idle
    /\ socket' = Closed
    /\ UNCHANGED server

\* password[] occupies the bytes that are books[] in get_books, here and in
\* LoggedIn.  A line with "connect" is taken for the cookie, whole or not.
Registered ==
    /\ Done("register")
    /\ Return([client EXCEPT !.books = Password])

LoggedIn ==
    /\ Done("login")
    /\ Return([client EXCEPT
                 !.books = Password,
                 !.current_cookie_session = IF Has("cookie") THEN TheOnly(ValOf("cookie")) ELSE @,
                 !.isSomeoneLoggedIn = IF Has("cookie") THEN 1 ELSE @])

\* mutant: the key of the answer is not looked at
Entered_AnyKey ==
    /\ Done("enter_library")
    /\ \/ /\ ~Has("{")
          /\ Return(client)
       \/ /\ Has("{") /\ ~Has("value")
          /\ Stop("crashed") /\ UNCHANGED happened
       \/ /\ Has("{") /\ Has("value")
          /\ Return([client EXCEPT !.current_JWT = TheOnly(ValOf("value")),
                                  !.isSomeoneInLibrary = 1])

\* The text behind the third quote is the token, whole or not; strtok()
\* returns NULL when the answer ends before it.
Entered ==
    /\ Done("enter_library")
    /\ \/ /\ ~Has("{") \/ Has("error")
          /\ Return(client)
       \/ /\ Has("{") /\ ~Has("error") /\ ~Has("value")
          /\ Stop("crashed") /\ UNCHANGED happened
       \/ /\ Has("{") /\ ~Has("error") /\ Has("value")
          /\ Return([client EXCEPT !.current_JWT = TheOnly(ValOf("value")),
                                  !.isSomeoneInLibrary = 1])

\* Without a list in the answer, books[] is shown as it is: uninitialised
\* text that json_parse_string() takes or, and puts(NULL) crashes, refuses.
\* It refuses what is left of a list that was cut, which may be too long too.
Listed ==
    /\ Done("get_books")
    /\ LET books == IF Has("list") THEN Symbol("list", ValOf("list")) ELSE client.books
           torn == books.val = {Partial}
       IN  \/ /\ ~torn
              /\ books.is = "list" => Cardinality(books.val) <= BOOKS
              /\ Return([client EXCEPT !.books = books, !.shown = books])
           \/ /\ books.is # "list" \/ torn
              /\ Stop("crashed") /\ UNCHANGED happened
           \/ /\ books.is = "list" /\ (Cardinality(books.val) > BOOKS \/ torn)
              /\ Stop("undefined") /\ UNCHANGED happened

GotBook == Done("get_book") /\ Return(client)

\* mutant: any answer is taken for a success
AddedBook_AnyStatus ==
    /\ Done("add_book")
    /\ Return([client EXCEPT !.told = IF client.current_JWT # Empty THEN @ + 1 ELSE @])

AddedBook ==
    /\ Done("add_book")
    /\ Return([client EXCEPT
                 !.told = IF Status(200) /\ client.current_JWT # Empty THEN @ + 1 ELSE @])

DeletedBook == Done("delete_book") /\ Return(client)

\* mutant: the library is not left
LoggedOut_InLibrary(c) ==
    [c EXCEPT !.current_cookie_session = Empty, !.isSomeoneLoggedIn = 0]

\* mutant: somebody stays logged in
LoggedOut_LoggedIn(c) ==
    [c EXCEPT !.current_JWT = Empty, !.current_cookie_session = Empty,
              !.isSomeoneInLibrary = 0]

LoggedOut(c) ==
    [c EXCEPT !.current_JWT = Empty, !.current_cookie_session = Empty,
              !.isSomeoneLoggedIn = 0, !.isSomeoneInLibrary = 0]

LogoutDone ==
    /\ Done("logout")
    /\ Return(IF Status(200) THEN LoggedOut(client) ELSE client)

Exit ==
    /\ AtPrompt
    /\ Stop("exited")
    /\ UNCHANGED happened

Process == Registered \/ LoggedIn \/ Entered \/ Listed \/ GotBook \/ AddedBook
             \/ DeletedBook \/ LogoutDone

----------------------------------------------------------------------------
(* What the client does not decide.  At most MaxFaults faults, once each.  *)

Fault(f) ==
    /\ f \notin happened
    /\ Cardinality(happened) < MaxFaults
    /\ happened' = happened \cup {f}

Waiting == reader.at \in {"header", "body"}

\* error("ERROR connecting"): the client exits, with status 0.
ConnectFails ==
    /\ AtPrompt
    /\ Fault("refused")
    /\ Stop("exited")

\* error("ERROR reading response from socket").
ReadFails ==
    /\ Waiting
    /\ Fault("reset")
    /\ Stop("exited")

\* What may arrive of the symbols s: the first of them, and the beginning of
\* the next where the client takes a beginning for the whole.
Torn(x) == [x EXCEPT !.val = {Partial}]
Cuts(s) ==
    {SubSeq(s, 1, n) : n \in 0 .. Len(s)}
      \cup {Append(SubSeq(s, 1, n - 1), Torn(s[n])) :
               n \in {i \in 1 .. Len(s) : s[i].is \in {"cookie", "value", "list"}}}

\* The server stops in the middle of the answer: the rest is never sent.
AnswerCut ==
    /\ Waiting
    /\ Fault("cut")
    /\ \E rest \in Cuts(socket.incoming) :
          socket' = [incoming |-> rest, closing |-> TRUE, answer |-> reader.buffer \o rest]
    /\ UNCHANGED <<reader, client, server>>

\* The server forgets its sessions or its tokens.
Expire ==
    /\ Fault("expired")
    /\ \/ server' = [server EXCEPT !.sessions = {}]
       \/ server' = [server EXCEPT !.tokens = {}]
    /\ UNCHANGED <<socket, reader, client>>

Init ==
    /\ socket = Closed
    /\ reader = Idle
    /\ client = NewProcess
    /\ server = [registered |-> Accounts, sessions |-> {}, tokens |-> {}, owner |-> <<>>,
                 library |-> [u \in Users |-> {}], issued |-> 0]
    /\ happened = {}

\* help, a refused command and any other line print and change nothing.
Reads == Receive /\ UNCHANGED <<client, server, happened>>

Next ==
    \/ RegisterUser \/ LoginUser \/ EnterLibrary \/ GetBooks \/ GetBook
    \/ AddBook \/ DeleteBook \/ LogoutUser \/ Exit
    \/ Reads
    \/ Process
    \/ ConnectFails \/ ReadFails \/ AnswerCut \/ Expire

Spec == Init /\ [][Next]_vars

\* What has been sent arrives, and read() returns it.
FairSpec == Spec /\ WF_vars(Reads)
=============================================================================
