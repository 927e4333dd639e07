--------------------------- MODULE RestProperties ---------------------------
(* What the REST client promises of a session.                             *)
EXTENDS RestClient

Commands == {"register", "login", "enter_library", "get_books", "get_book",
             "add_book", "delete_book", "logout"}
Faults == {"refused", "reset", "cut", "expired"}
BookTexts == {Garbage, Password, Nothing} \cup {Symbol("list", s) : s \in SUBSET Ids}
Issued == 1 .. Len(server.owner)

SocketType == [incoming : Seq(Symbols), closing : BOOLEAN, answer : Seq(Symbols)]
ReaderType == [at : {"idle", "header", "body", "done"}, buffer : Seq(Symbols),
               header_end : Int, content_length : Nat]

ClientType ==
    [at : Commands \cup {"prompt", "exited", "crashed", "undefined"},
     current_cookie_session : {Uninitialised, Empty, Partial} \cup Nat,
     current_JWT : {Uninitialised, Empty, Partial} \cup Nat,
     isSomeoneLoggedIn : {0, 1}, isSomeoneInLibrary : {0, 1},
     books : BookTexts \ {Nothing}, shown : BookTexts, told : Nat]

ServerType ==
    [registered : SUBSET Users, sessions : SUBSET Nat, tokens : SUBSET Nat,
     owner : Seq(Users), library : [Users -> SUBSET Ids], issued : 0 .. MaxBooks]

\* The variables of main() (client.c:15-23), of receive_from_server()
\* (helpers.c:75-78) and of the server keep to their types; the cookie and the
\* token that the client holds were issued by the server, or are the beginning
\* of one in an answer that was cut, and are no other part of an answer.
TypeOK ==
    /\ socket \in SocketType
    /\ reader \in ReaderType
    /\ client \in ClientType
    /\ client.current_cookie_session \in {Uninitialised, Empty, Partial} \cup Issued
    /\ client.current_JWT \in {Uninitialised, Empty, Partial} \cup Issued
    /\ server \in ServerType
    /\ server.sessions \subseteq Issued
    /\ server.tokens \subseteq Issued
    /\ happened \subseteq Faults

\* However the answer is split over reads, and whether it is ended by its
\* Content-Length, by the close or by a server that stops in the middle of it,
\* receive_from_server() returns all that was sent of it and nothing else
\* (helpers.c:80-126).
WholeAnswer == reader.at = "done" => reader.buffer = socket.answer

\* In the library, the cookie is whole, and so is the token or it is the
\* beginning of one; a whole token belongs to the account whose cookie is
\* held, after any logins, refused, answered or cut, in between
\* (client.c:140-166, 196-217, 402-408).
OwnToken ==
    client.isSomeoneInLibrary = 1 =>
        /\ client.current_cookie_session \in Issued
        /\ client.current_JWT \in Issued \cup {Partial}
        /\ client.current_JWT # Partial =>
              server.owner[client.current_JWT] = server.owner[client.current_cookie_session]

\* Back at the prompt, the server holds no session but that of the cookie the
\* client says it is logged in with, even when sessions expire; it holds that
\* one while nothing goes wrong (client.c:101-105, 163-166, 402-408).
Agreed ==
    LET held == IF client.isSomeoneLoggedIn = 1 THEN {client.current_cookie_session} ELSE {}
    IN  AtPrompt => /\ happened \subseteq {"expired"} => server.sessions \subseteq held
                    /\ happened = {} => held \subseteq server.sessions

\* While nothing goes wrong, the list that get_books prints is the library
\* of the account that is logged in (client.c:221-261).
OwnBooks ==
    client.shown # Nothing /\ happened = {} =>
        /\ client.current_cookie_session \in Issued
        /\ client.shown =
              Symbol("list", server.library[server.owner[client.current_cookie_session]])

\* "The book was successfully added" is said of books the server has stored,
\* of every one when nothing goes wrong, of no other whatever does
\* (client.c:348-351).
Truthful ==
    /\ client.told <= server.issued
    /\ AtPrompt /\ happened = {} => client.told = server.issued

\* An answer that announces its length, or is followed by the close, ends the
\* wait of receive_from_server(), cut or whole (helpers.c:80-124).
Returns == Waiting ~> ~Waiting

\* get_books prints a list of books: "Lista de carti inregistrate pe contul
\* curent" (client.c:221), not what its array held before.
ShowsBooks == "cut" \notin happened => client.shown.is \in {"nothing", "list"}
=============================================================================
