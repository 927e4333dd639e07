-------------------------- MODULE RestSessionProofs --------------------------
(* Proofs about whole sessions of RestClient: the client's flags agree with *)
(* the server's sessions, expired or not; while nothing goes wrong the list *)
(* it shows is the one of its account; what it says of added books is true  *)
(* whatever happens.                                                        *)
EXTENDS RestProofs

----------------------------------------------------------------------------
(* The inductive invariant: what the answer under way says, and what the   *)
(* server has done for it.                                                 *)

\* The values of the symbols of one kind in an answer.
Part(a, is) == {a[i].val : i \in {j \in 1 .. Len(a) : a[j].is = is}}
Said(is) == Part(socket.answer, is)

Held(c) == IF c.isSomeoneLoggedIn = 1 THEN {c.current_cookie_session} ELSE {}
Working == client.at \in Commands \cup {"prompt"}

\* Every answer has one status line, unless it was cut before it.
OneStatus ==
    client.at \in Commands =>
        \E code \in Nat :
           /\ Said("status") \subseteq {{code}}
           /\ "cut" \notin happened => Said("status") = {{code}}

\* The server has no other sessions, and these while nothing goes wrong.
Matches(held) ==
    /\ server.sessions \subseteq held
    /\ happened = {} => held \subseteq server.sessions

\* The sessions of the server are among those the client holds, but for the
\* answer that is under way to a login or a logout.
SessionsKnown ==
    Working /\ happened \subseteq {"expired"} =>
        /\ client.at = "login" =>
              /\ Said("cookie") = {} \/ \E k \in Issued : Said("cookie") = {{k}}
              /\ Matches(UNION Said("cookie"))
        /\ client.at = "logout" =>
              Matches(IF Said("status") = {{200}} THEN {} ELSE Held(client))
        /\ client.at \notin {"login", "logout"} => Matches(Held(client))

\* The token that is held, or is about to be, is valid.
TokensValid ==
    Working /\ happened = {} =>
        /\ InLibrary => client.current_JWT \in server.tokens
        /\ client.at = "enter_library" /\ Said("error") = {} =>
              UNION Said("value") \subseteq server.tokens

\* The client is behind the server by the book whose answer is under way.
Counted ==
    /\ client.told <= server.issued
    /\ client.at = "add_book" =>
          /\ InLibrary
          /\ Said("status") = {{200}} => client.told < server.issued
    /\ Working /\ happened = {} =>
          client.told + (IF client.at = "add_book" /\ Said("status") = {{200}} THEN 1 ELSE 0)
             = server.issued

Library == server.library[server.owner[client.current_cookie_session]]

\* An answer to get_books is the library of the cookie that is held.
ListKnown ==
    /\ client.at \in Commands => client.shown = Nothing
    /\ client.at = "get_books" /\ happened = {} => InLibrary /\ Said("list") = {Library}

SInv == OneStatus /\ SessionsKnown /\ TokensValid /\ Counted /\ ListKnown /\ OwnBooks

----------------------------------------------------------------------------
(* What the parts of an answer say.                                        *)

LEMMA PartNone == ASSUME NEW is PROVE Part(<<>>, is) = {}
  BY DEF Part

LEMMA PartOne ==
    ASSUME NEW x \in Symbols, NEW is
    PROVE  /\ x.is = is => Part(<<x>>, is) = {x.val}
           /\ x.is # is => Part(<<x>>, is) = {}
<1>1. Len(<<x>>) = 1 /\ <<x>>[1] = x
  OBVIOUS
<1> DEFINE a == <<x>>
<1> HIDE DEF a
<1>2. Len(a) = 1 /\ a[1] = x
  BY <1>1 DEF a
<1>3. 1 .. Len(a) = {1}
  BY <1>2
<1>4. Part(a, is) = {a[i].val : i \in {j \in {1} : a[j].is = is}}
  BY <1>3 DEF Part
<1>5. x.is = is => Part(a, is) = {x.val}
  BY <1>2, <1>4
<1>6. x.is # is => Part(a, is) = {}
  BY <1>2, <1>4
<1> QED
  BY <1>5, <1>6 DEF a

LEMMA PartConcat ==
    ASSUME NEW u \in Seq(Symbols), NEW v \in Seq(Symbols), NEW is
    PROVE  Part(u \o v, is) = Part(u, is) \cup Part(v, is)
<1> DEFINE w == u \o v
<1>1. /\ Len(w) = Len(u) + Len(v)
      /\ \A i \in 1 .. Len(u) : w[i] = u[i]
      /\ \A i \in 1 .. Len(v) : w[Len(u) + i] = v[i]
  BY Concat
<1>2. Len(u) \in Nat /\ Len(v) \in Nat
  OBVIOUS
<1> HIDE DEF w
<1>3. ASSUME NEW i \in 1 .. Len(w)
      PROVE  i \in 1 .. Len(u) \/ \E k \in 1 .. Len(v) : i = Len(u) + k
  <2>1. CASE i <= Len(u)
    BY <1>1, <1>2, <2>1
  <2>2. CASE ~(i <= Len(u))
    <3>1. i - Len(u) \in 1 .. Len(v) /\ i = Len(u) + (i - Len(u))
      BY <1>1, <1>2, <2>2
    <3> QED
      BY <3>1
  <2> QED
    BY <2>1, <2>2
<1>4. Part(w, is) \subseteq Part(u, is) \cup Part(v, is)
  <2> SUFFICES ASSUME NEW i \in 1 .. Len(w), w[i].is = is
               PROVE  w[i].val \in Part(u, is) \cup Part(v, is)
    BY DEF Part
  <2>1. CASE i \in 1 .. Len(u)
    BY <1>1, <2>1 DEF Part
  <2>2. ASSUME NEW k \in 1 .. Len(v), i = Len(u) + k
        PROVE  w[i].val \in Part(v, is)
    BY <1>1, <2>2 DEF Part
  <2> QED
    BY <1>3, <2>1, <2>2
<1>5. \A i \in 1 .. Len(u) : i \in 1 .. Len(w)
  BY <1>1, <1>2
<1>6. \A i \in 1 .. Len(v) : Len(u) + i \in 1 .. Len(w)
  BY <1>1, <1>2
<1>7. Part(u, is) \subseteq Part(w, is)
  BY <1>1, <1>5 DEF Part
<1>8. Part(v, is) \subseteq Part(w, is)
  BY <1>1, <1>6 DEF Part
<1> QED
  BY <1>4, <1>7, <1>8 DEF w

LEMMA PartJson ==
    ASSUME NEW key \in {"error", "token"}, NEW val \in SUBSET Int
    PROVE  /\ Part(Json(key, val), "value") = {val}
           /\ key = "error" => Part(Json(key, val), "error") # {}
           /\ key = "token" => Part(Json(key, val), "error") = {}
           /\ \A is \in {"status", "cookie", "list"} : Part(Json(key, val), is) = {}
<1> DEFINE a == Json(key, val)
<1>1. JsonParts(a, key, val)
  BY JsonShape
<1> HIDE DEF a
<1>2. 1 .. Len(a) = {1, 2, 3, 4}
  <2>1. Len(a) = 4
    BY <1>1 DEF JsonParts
  <2>2. 1 .. 4 = {1, 2, 3, 4}
    OBVIOUS
  <2> QED
    BY <2>1, <2>2
<1>3. \A is : Part(a, is) = {a[i].val : i \in {j \in {1, 2, 3, 4} : a[j].is = is}}
  BY <1>2 DEF Part
<1>4. /\ a[1].is = "{" /\ a[2].is = key /\ a[3].is = "value" /\ a[4].is = "}" /\ a[3].val = val
  BY <1>1 DEF JsonParts
<1>5. Part(a, "value") = {val}
  <2>1. {j \in {1, 2, 3, 4} : a[j].is = "value"} = {3}
    BY <1>4
  <2>2. Part(a, "value") = {a[i].val : i \in {3}}
    BY <1>3, <2>1
  <2> QED
    BY <1>4, <2>2
<1>6. key = "error" => Part(a, "error") # {}
  <2>1. key = "error" => {j \in {1, 2, 3, 4} : a[j].is = "error"} = {2}
    BY <1>4
  <2>2. key = "error" => Part(a, "error") = {a[i].val : i \in {2}}
    BY <1>3, <2>1
  <2> QED
    BY <2>2
<1>7. key = "token" => Part(a, "error") = {}
  <2>1. key = "token" => {j \in {1, 2, 3, 4} : a[j].is = "error"} = {}
    BY <1>4
  <2> QED
    BY <1>3, <2>1
<1>8. \A is \in {"status", "cookie", "list"} : Part(a, is) = {}
  <2>1. \A is \in {"status", "cookie", "list"} : {j \in {1, 2, 3, 4} : a[j].is = is} = {}
    BY <1>4
  <2> QED
    BY <1>3, <2>1
<1> QED
  BY <1>5, <1>6, <1>7, <1>8 DEF a

\* What an answer of the server tells of the kind is.
Tells(answer, is) ==
    CASE is = "status" -> {{answer.status}}
      [] is = "cookie" -> Part(answer.cookies, "cookie")
      [] OTHER -> Part(answer.body, is)

Telling == {"status", "cookie", "error", "value", "list"}

LEMMA CookiesTold ==
    ASSUME NEW owner \in Seq(Users), NEW cookies, CookiesOK(cookies, owner)
    PROVE  /\ cookies \in Seq(Symbols)
           /\ \A is \in Telling \ {"cookie"} : Part(cookies, is) = {}
<1>1. CASE cookies = <<>>
  BY <1>1, PartNone
<1>2. ASSUME NEW k \in IssuedTo(owner), cookies = <<Symbol("cookie", {k})>>
      PROVE  /\ cookies \in Seq(Symbols)
             /\ \A is \in Telling \ {"cookie"} : Part(cookies, is) = {}
  <2>1. k \in Nat
    BY DEF IssuedTo
  <2> DEFINE x == Symbol("cookie", {k})
  <2>2. x \in Symbols /\ x.is = "cookie"
    BY <2>1, KindNames, NumberType
  <2>3. cookies = <<x>>
    BY <1>2
  <2> HIDE DEF x
  <2>4. <<x>> \in Seq(Symbols)
    BY <2>2
  <2>5. \A is \in Telling \ {"cookie"} : Part(<<x>>, is) = {}
    BY <2>2, PartOne
  <2> QED
    BY <2>3, <2>4, <2>5
<1>3. <<>> \in Seq(Symbols)
  OBVIOUS
<1> QED
  BY <1>1, <1>2, <1>3 DEF CookiesOK

LEMMA BodyTold ==
    ASSUME NEW owner \in Seq(Users), NEW body, BodyOK(body, owner)
    PROVE  /\ body \in Seq(Symbols) /\ Len(body) \in Nat
           /\ \A is \in {"status", "cookie"} : Part(body, is) = {}
<1>1. body \in Seq(Symbols)
  BY BodyShape DEF BodyParts
<1>2. CASE body = <<>>
  BY <1>2, PartNone
<1>3. ASSUME body = Json("error", {400})
      PROVE  \A is \in {"status", "cookie"} : Part(body, is) = {}
  <2>1. {400} \in SUBSET Int
    OBVIOUS
  <2> QED
    BY <1>3, <2>1, PartJson
<1>4. ASSUME NEW k \in IssuedTo(owner), body = Json("token", {k})
      PROVE  \A is \in {"status", "cookie"} : Part(body, is) = {}
  <2>1. {k} \in SUBSET Int
    BY DEF IssuedTo
  <2> QED
    BY <1>4, <2>1, PartJson
<1>5. ASSUME NEW list \in SUBSET Ids, body = <<Symbol("list", list)>>
      PROVE  \A is \in {"status", "cookie"} : Part(body, is) = {}
  <2>1. list \in SUBSET Int
    BY DEF Ids
  <2> DEFINE x == Symbol("list", list)
  <2>2. x \in Symbols /\ x.is = "list"
    BY <2>1, KindNames, SymbolType
  <2>3. body = <<x>>
    BY <1>5
  <2> HIDE DEF x
  <2>4. \A is \in {"status", "cookie"} : Part(<<x>>, is) = {}
    BY <2>2, PartOne
  <2> QED
    BY <2>3, <2>4
<1>6. \A is \in {"status", "cookie"} : Part(body, is) = {}
  BY <1>2, <1>3, <1>4, <1>5 DEF BodyOK
<1> QED
  BY <1>1, <1>6

LEMMA AnswerTold ==
    ASSUME NEW owner \in Seq(Users), NEW answer, answer.status \in Nat,
           CookiesOK(answer.cookies, owner), BodyOK(answer.body, owner), NEW framing,
           NEW is \in Telling
    PROVE  Part(Answer(answer.status, answer.cookies, answer.body, framing), is)
              = Tells(answer, is)
<1> DEFINE status == Symbol("status", {answer.status})
           length == Symbol("length", {Len(answer.body)})
           crlf == Symbol("crlf", {})
           cookies == answer.cookies
           body == answer.body
           announced == IF framing = "length" THEN <<length>> ELSE <<>>
           blank == <<crlf, crlf>>
           a == Answer(answer.status, answer.cookies, answer.body, framing)
<1>1. a = (((<<status>> \o cookies) \o announced) \o blank) \o body
  BY DEF Answer
<1>2. body \in Seq(Symbols) /\ Len(body) \in Nat
  BY BodyTold
<1>3. status \in Symbols /\ status.is = "status" /\ status.val = {answer.status}
  BY KindNames, NumberType
<1>4. length \in Symbols /\ length.is = "length"
  BY <1>2, KindNames, NumberType
<1>5. crlf \in Symbols /\ crlf.is = "crlf"
  BY KindNames, SymbolType
<1>6. cookies \in Seq(Symbols)
  BY CookiesTold
<1> HIDE DEF status, length, crlf, cookies, body, a
<1>is_. is \notin {"length", "crlf"}
  BY DEF Telling
<1>7. announced \in Seq(Symbols) /\ Part(announced, is) = {}
  <2>1. <<length>> \in Seq(Symbols) /\ Part(<<length>>, is) = {}
    <3>1. <<length>> \in Seq(Symbols)
      BY <1>4
    <3>2. length.is # is
      BY <1>4, <1>is_
    <3> QED
      BY <1>4, <3>1, <3>2, PartOne
  <2>2. <<>> \in Seq(Symbols) /\ Part(<<>>, is) = {}
    BY PartNone
  <2> QED
    BY <2>1, <2>2
<1>8. blank \in Seq(Symbols) /\ Part(blank, is) = {}
  <2>1. blank = <<crlf>> \o <<crlf>> /\ blank \in Seq(Symbols)
    BY <1>5
  <2>2. <<crlf>> \in Seq(Symbols)
    BY <1>5
  <2>3. crlf.is # is
    BY <1>5, <1>is_
  <2>4. Part(<<crlf>>, is) = {}
    BY <1>5, <2>3, PartOne
  <2> DEFINE line == <<crlf>>
  <2>5. line \in Seq(Symbols) /\ Part(line, is) = {} /\ blank = line \o line
    BY <2>1, <2>2, <2>4
  <2> HIDE DEF line, blank
  <2>6. Part(line \o line, is) = Part(line, is) \cup Part(line, is)
    BY <2>5, PartConcat
  <2> QED
    BY <2>1, <2>5, <2>6
<1> HIDE DEF announced, blank
<1>9. /\ <<status>> \in Seq(Symbols)
      /\ is = "status" => Part(<<status>>, is) = {{answer.status}}
      /\ is # "status" => Part(<<status>>, is) = {}
  <2>1. <<status>> \in Seq(Symbols)
    BY <1>3
  <2> QED
    BY <1>3, <2>1, PartOne
<1> DEFINE s == <<status>>
<1>10. s \in Seq(Symbols)
  BY <1>9
<1> HIDE DEF s
<1>11. /\ s \o cookies \in Seq(Symbols)
       /\ Part(s \o cookies, is) = Part(s, is) \cup Part(cookies, is)
  BY <1>6, <1>10, Concat, PartConcat
<1> DEFINE t == s \o cookies
<1>12. t \in Seq(Symbols)
  BY <1>11
<1> HIDE DEF t
<1>13. /\ t \o announced \in Seq(Symbols)
       /\ Part(t \o announced, is) = Part(t, is) \cup Part(announced, is)
  BY <1>7, <1>12, Concat, PartConcat
<1> DEFINE u == t \o announced
<1>14. u \in Seq(Symbols)
  BY <1>13
<1> HIDE DEF u
<1>15. /\ u \o blank \in Seq(Symbols)
       /\ Part(u \o blank, is) = Part(u, is) \cup Part(blank, is)
  BY <1>8, <1>14, Concat, PartConcat
<1> DEFINE v == u \o blank
<1>16. v \in Seq(Symbols)
  BY <1>15
<1> HIDE DEF v
<1>17. Part(v \o body, is) = Part(v, is) \cup Part(body, is)
  BY <1>2, <1>16, PartConcat
<1>18. a = v \o body
  BY <1>1 DEF v, u, t, s
<1>19. Part(a, is) = (Part(s, is) \cup Part(cookies, is)) \cup Part(body, is)
  <2>1. Part(u, is) = Part(t, is)
    BY <1>7, <1>13 DEF u
  <2>2. Part(v, is) = Part(u, is)
    BY <1>8, <1>15 DEF v
  <2>3. Part(t, is) = Part(s, is) \cup Part(cookies, is)
    BY <1>11 DEF t
  <2> QED
    BY <1>17, <1>18, <2>1, <2>2, <2>3
<1>20. /\ is = "status" => Part(s, is) = {{answer.status}}
       /\ is # "status" => Part(s, is) = {}
  BY <1>9 DEF s
<1>21. is # "cookie" => Part(cookies, is) = {}
  BY CookiesTold DEF cookies
<1>22. is \in {"status", "cookie"} => Part(body, is) = {}
  BY BodyTold DEF body
<1> QED
  BY <1>19, <1>20, <1>21, <1>22 DEF a, cookies, body, Tells, Telling

----------------------------------------------------------------------------
(* Sending a command.                                                      *)

\* What every Send leaves alone, and what its answer says.
LEMMA Sending ==
    ASSUME IInv, NEW command \in Commands, NEW request, Send(command, request),
           Serves(Handled(request)[1], Handled(request)[2])
    PROVE  /\ client.at = "prompt" /\ client'.at = command /\ client'.shown = Nothing
           /\ client'.current_cookie_session = client.current_cookie_session
           /\ client'.current_JWT = client.current_JWT
           /\ client'.isSomeoneLoggedIn = client.isSomeoneLoggedIn
           /\ client'.isSomeoneInLibrary = client.isSomeoneInLibrary
           /\ client'.told = client.told
           /\ server' = Handled(request)[1] /\ happened' = happened
           /\ Handled(request)[2].status \in Nat
           /\ \A is \in Telling : Said(is)' = Tells(Handled(request)[2], is)
<1> DEFINE s == Handled(request)[1]
           answer == Handled(request)[2]
<1>1. client \in ClientType
  BY DEF IInv, TypeOK
<1>2. /\ client.at = "prompt"
      /\ client' = [client EXCEPT !.at = command, !.shown = Nothing]
      /\ server' = s /\ happened' = happened
  BY DEF Send, AtPrompt
<1>3. PICK framing \in Framings :
         socket' = Sent(Answer(answer.status, answer.cookies, answer.body, framing),
                        framing = "close")
  BY DEF Send
<1>4. Serves(s, answer)
  OBVIOUS
<1> HIDE DEF s, answer
<1>5. /\ s.owner \in Seq(Users) /\ answer.status \in Nat
      /\ CookiesOK(answer.cookies, s.owner) /\ BodyOK(answer.body, s.owner)
  BY <1>4 DEF Serves, ServerType
<1>6. socket'.answer = Answer(answer.status, answer.cookies, answer.body, framing)
  BY <1>3 DEF Sent
<1>7. \A is \in Telling : Part(socket'.answer, is) = Tells(answer, is)
  BY <1>5, <1>6, AnswerTold
<1>8. \A is \in Telling : Said(is)' = Tells(answer, is)
  BY <1>7 DEF Said
<1>9. /\ client'.at = command /\ client'.shown = Nothing
      /\ client'.current_cookie_session = client.current_cookie_session
      /\ client'.current_JWT = client.current_JWT
      /\ client'.isSomeoneLoggedIn = client.isSomeoneLoggedIn
      /\ client'.isSomeoneInLibrary = client.isSomeoneInLibrary
      /\ client'.told = client.told
  BY <1>1, <1>2 DEF ClientType
<1> QED
  BY <1>2, <1>5, <1>8, <1>9 DEF s, answer

\* A command that does not touch sessions, tokens or the count of books.
LEMMA QuietSend ==
    ASSUME IInv, SInv, NEW command \in Commands \ {"login", "logout", "add_book"},
           NEW request, Send(command, request),
           Serves(Handled(request)[1], Handled(request)[2]),
           Handled(request)[1].sessions = server.sessions,
           server.tokens \subseteq Handled(request)[1].tokens,
           Handled(request)[1].issued = server.issued,
           command = "enter_library" /\ Tells(Handled(request)[2], "error") = {} =>
              UNION Tells(Handled(request)[2], "value") \subseteq Handled(request)[1].tokens,
           command = "get_books" /\ happened = {} =>
              InLibrary /\ Tells(Handled(request)[2], "list") = {Library'}
    PROVE  SInv'
<1> DEFINE s == Handled(request)[1]
           answer == Handled(request)[2]
<1>1. /\ client.at = "prompt" /\ client'.at = command /\ client'.shown = Nothing
      /\ client'.current_cookie_session = client.current_cookie_session
      /\ client'.current_JWT = client.current_JWT
      /\ client'.isSomeoneLoggedIn = client.isSomeoneLoggedIn
      /\ client'.isSomeoneInLibrary = client.isSomeoneInLibrary
      /\ client'.told = client.told
      /\ server' = s /\ happened' = happened
      /\ answer.status \in Nat
      /\ \A is \in Telling : Said(is)' = Tells(answer, is)
  BY Sending
<1>2. /\ s.sessions = server.sessions /\ server.tokens \subseteq s.tokens
      /\ s.issued = server.issued
      /\ command = "enter_library" /\ Tells(answer, "error") = {} =>
            UNION Tells(answer, "value") \subseteq s.tokens
      /\ command = "get_books" /\ happened = {} =>
            InLibrary /\ Tells(answer, "list") = {Library'}
  OBVIOUS
<1> HIDE DEF s, answer
<1>3. "prompt" \notin Commands /\ Working
  BY <1>1 DEF Commands, Working
<1>4. OneStatus'
  BY <1>1 DEF OneStatus, Tells, Telling
<1>5. Held(client)' = Held(client)
  BY <1>1 DEF Held
<1>6. SessionsKnown'
  BY <1>1, <1>2, <1>3, <1>5 DEF SInv, SessionsKnown, Matches
<1>7. TokensValid'
  <2>1. happened = {} => (InLibrary => client.current_JWT \in server.tokens)
    BY <1>3 DEF SInv, TokensValid
  <2>2. /\ InLibrary' <=> InLibrary
        /\ Said("error")' = Tells(answer, "error") /\ Said("value")' = Tells(answer, "value")
    BY <1>1 DEF InLibrary, Telling
  <2> QED
    BY <1>1, <1>2, <2>1, <2>2 DEF TokensValid
<1>8. Counted'
  BY <1>1, <1>2, <1>3 DEF SInv, Counted
<1>9. ListKnown'
  <2>1. (InLibrary' <=> InLibrary) /\ Said("list")' = Tells(answer, "list")
    BY <1>1 DEF InLibrary, Telling
  <2> QED
    BY <1>1, <1>2, <2>1 DEF ListKnown
<1>10. OwnBooks'
  BY <1>1 DEF OwnBooks
<1> QED
  BY <1>4, <1>6, <1>7, <1>8, <1>9, <1>10 DEF SInv

LEMMA OneValue == ASSUME NEW x, NEW y, {{x}} = {{y}} PROVE x = y
<1>1. {x} \in {{y}}
  OBVIOUS
<1>2. {x} = {y}
  BY <1>1
<1>3. x \in {y}
  BY <1>2
<1> QED
  BY <1>3

LEMMA RefusedOrDone == {{400}} # {{200}}
<1>1. PICK m, n : m = 400 /\ n = 200
  OBVIOUS
<1>2. m # n
  BY <1>1
<1>3. {{m}} # {{n}}
  BY <1>2, OneValue
<1> QED
  BY <1>1, <1>3

LEMMA RefusalTells ==
    /\ Refusal.status = 400
    /\ Tells(Refusal, "cookie") = {} /\ Tells(Refusal, "error") # {}
<1>1. Refusal.status = 400 /\ Refusal.cookies = <<>> /\ Refusal.body = Json("error", {400})
  BY DEF Refusal
<1>2. {400} \in SUBSET Int
  OBVIOUS
<1>3. Part(Refusal.body, "error") # {}
  BY <1>1, <1>2, PartJson
<1>4. Part(Refusal.cookies, "cookie") = {}
  BY <1>1, PartNone
<1> QED
  BY <1>1, <1>3, <1>4 DEF Tells

LEMMA RegisterSession == ASSUME IInv, SInv, RegisterUser PROVE SInv'
<1>1. PICK u \in Users : Send("register", compute_post_request(Register, u, None))
  BY DEF RegisterUser
<1> DEFINE r == compute_post_request(Register, u, None)
           s == [server EXCEPT !.registered = @ \cup {u}]
<1>2. Handled(r)[1] \in {server, s}
  BY DEF Handled, compute_post_request, Register, Login, Access, Logout, Books
<1>3. s.sessions = server.sessions /\ s.tokens = server.tokens /\ s.issued = server.issued
  BY DEF IInv, TypeOK, ServerType
<1>4. Serves(Handled(r)[1], Handled(r)[2])
  BY RegisterHandled DEF IInv
<1> HIDE DEF r, s
<1>5. /\ Handled(r)[1].sessions = server.sessions /\ Handled(r)[1].tokens = server.tokens
      /\ Handled(r)[1].issued = server.issued
  BY <1>2, <1>3
<1>6. Send("register", r)
  BY <1>1 DEF r
<1> QED
  BY <1>4, <1>5, <1>6, QuietSend DEF Commands

LEMMA LoginSession == ASSUME IInv, SInv, LoginUser PROVE SInv'
<1>1. PICK u \in Users : Send("login", compute_post_request(Login, u, None))
  BY DEF LoginUser
<1> DEFINE r == compute_post_request(Login, u, None)
           s == [Issue(u) EXCEPT !.sessions = @ \cup {New}]
           answer == [Success EXCEPT !.cookies = <<Symbol("cookie", {New})>>]
<1>2. Handled(r) = IF u \notin server.registered THEN <<server, Refusal>> ELSE <<s, answer>>
  BY DEF Handled, compute_post_request, Register, Login, Access, Logout, Books
<1>3. Serves(Handled(r)[1], Handled(r)[2])
  BY LoginHandled DEF IInv
<1>4. /\ s.sessions = server.sessions \cup {New} /\ s.tokens = server.tokens
      /\ s.issued = server.issued /\ New \in IssuedTo(s.owner) /\ New \in Nat
  <2> DEFINE t == Issue(u)
  <2>1. /\ t \in ServerType /\ New \in IssuedTo(t.owner) /\ New \in Nat
        /\ t.sessions = server.sessions /\ t.tokens = server.tokens
    BY IssueGrows DEF IInv
  <2>2. t.issued = server.issued
    BY DEF Issue, IInv, TypeOK, ServerType
  <2> HIDE DEF t
  <2> QED
    BY <2>1, <2>2 DEF ServerType, t
<1>5. Tells(answer, "cookie") = {{New}}
  <2>1. answer.cookies = <<Symbol("cookie", {New})>>
    BY DEF Success
  <2> DEFINE x == Symbol("cookie", {New})
  <2>2. x \in Symbols /\ x.is = "cookie" /\ x.val = {New}
    BY <1>4, KindNames, NumberType
  <2>3. answer.cookies = <<x>>
    BY <2>1
  <2> HIDE DEF x, answer
  <2>4. Part(answer.cookies, "cookie") = {{New}}
    BY <2>2, <2>3, PartOne
  <2> QED
    BY <2>4 DEF Tells
<1> HIDE DEF r, s, answer
<1>6. Send("login", r) /\ "login" \in Commands
  BY <1>1 DEF r, Commands
<1>7. /\ client.at = "prompt" /\ client'.at = "login" /\ client'.shown = Nothing
      /\ client'.current_cookie_session = client.current_cookie_session
      /\ client'.current_JWT = client.current_JWT
      /\ client'.isSomeoneLoggedIn = client.isSomeoneLoggedIn
      /\ client'.isSomeoneInLibrary = client.isSomeoneInLibrary
      /\ client'.told = client.told
      /\ server' = Handled(r)[1] /\ happened' = happened
      /\ Handled(r)[2].status \in Nat
      /\ \A is \in Telling : Said(is)' = Tells(Handled(r)[2], is)
  BY <1>3, <1>6, Sending
<1>8. "prompt" \notin Commands /\ Working /\ client.isSomeoneLoggedIn = 0
  BY <1>7 DEF Commands, Working, LoginUser, LoginGuard
<1>9. happened \subseteq {"expired"} => server.sessions = {}
  BY <1>7, <1>8 DEF SInv, SessionsKnown, Matches, Held
<1>10. /\ server'.tokens = server.tokens /\ server'.issued = server.issued
       /\ \/ server'.sessions = server.sessions /\ Said("cookie")' = {}
          \/ /\ server'.sessions = server.sessions \cup {New}
             /\ Said("cookie")' = {{New}} /\ New \in Issued'
  <2>1. Said("cookie")' = Tells(Handled(r)[2], "cookie")
    BY <1>7 DEF Telling
  <2>2. CASE u \notin server.registered
    BY <1>2, <1>7, <2>1, <2>2, RefusalTells
  <2>3. CASE u \in server.registered
    <3>1. Handled(r)[1] = s /\ Handled(r)[2] = answer
      BY <1>2, <2>3
    <3> QED
      BY <1>4, <1>5, <1>7, <2>1, <3>1 DEF Issued, IssuedTo
  <2> QED
    BY <2>2, <2>3
<1>11. OneStatus'
  <2>1. Said("status")' = {{Handled(r)[2].status}}
    BY <1>7 DEF Tells, Telling
  <2> QED
    BY <1>7, <2>1 DEF OneStatus
<1>12. SessionsKnown'
  <2>1. happened \subseteq {"expired"} =>
           /\ Said("cookie")' = {} \/ \E k \in Issued' : Said("cookie")' = {{k}}
           /\ server'.sessions = UNION Said("cookie")'
    BY <1>9, <1>10
  <2> QED
    BY <1>7, <2>1 DEF SessionsKnown, Matches
<1>13. TokensValid'
  BY <1>7, <1>8, <1>10 DEF SInv, TokensValid, InLibrary
<1>14. Counted' /\ ListKnown' /\ OwnBooks'
  BY <1>7, <1>8, <1>10 DEF SInv, Counted, ListKnown, OwnBooks
<1> QED
  BY <1>11, <1>12, <1>13, <1>14 DEF SInv

LEMMA EnterSession == ASSUME IInv, SInv, EnterLibrary PROVE SInv'
<1> DEFINE c == client.current_cookie_session
           r == compute_get_request(Access, None, {c}, None)
           u == Bearer(c, server.sessions)
           s == [Issue(u) EXCEPT !.tokens = @ \cup {New}]
           answer == [Success EXCEPT !.body = Json("token", {New})]
<1>1. Send("enter_library", r) /\ client.isSomeoneLoggedIn = 1
  BY DEF EnterLibrary
<1>2. c \in Issued \cup {Partial} /\ server.sessions \subseteq IssuedTo(server.owner) /\ TypeOK
  BY <1>1 DEF IInv, Session, TypeOK, Issued, IssuedTo
<1>3. Serves(Handled(r)[1], Handled(r)[2])
  BY <1>2, AccessHandled
<1>4. Handled(r) = IF u = NoUser THEN <<server, Refusal>> ELSE <<s, answer>>
  <2>1. r.cookies = {c} /\ r.url = Access
    BY DEF compute_get_request
  <2>2. SessionOf(r) = u
    BY <2>1, TheOnlyOne DEF SessionOf
  <2> QED
    BY <2>1, <2>2 DEF Handled, Register, Login, Access, Logout, Books
<1>5. CASE u = NoUser
  <2> HIDE DEF r, u
  <2>1. Handled(r)[1] = server /\ Handled(r)[2] = Refusal
    BY <1>4, <1>5
  <2> QED
    BY <1>1, <1>3, <2>1, RefusalTells, QuietSend DEF Commands
<1>6. CASE u # NoUser
  <2>1. u \in Users
    BY <1>2, <1>6, BearerOK
  <2>2. /\ s.sessions = server.sessions /\ s.tokens = server.tokens \cup {New}
        /\ s.issued = server.issued /\ New \in Nat
    <3> DEFINE t == Issue(u)
    <3>1. /\ t \in ServerType /\ New \in Nat
          /\ t.sessions = server.sessions /\ t.tokens = server.tokens
      BY <1>2, <2>1, IssueGrows
    <3>2. t.issued = server.issued
      BY <1>2 DEF Issue, TypeOK, ServerType
    <3> HIDE DEF t
    <3> QED
      BY <3>1, <3>2 DEF ServerType, t
  <2>3. Tells(answer, "value") = {{New}}
    <3>1. answer.body = Json("token", {New})
      BY DEF Success
    <3>2. {New} \in SUBSET Int
      BY <2>2
    <3>3. Part(answer.body, "value") = {{New}}
      BY <3>1, <3>2, PartJson
    <3> QED
      BY <3>3 DEF Tells
  <2> HIDE DEF r, s, answer, u
  <2>4. Handled(r)[1] = s /\ Handled(r)[2] = answer
    BY <1>4, <1>6
  <2>5. UNION Tells(answer, "value") \subseteq s.tokens
    BY <2>2, <2>3
  <2> QED
    BY <1>1, <1>3, <2>2, <2>4, <2>5, QuietSend DEF Commands
<1> QED
  BY <1>5, <1>6

LEMMA LogoutSession == ASSUME IInv, SInv, LogoutUser PROVE SInv'
<1> DEFINE c == client.current_cookie_session
           r == compute_get_request(Logout, None, {c}, None)
           u == Bearer(c, server.sessions)
           s == [server EXCEPT !.sessions = @ \ {c}]
<1>1. Send("logout", r) /\ "logout" \in Commands
  BY DEF LogoutUser, Commands
<1>2. server.sessions \subseteq IssuedTo(server.owner) /\ TypeOK
  BY DEF IInv, TypeOK, Issued, IssuedTo
<1>3. Serves(Handled(r)[1], Handled(r)[2])
  BY <1>2, LogoutHandled
<1>4. Handled(r) = IF u = NoUser THEN <<server, Refusal>> ELSE <<s, Success>>
  <2>1. r.cookies = {c} /\ r.url = Logout
    BY DEF compute_get_request
  <2>2. SessionOf(r) = u
    BY <2>1, TheOnlyOne DEF SessionOf
  <2> QED
    BY <2>1, <2>2 DEF Handled, Register, Login, Access, Logout, Books
<1>5. /\ s.sessions = server.sessions \ {c} /\ s.tokens = server.tokens
      /\ s.issued = server.issued
  BY <1>2 DEF TypeOK, ServerType
<1>6. /\ c \in server.sessions => u # NoUser
      /\ c \notin server.sessions => u = NoUser
  <2>1. c \in server.sessions => server.owner[c] \in Users /\ u = server.owner[c]
    BY <1>2, OwnersOK DEF Bearer, IssuedTo
  <2> QED
    BY <2>1, SessionOK DEF Bearer
<1> HIDE DEF r, s, u
<1>7. /\ client.at = "prompt" /\ client'.at = "logout" /\ client'.shown = Nothing
      /\ client'.current_cookie_session = c
      /\ client'.current_JWT = client.current_JWT
      /\ client'.isSomeoneLoggedIn = client.isSomeoneLoggedIn
      /\ client'.isSomeoneInLibrary = client.isSomeoneInLibrary
      /\ client'.told = client.told
      /\ server' = Handled(r)[1] /\ happened' = happened
      /\ Handled(r)[2].status \in Nat
      /\ \A is \in Telling : Said(is)' = Tells(Handled(r)[2], is)
  BY <1>1, <1>3, Sending
<1>8. "prompt" \notin Commands /\ Working
  BY <1>7 DEF Commands, Working
<1>9. /\ happened \subseteq {"expired"} =>
            /\ server.sessions \subseteq Held(client)
            /\ happened = {} => Held(client) \subseteq server.sessions
      /\ Held(client) \subseteq {c}
      /\ Held(client)' = Held(client)
  BY <1>7, <1>8 DEF SInv, SessionsKnown, Matches, Held
<1>10. Said("status")' = {{Handled(r)[2].status}}
  BY <1>7 DEF Tells, Telling
<1>11. /\ server'.tokens = server.tokens /\ server'.issued = server.issued
       /\ \/ /\ c \notin server.sessions
             /\ server'.sessions = server.sessions /\ Said("status")' = {{400}}
          \/ server'.sessions = server.sessions \ {c} /\ Said("status")' = {{200}}
  <2>1. CASE u = NoUser
    BY <1>4, <1>6, <1>7, <1>10, <2>1, RefusalTells
  <2>2. CASE u # NoUser
    <3>1. Handled(r)[1] = s /\ Handled(r)[2].status = 200
      BY <1>4, <2>2 DEF Success
    <3> QED
      BY <1>5, <1>7, <1>10, <3>1
  <2> QED
    BY <2>1, <2>2
<1>12. OneStatus'
  BY <1>7, <1>10 DEF OneStatus
<1>13. SessionsKnown'
  <2> DEFINE held == IF Said("status") = {{200}} THEN {} ELSE Held(client)
  <2> SUFFICES ASSUME happened \subseteq {"expired"}
               PROVE  /\ server'.sessions \subseteq held'
                      /\ happened = {} => held' \subseteq server'.sessions
    BY <1>7 DEF SessionsKnown, Matches
  <2>1. CASE /\ c \notin server.sessions
             /\ server'.sessions = server.sessions /\ Said("status")' = {{400}}
    BY <1>9, <2>1, RefusedOrDone
  <2>2. CASE server'.sessions = server.sessions \ {c} /\ Said("status")' = {{200}}
    <3>1. server.sessions \ {c} = {}
      BY <1>9
    <3> QED
      BY <2>2, <3>1
  <2> QED
    BY <1>11, <2>1, <2>2
<1>14. TokensValid'
  BY <1>7, <1>8, <1>11 DEF SInv, TokensValid, InLibrary
<1>15. Counted' /\ ListKnown' /\ OwnBooks'
  BY <1>7, <1>8, <1>11 DEF SInv, Counted, ListKnown, OwnBooks
<1> QED
  BY <1>12, <1>13, <1>14, <1>15 DEF SInv

\* In the library, while nothing goes wrong, the token opens the library of
\* the account whose cookie is held.
LEMMA TokenBearer ==
    ASSUME IInv, SInv, Working, InLibrary, happened = {}
    PROVE  /\ Bearer(client.current_JWT, server.tokens) # NoUser
           /\ Bearer(client.current_JWT, server.tokens) = server.owner[client.current_cookie_session]
<1>1. client.current_JWT \in server.tokens
  BY DEF SInv, TokensValid
<1>2. server.owner[client.current_JWT] = server.owner[client.current_cookie_session]
  <2>1. client.current_JWT # Partial
    BY <1>1 DEF IInv, TypeOK, Issued, Partial
  <2> QED
    BY <2>1 DEF IInv, OwnToken, InLibrary
<1>3. server.owner[client.current_JWT] \in Users
  <2>1. TypeOK
    BY DEF IInv
  <2>2. client.current_JWT \in 1 .. Len(server.owner)
    BY <1>1, <2>1 DEF TypeOK, Issued
  <2> QED
    BY <2>1, <2>2, OwnersOK
<1> QED
  BY <1>1, <1>2, <1>3, SessionOK DEF Bearer

LEMMA AddSession == ASSUME IInv, SInv, AddBook PROVE SInv'
<1> DEFINE jwt == client.current_JWT
           r == compute_post_request(Books, "book", jwt)
           u == Bearer(jwt, server.tokens)
           s == [server EXCEPT !.library[u] = @ \cup {server.issued + 1}, !.issued = @ + 1]
<1>1. Send("add_book", r) /\ "add_book" \in Commands /\ InLibrary /\ server.issued < MaxBooks
  BY DEF AddBook, Commands
<1>2. server \in ServerType /\ client \in ClientType /\ TypeOK
  BY DEF IInv, TypeOK
<1>3. Serves(Handled(r)[1], Handled(r)[2])
  BY <1>1, <1>2, AddHandled
<1>4. Handled(r) = IF u = NoUser THEN <<server, Refusal>> ELSE <<s, Success>>
  <2>1. r.url = Books /\ r.method = "POST" /\ r.jwt = jwt
    BY DEF compute_post_request
  <2> QED
    BY <2>1 DEF Handled, TokenOf, Register, Login, Access, Logout, Books
<1>5. /\ s.sessions = server.sessions /\ s.tokens = server.tokens
      /\ s.issued = server.issued + 1
  <2> HIDE DEF u
  <2> QED
    BY <1>2 DEF ServerType
<1> HIDE DEF r, s, u
<1>6. /\ client.at = "prompt" /\ client'.at = "add_book" /\ client'.shown = Nothing
      /\ client'.current_cookie_session = client.current_cookie_session
      /\ client'.current_JWT = client.current_JWT
      /\ client'.isSomeoneLoggedIn = client.isSomeoneLoggedIn
      /\ client'.isSomeoneInLibrary = client.isSomeoneInLibrary
      /\ client'.told = client.told
      /\ server' = Handled(r)[1] /\ happened' = happened
      /\ Handled(r)[2].status \in Nat
      /\ \A is \in Telling : Said(is)' = Tells(Handled(r)[2], is)
  BY <1>1, <1>3, Sending
<1>7. "prompt" \notin Commands /\ Working
  BY <1>6 DEF Commands, Working
<1>8. Said("status")' = {{Handled(r)[2].status}}
  BY <1>6 DEF Tells, Telling
<1>9. /\ server'.sessions = server.sessions /\ server'.tokens = server.tokens
      /\ \/ server'.issued = server.issued /\ Said("status")' = {{400}}
         \/ server'.issued = server.issued + 1 /\ Said("status")' = {{200}}
  <2>1. CASE u = NoUser
    BY <1>4, <1>6, <1>8, <2>1, RefusalTells
  <2>2. CASE u # NoUser
    <3>1. Handled(r)[1] = s /\ Handled(r)[2].status = 200
      BY <1>4, <2>2 DEF Success
    <3> QED
      BY <1>5, <1>6, <1>8, <3>1
  <2> QED
    BY <2>1, <2>2
<1>10. OneStatus'
  BY <1>6, <1>8 DEF OneStatus
<1>11. SessionsKnown'
  BY <1>6, <1>7, <1>9 DEF SInv, SessionsKnown, Matches, Held
<1>12. TokensValid'
  BY <1>6, <1>7, <1>9 DEF SInv, TokensValid, InLibrary
<1>13. Counted'
  <2>1. /\ client.told \in Nat /\ server.issued \in Nat /\ client.told <= server.issued
        /\ happened = {} => client.told = server.issued
    BY <1>2, <1>6, <1>7 DEF SInv, Counted, ClientType, ServerType
  <2>2. InLibrary'
    BY <1>1, <1>6 DEF InLibrary
  <2>4. CASE server'.issued = server.issued /\ Said("status")' = {{400}}
    BY <1>6, <2>1, <2>2, <2>4, RefusedOrDone DEF Counted
  <2>5. CASE server'.issued = server.issued + 1 /\ Said("status")' = {{200}}
    BY <1>6, <2>1, <2>2, <2>5 DEF Counted
  <2> QED
    BY <1>9, <2>4, <2>5
<1>14. ListKnown' /\ OwnBooks'
  BY <1>6 DEF ListKnown, OwnBooks
<1> QED
  BY <1>10, <1>11, <1>12, <1>13, <1>14 DEF SInv

LEMMA ListSession == ASSUME IInv, SInv, GetBooks PROVE SInv'
<1> DEFINE c == client.current_cookie_session
           jwt == client.current_JWT
           r == compute_get_request(Books, None, {c}, jwt)
           u == Bearer(jwt, server.tokens)
           answer == [Success EXCEPT !.body = <<Symbol("list", server.library[u])>>]
<1>1. /\ Send("get_books", r) /\ "get_books" \in Commands
      /\ "get_books" \notin {"login", "logout", "add_book", "enter_library"} /\ InLibrary
  BY DEF GetBooks, Commands
<1>2. TypeOK
  BY DEF IInv
<1>3. Serves(Handled(r)[1], Handled(r)[2])
  BY <1>2, ListHandled
<1>4. Handled(r) = IF u = NoUser THEN <<server, Refusal>> ELSE <<server, answer>>
  <2>1. r.url = Books /\ r.method = "GET" /\ r.jwt = jwt /\ r.id = None
    BY DEF compute_get_request
  <2> QED
    BY <2>1 DEF Handled, TokenOf, Register, Login, Access, Logout, Books
<1>5. /\ answer.body = <<Symbol("list", server.library[u])>>
  BY DEF Success
<1>6. u # NoUser => u \in Users
  BY <1>2, BearerOK DEF TypeOK, Issued, IssuedTo
<1> HIDE DEF r, answer, u
<1>7. Handled(r)[1] = server
  BY <1>4
<1>8. happened = {} => InLibrary /\ Tells(Handled(r)[2], "list") = {Library'}
  <2> SUFFICES ASSUME happened = {} PROVE Tells(Handled(r)[2], "list") = {Library'}
    BY <1>1
  <2>1. Working
    BY <1>1 DEF Send, AtPrompt, Working
  <2>2. u # NoUser /\ u = server.owner[c]
    BY <1>1, <2>1, TokenBearer DEF u
  <2>3. Handled(r)[2] = answer
    BY <1>4, <2>2
  <2>4. server.library[u] \in SUBSET Int
    BY <1>2, <1>6, <2>2 DEF TypeOK, ServerType, Ids
  <2> DEFINE x == Symbol("list", server.library[u])
  <2>5. x \in Symbols /\ x.is = "list" /\ x.val = server.library[u]
    BY <2>4, KindNames, SymbolType
  <2>6. answer.body = <<x>>
    BY <1>5
  <2> HIDE DEF x
  <2>7. Part(answer.body, "list") = {server.library[u]}
    BY <2>5, <2>6, PartOne
  <2>8. Library' = Library
    BY <1>1, <1>3, <1>7, Sending DEF Library
  <2> QED
    BY <2>2, <2>3, <2>7, <2>8 DEF Tells, Library
<1> QED
  BY <1>1, <1>3, <1>7, <1>8, QuietSend

LEMMA BookSession == ASSUME IInv, SInv, GetBook \/ DeleteBook PROVE SInv'
<1> DEFINE u == Bearer(client.current_JWT, server.tokens)
<1>1. TypeOK
  BY DEF IInv
<1>2. ASSUME NEW command \in {"get_book", "delete_book"}, NEW id \in Ids, NEW r,
             r.url = Books, r.jwt = client.current_JWT, r.id = id,
             r.method \in {"GET", "DELETE"}, Send(command, r)
      PROVE  SInv'
  <2> DEFINE s == [server EXCEPT !.library[u] = @ \ {id}]
  <2>1. Handled(r)[1] \in {server, s}
    <3>1. id # None
      BY DEF Ids, None
    <3>2. Handled(r) = IF u = NoUser \/ id \notin server.library[u] THEN <<server, Refusal>>
                       ELSE IF r.method = "GET" THEN <<server, Success>> ELSE <<s, Success>>
      BY <1>2, <3>1 DEF Handled, TokenOf, Register, Login, Access, Logout, Books
    <3> HIDE DEF s, u
    <3> QED
      BY <3>2
  <2>2. s.sessions = server.sessions /\ s.tokens = server.tokens /\ s.issued = server.issued
    <3> HIDE DEF u
    <3> QED
      BY <1>1 DEF TypeOK, ServerType
  <2> HIDE DEF s, u
  <2>3. /\ Handled(r)[1].sessions = server.sessions /\ Handled(r)[1].tokens = server.tokens
        /\ Handled(r)[1].issued = server.issued
    BY <2>1, <2>2
  <2>4. Serves(Handled(r)[1], Handled(r)[2])
    BY <1>1, <1>2, BookHandled
  <2>5. /\ command \in Commands
        /\ command \notin {"login", "logout", "add_book", "enter_library", "get_books"}
    BY DEF Commands
  <2> QED
    BY <1>2, <2>3, <2>4, <2>5, QuietSend
<1>3. CASE GetBook
  <2>1. PICK id \in Ids :
           Send("get_book", compute_get_request(Books, id, {}, client.current_JWT))
    BY <1>3 DEF GetBook
  <2> DEFINE r == compute_get_request(Books, id, {}, client.current_JWT)
  <2>2. r.url = Books /\ r.jwt = client.current_JWT /\ r.id = id /\ r.method = "GET"
    BY DEF compute_get_request
  <2> HIDE DEF r, u
  <2> QED
    BY <1>2, <2>1, <2>2 DEF r
<1>4. CASE DeleteBook
  <2>1. PICK id \in Ids :
           Send("delete_book", compute_delete_request(Books, id, client.current_JWT))
    BY <1>4 DEF DeleteBook
  <2> DEFINE r == compute_delete_request(Books, id, client.current_JWT)
  <2>2. r.url = Books /\ r.jwt = client.current_JWT /\ r.id = id /\ r.method = "DELETE"
    BY DEF compute_get_request, compute_delete_request
  <2> HIDE DEF r, u
  <2> QED
    BY <1>2, <2>1, <2>2 DEF r
<1> QED
  BY <1>3, <1>4

----------------------------------------------------------------------------
(* Taking the answer.                                                      *)

\* What is read of an answer it says, and all it says is read.
LEMMA Reading_Said ==
    ASSUME IInv, NEW command, Done(command), NEW is
    PROVE  /\ Has(is) => ValOf(is) \in Said(is)
           /\ Said(is) # {} => Has(is)
<1> DEFINE a == socket.answer
           b == reader.buffer
<1>1. reader.at = "done"
  BY DEF Done
<1>2. a \in Seq(Symbols) /\ b \in Seq(Symbols) /\ socket.incoming \in Seq(Symbols)
  BY DEF IInv, TypeOK, SocketType, ReaderType
<1>3. Prefix(b, socket.incoming, a) /\ socket.incoming = <<>>
  BY <1>1 DEF IInv, Reads_OK
<1> HIDE DEF a, b
<1>4. /\ Len(b) \in Nat /\ Len(b) = Len(a)
      /\ \A i \in 1 .. Len(b) : b[i] = a[i]
  BY <1>2, <1>3 DEF Prefix
<1>5. \A i \in 1 .. Len(b) : i \in 1 .. Len(a)
  BY <1>4
<1>6. Where(is) = {i \in 1 .. Len(b) : b[i].is = is}
  BY DEF Where, b
<1>7. Said(is) = {a[i].val : i \in {j \in 1 .. Len(a) : a[j].is = is}}
  BY DEF Said, Part, a
<1>8. Has(is) => ValOf(is) \in Said(is)
  <2> SUFFICES ASSUME Has(is) PROVE ValOf(is) \in Said(is)
    OBVIOUS
  <2> DEFINE i == TheOnly(Where(is))
  <2>1. i \in Where(is) /\ ValOf(is) = b[i].val
    BY TheOnlyIn DEF Has, ValOf, b
  <2> HIDE DEF i
  <2>2. i \in 1 .. Len(a) /\ a[i].is = is /\ ValOf(is) = a[i].val
    BY <1>4, <1>5, <1>6, <2>1
  <2> QED
    BY <1>7, <2>2
<1>9. ASSUME Said(is) # {}
      PROVE  Has(is)
  <2>1. PICK j \in 1 .. Len(a) : a[j].is = is
    BY <1>7, <1>9
  <2>2. j \in 1 .. Len(b) /\ b[j].is = is
    BY <1>4, <2>1
  <2> QED
    BY <1>6, <2>2 DEF Has
<1> QED
  BY <1>8, <1>9

\* An answer is taken for a success if and only if its status says so.
LEMMA StatusSaid ==
    ASSUME IInv, SInv, NEW command \in Commands, Done(command)
    PROVE  Status(200) <=> Said("status") = {{200}}
<1>1. client.at \in Commands
  BY DEF Done
<1>2. PICK code \in Nat : Said("status") \subseteq {{code}}
  BY <1>1 DEF SInv, OneStatus
<1>3. /\ Has("status") => ValOf("status") \in Said("status")
      /\ Said("status") # {} => Has("status")
  BY Reading_Said
<1>4. ASSUME Status(200) PROVE Said("status") = {{200}}
  <2>1. {200} \in Said("status")
    BY <1>3, <1>4 DEF Status
  <2> QED
    BY <1>2, <2>1
<1>5. ASSUME Said("status") = {{200}} PROVE Status(200)
  BY <1>3, <1>5 DEF Status
<1> QED
  BY <1>4, <1>5

\* What the client may hold when it is back at its prompt.
Fine(c) ==
    /\ c.told <= server.issued
    /\ happened \subseteq {"expired"} => Matches(Held(c))
    /\ happened = {} =>
          /\ c.isSomeoneInLibrary = 1 => c.current_JWT \in server.tokens
          /\ c.told = server.issued
          /\ c.shown # Nothing =>
                /\ c.current_cookie_session \in Issued
                /\ c.shown = Symbol("list",
                      server.library[server.owner[c.current_cookie_session]])

LEMMA ReturnSession ==
    ASSUME IInv, NEW c \in ClientType, Fine(c), Return(c)
    PROVE  SInv'
<1>1. /\ client' = [c EXCEPT !.at = "prompt"]
      /\ server' = server /\ happened' = happened
  BY DEF Return
<1>2. /\ client'.at = "prompt"
      /\ client'.current_cookie_session = c.current_cookie_session
      /\ client'.current_JWT = c.current_JWT
      /\ client'.isSomeoneLoggedIn = c.isSomeoneLoggedIn
      /\ client'.isSomeoneInLibrary = c.isSomeoneInLibrary
      /\ client'.told = c.told /\ client'.shown = c.shown
  BY <1>1 DEF ClientType
<1>3. "prompt" \notin Commands /\ Issued' = Issued /\ Held(client)' = Held(c)
  BY <1>1, <1>2 DEF Commands, Issued, Held
<1>4. OneStatus' /\ ListKnown'
  BY <1>2, <1>3 DEF OneStatus, ListKnown, Commands
<1>5. SessionsKnown' /\ TokensValid'
  BY <1>1, <1>2, <1>3 DEF SessionsKnown, Matches, TokensValid, InLibrary, Fine
<1>6. Counted'
  <2>1. c.told \in Nat
    BY DEF ClientType
  <2> QED
    BY <1>1, <1>2, <2>1 DEF Counted, Fine
<1>7. OwnBooks'
  BY <1>1, <1>2, <1>3 DEF OwnBooks, Fine
<1> QED
  BY <1>4, <1>5, <1>6, <1>7 DEF SInv

\* A command that changes nothing the server knows of.
LEMMA FineStill ==
    ASSUME IInv, SInv, client.at \in Commands \ {"login", "logout", "add_book"},
           NEW c, c.told = client.told, c.shown = Nothing,
           c.current_cookie_session = client.current_cookie_session,
           c.current_JWT = client.current_JWT,
           c.isSomeoneLoggedIn = client.isSomeoneLoggedIn,
           c.isSomeoneInLibrary = client.isSomeoneInLibrary
    PROVE  Fine(c)
<1>1. Working /\ Held(c) = Held(client)
  BY DEF Working, Held
<1>2. client.told \in Nat /\ server.issued \in Nat
  BY DEF IInv, TypeOK, ClientType, ServerType
<1>3. c.told <= server.issued
  BY DEF SInv, Counted
<1>4. happened = {} => c.told = server.issued
  BY <1>1, <1>2 DEF SInv, Counted
<1>5. happened \subseteq {"expired"} => Matches(Held(c))
  BY <1>1 DEF SInv, SessionsKnown
<1>6. happened = {} => (c.isSomeoneInLibrary = 1 => c.current_JWT \in server.tokens)
  BY <1>1 DEF SInv, TokensValid, InLibrary
<1> QED
  BY <1>3, <1>4, <1>5, <1>6 DEF Fine

LEMMA ShownYet == ASSUME IInv, SInv, client.at \in Commands
                  PROVE  client.shown = Nothing /\ client \in ClientType
  BY DEF IInv, TypeOK, SInv, ListKnown

LEMMA RegisteredSession == ASSUME IInv, SInv, Registered PROVE SInv'
<1> DEFINE c == [client EXCEPT !.books = Password]
<1>1. client.at = "register" /\ client.at \in Commands \ {"login", "logout", "add_book"} /\ Return(c)
  BY DEF Registered, Done, Commands
<1>2. client.shown = Nothing /\ client \in ClientType
  BY <1>1, ShownYet
<1>3. /\ c \in ClientType /\ c.told = client.told /\ c.shown = Nothing
      /\ c.current_cookie_session = client.current_cookie_session
      /\ c.current_JWT = client.current_JWT
      /\ c.isSomeoneLoggedIn = client.isSomeoneLoggedIn
      /\ c.isSomeoneInLibrary = client.isSomeoneInLibrary
  BY <1>2, BooksTyped DEF ClientType
<1> HIDE DEF c
<1> QED
  BY <1>1, <1>3, FineStill, ReturnSession

LEMMA PlainSession == ASSUME IInv, SInv, GotBook \/ DeletedBook PROVE SInv'
<1>1. client.at \in Commands \ {"login", "logout", "add_book"} /\ Return(client)
  BY DEF GotBook, DeletedBook, Done, Commands
<1>2. client.shown = Nothing /\ client \in ClientType
  BY <1>1, ShownYet
<1> QED
  BY <1>1, <1>2, FineStill, ReturnSession

LEMMA LoggedInSession == ASSUME IInv, SInv, LoggedIn PROVE SInv'
<1> DEFINE c == [client EXCEPT
                   !.books = Password,
                   !.current_cookie_session = IF Has("cookie") THEN TheOnly(ValOf("cookie")) ELSE @,
                   !.isSomeoneLoggedIn = IF Has("cookie") THEN 1 ELSE @]
<1>1. /\ client.at = "login" /\ "login" \in Commands /\ Done("login") /\ Return(c)
      /\ "login" # "logout" /\ Working
  BY DEF LoggedIn, Done, Commands, Working
<1>2. client.shown = Nothing /\ client \in ClientType
  BY <1>1, ShownYet
<1>3. client.isSomeoneLoggedIn = 0 /\ client.isSomeoneInLibrary = 0
  BY <1>1, <1>2 DEF IInv, Session, ClientType
<1>4. Has("cookie") => TheOnly(ValOf("cookie")) \in Issued \cup {Partial}
  <2>1. Has("cookie") => \E k \in Issued \cup {Partial} : ValOf("cookie") = {k}
    BY <1>1, Answered
  <2> QED
    BY <2>1, TheOnlyOne
<1>5. Issued \subseteq Nat
  BY DEF Issued
<1>6. /\ c \in ClientType
      /\ c.current_cookie_session =
            IF Has("cookie") THEN TheOnly(ValOf("cookie")) ELSE client.current_cookie_session
      /\ c.isSomeoneLoggedIn = IF Has("cookie") THEN 1 ELSE 0
      /\ c.isSomeoneInLibrary = 0 /\ c.told = client.told /\ c.shown = Nothing
  BY <1>2, <1>3, <1>4, <1>5, BooksTyped DEF ClientType
<1> HIDE DEF c
<1>7. client.told \in Nat /\ server.issued \in Nat
  BY DEF IInv, TypeOK, ClientType, ServerType
<1>8. client.told <= server.issued /\ (happened = {} => client.told = server.issued)
  BY <1>1, <1>7 DEF SInv, Counted
<1>9. ASSUME happened \subseteq {"expired"} PROVE Matches(Held(c))
  <2>1. /\ Said("cookie") = {} \/ \E k \in Issued : Said("cookie") = {{k}}
        /\ Matches(UNION Said("cookie"))
    BY <1>1, <1>9 DEF SInv, SessionsKnown
  <2>2. /\ Has("cookie") => ValOf("cookie") \in Said("cookie")
        /\ Said("cookie") # {} => Has("cookie")
    BY <1>1, <1>9, Reading_Said
  <2>3. CASE Said("cookie") = {}
    <3>1. UNION Said("cookie") = {} /\ Held(c) = {}
      BY <1>6, <2>2, <2>3 DEF Held
    <3> QED
      BY <2>1, <3>1
  <2>4. ASSUME NEW k \in Issued, Said("cookie") = {{k}}
        PROVE  Matches(Held(c))
    <3>1. Has("cookie") /\ ValOf("cookie") = {k}
      BY <2>2, <2>4
    <3>2. TheOnly(ValOf("cookie")) = k
      BY <3>1, TheOnlyOne
    <3>3. UNION Said("cookie") = {k} /\ Held(c) = {k}
      BY <1>6, <2>4, <3>1, <3>2 DEF Held
    <3> QED
      BY <2>1, <3>3
  <2> QED
    BY <2>1, <2>3, <2>4
<1>10. Fine(c)
  BY <1>6, <1>8, <1>9 DEF Fine
<1> QED
  BY <1>1, <1>6, <1>10, ReturnSession

LEMMA StopSession ==
    ASSUME IInv, SInv, NEW how \in {"exited", "crashed", "undefined"}, Stop(how)
    PROVE  SInv'
<1>1. client' = [NewProcess EXCEPT !.at = how] /\ server' = server
  BY DEF Stop
<1>2. client'.at = how /\ client'.told = 0 /\ client'.shown = Nothing
  BY <1>1 DEF NewProcess
<1>3. how \notin Commands /\ how # "prompt" /\ how # "add_book" /\ how # "get_books"
  BY DEF Commands
<1>4. server.issued \in Nat
  BY DEF IInv, TypeOK, ServerType
<1>5. 0 <= server.issued
  BY <1>4
<1>6. ~Working'
  BY <1>2, <1>3 DEF Working
<1>7. OneStatus' /\ SessionsKnown' /\ TokensValid'
  BY <1>2, <1>3, <1>6 DEF OneStatus, SessionsKnown, TokensValid
<1>8. Counted'
  BY <1>1, <1>2, <1>3, <1>5, <1>6 DEF Counted
<1>9. ListKnown' /\ OwnBooks'
  BY <1>2, <1>3 DEF ListKnown, OwnBooks
<1> QED
  BY <1>7, <1>8, <1>9 DEF SInv

\* Nothing but the reader moves.
LEMMA SameSession ==
    ASSUME SInv, UNCHANGED <<client, server, happened>>, socket'.answer = socket.answer
    PROVE  SInv'
<1>1. \A is : Said(is)' = Said(is)
  BY DEF Said
<1>2. /\ Issued' = Issued /\ Held(client)' = Held(client) /\ (InLibrary' <=> InLibrary)
      /\ Library' = Library /\ (Working' <=> Working)
  BY DEF Issued, Held, InLibrary, Library, Working
<1>3. OneStatus' /\ SessionsKnown'
  BY <1>1, <1>2 DEF SInv, OneStatus, SessionsKnown, Matches
<1>4. TokensValid' /\ Counted'
  BY <1>1, <1>2 DEF SInv, TokensValid, Counted
<1>5. ListKnown' /\ OwnBooks'
  BY <1>1, <1>2 DEF SInv, ListKnown, OwnBooks
<1> QED
  BY <1>3, <1>4, <1>5 DEF SInv

LEMMA EnteredSession == ASSUME IInv, SInv, Entered PROVE SInv'
<1> DEFINE c == [client EXCEPT
                   !.current_JWT = TheOnly(ValOf("value")),
                   !.isSomeoneInLibrary = 1]
<1>1. /\ client.at = "enter_library" /\ "enter_library" \in Commands
      /\ client.at \in Commands \ {"login", "logout", "add_book"}
      /\ Done("enter_library") /\ Working
  BY DEF Entered, Done, Commands, Working
<1>2. client.shown = Nothing /\ client \in ClientType
  BY <1>1, ShownYet
<1>3. Fine(client)
  BY <1>1, <1>2, FineStill
<1>4. CASE Return(client)
  BY <1>2, <1>3, <1>4, ReturnSession
<1>5. CASE Stop("crashed") /\ UNCHANGED happened
  BY <1>5, StopSession
<1>6. CASE ~Has("error") /\ Has("value") /\ Return(c)
  <2>1. PICK k \in Issued \cup {Partial} : ValOf("value") = {k}
    BY <1>1, <1>6, Answered
  <2>2. k \in Nat \cup {Partial} /\ TheOnly(ValOf("value")) = k
    <3>1. k \in Nat \cup {Partial}
      BY DEF Issued
    <3> QED
      BY <2>1, <3>1, TheOnlyOne
  <2>3. /\ c \in ClientType
        /\ c.current_JWT = k
        /\ c.isSomeoneInLibrary = 1 /\ c.told = client.told /\ c.shown = Nothing
        /\ c.isSomeoneLoggedIn = client.isSomeoneLoggedIn
        /\ c.current_cookie_session = client.current_cookie_session
    BY <1>2, <2>2 DEF ClientType
  <2> HIDE DEF c
  <2>4. happened = {} => c.current_JWT \in server.tokens
    <3> SUFFICES ASSUME happened = {} PROVE c.current_JWT \in server.tokens
      OBVIOUS
    <3>1. Said("error") = {} /\ ValOf("value") \in Said("value")
      BY <1>1, <1>6, Reading_Said
    <3>2. UNION Said("value") \subseteq server.tokens
      BY <1>1, <3>1 DEF SInv, TokensValid
    <3> QED
      BY <2>1, <2>3, <3>1, <3>2
  <2>5. Held(c) = Held(client)
    BY <2>3 DEF Held
  <2>6. Fine(c)
    BY <1>3, <2>3, <2>4, <2>5 DEF Fine
  <2> QED
    BY <1>6, <2>3, <2>6, ReturnSession
<1> QED
  BY <1>4, <1>5, <1>6 DEF Entered

LEMMA ListedSession == ASSUME IInv, SInv, Listed PROVE SInv'
<1> DEFINE books == IF Has("list") THEN Symbol("list", ValOf("list")) ELSE client.books
           c == [client EXCEPT !.books = books, !.shown = books]
<1>1. /\ client.at = "get_books" /\ "get_books" \in Commands
      /\ client.at \in Commands \ {"login", "logout", "add_book"}
      /\ Done("get_books") /\ Working
  BY DEF Listed, Done, Commands, Working
<1>2. client.shown = Nothing /\ client \in ClientType
  BY <1>1, ShownYet
<1>3. CASE books.val # {Partial} /\ Return(c)
  <2>1. books \in BookTexts \ {Nothing}
    <3>1. Has("list") => ValOf("list") \in SUBSET Ids
      BY <1>1, <1>3, Answered DEF Symbol
    <3>2. client.books \in BookTexts \ {Nothing}
      BY <1>2 DEF ClientType
    <3> QED
      BY <3>1, <3>2, BooksTyped
  <2>2. /\ c \in ClientType /\ c.told = client.told /\ c.shown = books
        /\ c.current_cookie_session = client.current_cookie_session
        /\ c.current_JWT = client.current_JWT
        /\ c.isSomeoneLoggedIn = client.isSomeoneLoggedIn
        /\ c.isSomeoneInLibrary = client.isSomeoneInLibrary
    BY <1>2, <2>1 DEF ClientType
  <2>3. Fine(client) /\ Held(c) = Held(client)
    BY <1>1, <1>2, <2>2, FineStill DEF Held
  <2>4. ASSUME happened = {}
        PROVE  /\ client.current_cookie_session \in Issued
               /\ books = Symbol("list", Library)
    <3>1. InLibrary /\ Said("list") = {Library}
      BY <1>1, <2>4 DEF SInv, ListKnown
    <3>2. Has("list") /\ ValOf("list") = Library
      BY <1>1, <2>4, <3>1, Reading_Said
    <3>3. client.current_cookie_session \in Issued
      BY <3>1 DEF InLibrary, IInv, OwnToken
    <3> QED
      BY <3>2, <3>3
  <2> HIDE DEF c, books
  <2>5. Fine(c)
    BY <2>2, <2>3, <2>4 DEF Fine, Library
  <2> QED
    BY <1>3, <2>2, <2>5, ReturnSession
<1>4. CASE Stop("crashed") /\ UNCHANGED happened
  BY <1>4, StopSession
<1>5. CASE Stop("undefined") /\ UNCHANGED happened
  BY <1>5, StopSession
<1> QED
  BY <1>3, <1>4, <1>5 DEF Listed

LEMMA AddedBookSession == ASSUME IInv, SInv, AddedBook PROVE SInv'
<1> DEFINE c == [client EXCEPT
                   !.told = IF Status(200) /\ client.current_JWT # Empty THEN @ + 1 ELSE @]
<1>1. /\ client.at = "add_book" /\ "add_book" \in Commands /\ Done("add_book") /\ Return(c)
      /\ "add_book" \notin {"login", "logout"} /\ Working
  BY DEF AddedBook, Done, Commands, Working
<1>2. client.shown = Nothing /\ client \in ClientType
  BY <1>1, ShownYet
<1>3. client.told \in Nat /\ server.issued \in Nat
  BY DEF IInv, TypeOK, ClientType, ServerType
<1>4. /\ c \in ClientType /\ c.shown = Nothing
      /\ c.told = IF Status(200) /\ client.current_JWT # Empty THEN client.told + 1 ELSE client.told
      /\ c.current_cookie_session = client.current_cookie_session
      /\ c.current_JWT = client.current_JWT
      /\ c.isSomeoneLoggedIn = client.isSomeoneLoggedIn
      /\ c.isSomeoneInLibrary = client.isSomeoneInLibrary
  BY <1>2, <1>3 DEF ClientType
<1> HIDE DEF c
<1>5. /\ client.told <= server.issued
      /\ InLibrary
      /\ Said("status") = {{200}} => client.told < server.issued
      /\ happened = {} =>
            client.told + (IF Said("status") = {{200}} THEN 1 ELSE 0) = server.issued
  BY <1>1 DEF SInv, Counted
<1>6. Status(200) <=> Said("status") = {{200}}
  BY <1>1, StatusSaid
<1>7. happened = {} => client.current_JWT \in server.tokens /\ client.current_JWT # Empty
  <2>1. happened = {} => client.current_JWT \in server.tokens
    BY <1>1, <1>5 DEF SInv, TokensValid
  <2>2. server.tokens \subseteq 1 .. Len(server.owner)
    BY DEF IInv, TypeOK, Issued
  <2> QED
    BY <2>1, <2>2 DEF Empty
<1>8. c.told <= server.issued
  BY <1>3, <1>4, <1>5, <1>6
<1>9. happened = {} => c.told = server.issued
  BY <1>3, <1>4, <1>5, <1>6, <1>7
<1>10. happened \subseteq {"expired"} => Matches(Held(c))
  <2>1. Held(c) = Held(client)
    BY <1>4 DEF Held
  <2> QED
    BY <1>1, <2>1 DEF SInv, SessionsKnown
<1>11. Fine(c)
  BY <1>4, <1>7, <1>8, <1>9, <1>10 DEF Fine
<1> QED
  BY <1>1, <1>4, <1>11, ReturnSession

LEMMA LogoutDoneSession == ASSUME IInv, SInv, LogoutDone PROVE SInv'
<1> DEFINE c == IF Status(200) THEN LoggedOut(client) ELSE client
<1>1. /\ client.at = "logout" /\ "logout" \in Commands /\ Done("logout") /\ Return(c)
      /\ "logout" \notin {"login", "add_book"} /\ Working
  BY DEF LogoutDone, Done, Commands, Working
<1>2. client.shown = Nothing /\ client \in ClientType
  BY <1>1, ShownYet
<1>3. client.told \in Nat /\ server.issued \in Nat
  BY DEF IInv, TypeOK, ClientType, ServerType
<1>4. /\ LoggedOut(client) \in ClientType
      /\ LoggedOut(client).told = client.told /\ LoggedOut(client).shown = Nothing
      /\ LoggedOut(client).isSomeoneLoggedIn = 0
      /\ LoggedOut(client).isSomeoneInLibrary = 0
  BY <1>2 DEF LoggedOut, ClientType
<1>5. client.told <= server.issued /\ (happened = {} => client.told = server.issued)
  BY <1>1, <1>3 DEF SInv, Counted
<1>6. Status(200) <=> Said("status") = {{200}}
  BY <1>1, StatusSaid
<1>7. happened \subseteq {"expired"} =>
         Matches(IF Said("status") = {{200}} THEN {} ELSE Held(client))
  BY <1>1 DEF SInv, SessionsKnown
<1>8. CASE Status(200)
  <2>1. Held(LoggedOut(client)) = {}
    BY <1>4 DEF Held
  <2>2. Fine(LoggedOut(client))
    BY <1>4, <1>5, <1>6, <1>7, <1>8, <2>1 DEF Fine
  <2> QED
    BY <1>1, <1>4, <1>8, <2>2, ReturnSession
<1>9. CASE ~Status(200)
  <2>1. happened = {} => (client.isSomeoneInLibrary = 1 => client.current_JWT \in server.tokens)
    BY <1>1 DEF SInv, TokensValid, InLibrary
  <2>2. happened \subseteq {"expired"} => Matches(Held(client))
    BY <1>6, <1>7, <1>9
  <2>3. Fine(client)
    BY <1>2, <1>5, <2>1, <2>2 DEF Fine
  <2> QED
    BY <1>1, <1>2, <1>9, <2>3, ReturnSession
<1> QED
  BY <1>8, <1>9

----------------------------------------------------------------------------
(* Everything else, and the theorems.                                      *)

LEMMA ReadsSession == ASSUME IInv, SInv, Reads PROVE SInv'
<1>1. UNCHANGED <<client, server, happened>>
  BY DEF Reads
<1>2. socket'.answer = socket.answer
  <2>1. socket \in SocketType
    BY DEF IInv, TypeOK
  <2> QED
    BY <2>1 DEF Reads, Receive, ReadHeader, ReadBody, BodyComplete, EndOfFile, Consume, SocketType
<1> QED
  BY <1>1, <1>2, SameSession

\* A cut takes from the answer what it had not sent, never adds a status.
LEMMA CutSaid == ASSUME IInv, AnswerCut PROVE Said("status")' \subseteq Said("status")
<1> DEFINE a == socket.answer
           b == reader.buffer
           w == socket.incoming
<1>1. /\ a \in Seq(Symbols) /\ b \in Seq(Symbols) /\ w \in Seq(Symbols)
      /\ Prefix(b, w, a)
  BY DEF IInv, TypeOK, SocketType, ReaderType, AnswerCut, Waiting, Reads_OK
<1>2. PICK rest \in Cuts(w) : socket'.answer = b \o rest
  BY DEF AnswerCut
<1> DEFINE c == b \o rest
<1>3. rest \in Seq(Symbols) /\ SentOf(rest, w)
  BY <1>1, CutSent
<1>4. SentOf(c, a)
  BY <1>1, <1>3, CutAnswer
<1>5. socket'.answer = c
  BY <1>2
<1> HIDE DEF a, b, c, w
<1>6. Part(c, "status") \subseteq Part(a, "status")
  <2> SUFFICES ASSUME NEW i \in 1 .. Len(c), c[i].is = "status"
               PROVE  c[i].val \in Part(a, "status")
    BY DEF Part
  <2>1. i \in 1 .. Len(a) /\ a[i] \in Symbols
    <3>1. Len(c) <= Len(a) /\ Len(a) \in Nat
      BY <1>1, <1>4 DEF SentOf
    <3>2. i \in 1 .. Len(a)
      BY <3>1
    <3> QED
      BY <1>1, <3>2
  <2>2. c[i] = a[i]
    BY <1>4, <2>1, TornType DEF SentOf
  <2> QED
    BY <2>1, <2>2 DEF Part
<1> QED
  BY <1>5, <1>6 DEF Said, a

LEMMA CutSession == ASSUME IInv, SInv, AnswerCut PROVE SInv'
<1>1. /\ UNCHANGED <<client, server>>
      /\ "cut" \notin happened /\ happened' = happened \cup {"cut"}
  BY DEF AnswerCut, Fault
<1>2. Said("status")' \subseteq Said("status")
  BY CutSaid
<1>3. client.at \in Commands => \E code \in Nat : Said("status") = {{code}}
  BY <1>1 DEF SInv, OneStatus
<1>4. OneStatus'
  BY <1>1, <1>2, <1>3 DEF OneStatus
<1>5. SessionsKnown' /\ TokensValid' /\ OwnBooks'
  <2>1. happened' # {} /\ ~(happened' \subseteq {"expired"})
    BY <1>1
  <2> QED
    BY <2>1 DEF SessionsKnown, TokensValid, OwnBooks
<1>6. Counted'
  <2>1. /\ client.at = "add_book" => client.at \in Commands
        /\ InLibrary' <=> InLibrary
        /\ happened' # {}
    BY <1>1 DEF Commands, InLibrary
  <2>2. client.at = "add_book" /\ Said("status")' = {{200}} => Said("status") = {{200}}
    BY <1>2, <1>3, <2>1
  <2> QED
    BY <1>1, <2>1, <2>2 DEF SInv, Counted
<1>7. ListKnown'
  <2>1. happened' # {}
    BY <1>1
  <2> QED
    BY <1>1, <2>1 DEF SInv, ListKnown
<1> QED
  BY <1>4, <1>5, <1>6, <1>7 DEF SInv

LEMMA ExpireSession == ASSUME IInv, SInv, Expire PROVE SInv'
<1>1. server \in ServerType
  BY DEF IInv, TypeOK
<1>2. /\ client' = client /\ socket' = socket /\ happened' = happened \cup {"expired"}
      /\ server'.issued = server.issued /\ server'.owner = server.owner
      /\ server'.sessions \subseteq server.sessions
  BY <1>1 DEF Expire, Fault, ServerType
<1>3. /\ \A is : Said(is)' = Said(is)
      /\ Issued' = Issued /\ Held(client)' = Held(client)
      /\ (InLibrary' <=> InLibrary) /\ (Working' <=> Working)
      /\ happened' # {}
  BY <1>2 DEF Said, Issued, Held, InLibrary, Working
<1>4. OneStatus'
  <2>1. "cut" \notin happened' => "cut" \notin happened
    BY <1>2
  <2> QED
    BY <1>2, <1>3, <2>1 DEF SInv, OneStatus
<1>5. SessionsKnown'
  <2>1. happened' \subseteq {"expired"} => happened \subseteq {"expired"}
    BY <1>2
  <2> QED
    BY <1>2, <1>3, <2>1 DEF SInv, SessionsKnown, Matches
<1>6. TokensValid' /\ OwnBooks' /\ ListKnown'
  BY <1>2, <1>3 DEF SInv, TokensValid, OwnBooks, ListKnown
<1>7. Counted'
  BY <1>2, <1>3 DEF SInv, Counted
<1> QED
  BY <1>4, <1>5, <1>6, <1>7 DEF SInv

LEMMA InitSession == ASSUME Init PROVE SInv
<1>1. /\ client = NewProcess /\ happened = {}
      /\ server.sessions = {} /\ server.issued = 0
  BY DEF Init
<1>2. /\ client.at = "prompt" /\ client.told = 0 /\ client.shown = Nothing
      /\ client.isSomeoneLoggedIn = 0 /\ client.isSomeoneInLibrary = 0
  BY <1>1 DEF NewProcess
<1>3. "prompt" \notin Commands
  BY DEF Commands
<1> QED
  BY <1>1, <1>2, <1>3 DEF SInv, OneStatus, SessionsKnown, Matches, TokensValid, Counted,
                          ListKnown, OwnBooks, Held, InLibrary

LEMMA NextSession == ASSUME IInv, SInv, [Next]_vars PROVE SInv'
<1>1. CASE RegisterUser \/ LoginUser \/ EnterLibrary \/ GetBooks \/ GetBook
             \/ AddBook \/ DeleteBook \/ LogoutUser
  BY <1>1, RegisterSession, LoginSession, EnterSession, ListSession, BookSession, AddSession,
     LogoutSession
<1>2. CASE Process
  BY <1>2, RegisteredSession, LoggedInSession, EnteredSession, ListedSession, PlainSession,
     AddedBookSession, LogoutDoneSession DEF Process
<1>3. CASE Exit \/ ConnectFails \/ ReadFails
  <2>1. Stop("exited")
    BY <1>3 DEF Exit, ConnectFails, ReadFails
  <2> QED
    BY <2>1, StopSession
<1>4. CASE UNCHANGED vars
  BY <1>4, SameSession DEF vars
<1> QED
  BY <1>1, <1>2, <1>3, <1>4, ReadsSession, CutSession, ExpireSession DEF Next

\* The strengthening is an invariant.
THEOREM SessionInvariance == Spec => [](IInv /\ SInv)
<1>1. Init => IInv /\ SInv
  BY InitOK, InitSession
<1>2. IInv /\ SInv /\ [Next]_vars => (IInv /\ SInv)'
  BY NextOK, NextSession
<1> QED
  BY <1>1, <1>2, PTL DEF Spec

\* At the prompt, the server holds no session but that of the cookie the client
\* says it is logged in with, even when sessions expire, and that one while
\* nothing goes wrong (client.c:101-105, 163-166, 402-408).
THEOREM FlagsAgree == Spec => []Agreed
<1>1. "prompt" \notin {"login", "logout"}
  OBVIOUS
<1>2. SInv => Agreed
  BY <1>1 DEF SInv, SessionsKnown, Matches, Agreed, AtPrompt, Working, Held
<1> QED
  BY <1>2, SessionInvariance, PTL

\* While nothing goes wrong, the list that get_books prints is the library of
\* the account that is logged in (client.c:221-261).
THEOREM BooksOwn == Spec => []OwnBooks
<1>1. SInv => OwnBooks
  BY DEF SInv
<1> QED
  BY <1>1, SessionInvariance, PTL

\* Whatever goes wrong, no more books are reported added than the server has
\* stored; all of them are when nothing does (client.c:348-351).
THEOREM ReportsTrue == Spec => []Truthful
<1>1. ASSUME IInv, SInv PROVE Truthful
  <2>1. client.told \in Nat
    BY <1>1 DEF IInv, TypeOK, ClientType
  <2>2. client.told <= server.issued
    BY <1>1 DEF SInv, Counted
  <2>3. ASSUME AtPrompt, happened = {} PROVE client.told = server.issued
    <3>1. Working /\ client.at # "add_book"
      BY <2>3 DEF AtPrompt, Working
    <3> QED
      BY <1>1, <2>1, <2>3, <3>1 DEF SInv, Counted
  <2> QED
    BY <2>2, <2>3 DEF Truthful
<1>2. IInv /\ SInv => Truthful
  BY <1>1
<1> QED
  BY <1>2, SessionInvariance, PTL

=============================================================================
