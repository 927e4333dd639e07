----------------------------- MODULE RestProofs -----------------------------
(* Proofs about RestClient, for any accounts, any size of read(), any      *)
(* framing of the answers and any faults: the types, WholeAnswer and       *)
(* OwnToken.                                                               *)
EXTENDS RestProperties, TLAPS

----------------------------------------------------------------------------
(* The inductive invariant.  An answer has one header end, at most one     *)
(* length, which is that of its body, and no cookie or token but those the *)
(* server has issued to the accounts in owner, whole or torn.              *)

IssuedTo(owner) == 1 .. Len(owner)
Issue_Or_Torn(val, owner) == val = {Partial} \/ \E k \in IssuedTo(owner) : val = {k}

\* a is an answer of n symbols, or as many as were sent of it; h is the number
\* of symbols before the header terminator.
Shape(a, n, h, owner) ==
    /\ h \in 1 .. n - 2
    /\ Len(a) <= n
    /\ \A i \in 1 .. Len(a) :
          /\ a[i].is = "crlf" <=> i \in {h + 1, h + 2}
          /\ a[i].is = "length" => i = h /\ a[i].val = {n - h - 2}
          /\ a[i].is = "cookie" => Issue_Or_Torn(a[i].val, owner)
          /\ a[i].is = "list" => a[i].val = {Partial} \/ a[i].val \subseteq Ids
          /\ a[i].is = "value" =>
                \/ \E j \in 1 .. i - 1 : a[j].is = "error"
                \/ Issue_Or_Torn(a[i].val, owner)

\* What was read and what is waiting are successive parts of the answer.
Prefix(b, w, a) ==
    /\ Len(b) + Len(w) = Len(a)
    /\ \A i \in 1 .. Len(b) : b[i] = a[i]
    /\ \A i \in 1 .. Len(w) : w[i] = a[Len(b) + i]

\* The reader works on an answer of the right shape, knows how long it is
\* once the header is complete, and is done with all that was sent of it.
Reads_OK ==
    reader.at # "idle" =>
        /\ \E n, h \in Nat : /\ Shape(socket.answer, n, h, server.owner)
                             /\ reader.at = "body" => Total = n
        /\ Prefix(reader.buffer, socket.incoming, socket.answer)
        /\ reader.at = "done" => socket.incoming = <<>>

\* An answer to enter_library holds a token only when the cookie sent was a
\* whole one, and then one for the account of the cookie.
TokenFor(a, owner, cookie) ==
    \A i \in 1 .. Len(a) : a[i].is = "value" =>
        \/ \E j \in 1 .. i - 1 : a[j].is = "error"
        \/ /\ cookie \in IssuedTo(owner)
           /\ \/ a[i].val = {Partial}
              \/ \E k \in IssuedTo(owner) : a[i].val = {k} /\ owner[k] = owner[cookie]

\* Somebody in the library is logged in, and whoever is logged in has a
\* cookie, or the beginning of one.
Session ==
    /\ reader.at = "idle" <=> client.at \notin Commands
    /\ client.isSomeoneInLibrary = 1 => client.isSomeoneLoggedIn = 1
    /\ client.isSomeoneLoggedIn = 1 => client.current_cookie_session \in Issued \cup {Partial}
    /\ client.at = "login" => client.isSomeoneLoggedIn = 0
    /\ client.at = "enter_library" =>
          /\ client.isSomeoneLoggedIn = 1
          /\ TokenFor(socket.answer, server.owner, client.current_cookie_session)

IInv == TypeOK /\ Reads_OK /\ Session /\ OwnToken

----------------------------------------------------------------------------
(* buffer_find() in what has been read of an answer.                       *)

LEMMA TheOnlyOne == ASSUME NEW x PROVE TheOnly({x}) = x
  BY DEF TheOnly

LEMMA TheOnlyIn == ASSUME NEW s, s # {} PROVE TheOnly(s) \in s
  BY DEF TheOnly

LEMMA Sums ==
    ASSUME NEW x \in Nat, NEW y \in Nat, NEW n \in Nat, NEW p, NEW q, p = x + n, q = y - n
    PROVE  p + q = x + y
  OBVIOUS

LEMMA Cancel == ASSUME NEW x \in Nat, NEW y \in Nat PROVE (x - y - 2) + (y + 2) = x
  OBVIOUS

LEMMA NothingLeft ==
    ASSUME NEW x \in Nat, NEW y \in Nat, NEW z \in Nat, NEW n \in Nat,
           x + y = z, z <= n, x >= n
    PROVE  y = 0
  OBVIOUS

LEMMA Terminator ==
    ASSUME NEW a \in Seq(Symbols), NEW n \in Nat, NEW h \in Nat, NEW owner,
           Shape(a, n, h, owner),
           NEW b \in Seq(Symbols), Len(b) <= Len(a), \A i \in 1 .. Len(b) : b[i] = a[i]
    PROVE  buffer_find(b, HEADER_TERMINATOR) \in {-1, h}
<1>1. \A i \in Occurrences(b, HEADER_TERMINATOR) : i = h
  <2> SUFFICES ASSUME NEW i \in Occurrences(b, HEADER_TERMINATOR) PROVE i = h
    OBVIOUS
  <2>1. i \in 0 .. Len(b) - 2
    BY DEF Occurrences, HEADER_TERMINATOR
  <2>2. b[i + 1].is = "crlf" /\ b[i + 2].is = "crlf"
    BY DEF Occurrences, HEADER_TERMINATOR
  <2>3. /\ i + 1 \in 1 .. Len(a) /\ a[i + 1].is = "crlf"
        /\ i + 2 \in 1 .. Len(a) /\ a[i + 2].is = "crlf"
    BY <2>1, <2>2
  <2>4. \A j \in 1 .. Len(a) : a[j].is = "crlf" => j \in {h + 1, h + 2}
    BY DEF Shape
  <2>5. i + 1 \in {h + 1, h + 2} /\ i + 2 \in {h + 1, h + 2}
    BY <2>3, <2>4
  <2> QED
    BY <2>1, <2>5
<1>2. CASE Occurrences(b, HEADER_TERMINATOR) = {}
  BY <1>2 DEF buffer_find
<1>3. CASE Occurrences(b, HEADER_TERMINATOR) # {}
  <2>1. Occurrences(b, HEADER_TERMINATOR) = {h}
    BY <1>1, <1>3
  <2> QED
    BY <2>1 DEF buffer_find
<1> QED
  BY <1>2, <1>3

LEMMA Length ==
    ASSUME NEW a \in Seq(Symbols), NEW n \in Nat, NEW h \in Nat, NEW owner,
           Shape(a, n, h, owner),
           NEW b \in Seq(Symbols), Len(b) <= Len(a), \A i \in 1 .. Len(b) : b[i] = a[i],
           buffer_find(b, CONTENT_LENGTH) >= 0
    PROVE  Announced(b) = n - h - 2
<1>1. \A i \in Occurrences(b, CONTENT_LENGTH) : i = h - 1 /\ b[h].val = {n - h - 2}
  <2> SUFFICES ASSUME NEW i \in Occurrences(b, CONTENT_LENGTH)
               PROVE  i = h - 1 /\ b[h].val = {n - h - 2}
    OBVIOUS
  <2>1. i \in 0 .. Len(b) - 1 /\ b[i + 1].is = "length"
    BY DEF Occurrences, CONTENT_LENGTH
  <2>2. i + 1 \in 1 .. Len(a) /\ b[i + 1] = a[i + 1]
    BY <2>1
  <2>3. \A j \in 1 .. Len(a) : a[j].is = "length" => j = h /\ a[j].val = {n - h - 2}
    BY DEF Shape
  <2>4. i + 1 = h /\ a[i + 1].val = {n - h - 2}
    BY <2>1, <2>2, <2>3
  <2> QED
    BY <2>1, <2>2, <2>4
<1>2. Occurrences(b, CONTENT_LENGTH) # {}
  BY DEF buffer_find
<1>3. Occurrences(b, CONTENT_LENGTH) = {h - 1}
  BY <1>1, <1>2
<1>4. buffer_find(b, CONTENT_LENGTH) = h - 1
  BY <1>3 DEF buffer_find
<1>5. b[h - 1 + 1].val = {n - h - 2}
  BY <1>1, <1>3
<1> QED
  BY <1>4, <1>5, TheOnlyOne DEF Announced

----------------------------------------------------------------------------
(* The answers of the server.                                              *)

HeaderOf(status, cookies, n, framing) ==
    <<Symbol("status", {status})>>
        \o cookies
        \o (IF framing = "length" THEN <<Symbol("length", {n})>> ELSE <<>>)

\* cookies of an answer, and the tokens of its body, were issued.
CookiesOK(cookies, owner) ==
    \/ cookies = <<>>
    \/ \E k \in IssuedTo(owner) : cookies = <<Symbol("cookie", {k})>>

BodyOK(body, owner) ==
    \/ body = <<>>
    \/ body = Json("error", {400})
    \/ \E k \in IssuedTo(owner) : body = Json("token", {k})
    \/ \E list \in SUBSET Ids : body = <<Symbol("list", list)>>

LEMMA One ==
    ASSUME NEW S, NEW x \in S
    PROVE  <<x>> \in Seq(S) /\ Len(<<x>>) = 1 /\ <<x>>[1] = x
  OBVIOUS

LEMMA Four ==
    ASSUME NEW S, NEW w \in S, NEW x \in S, NEW y \in S, NEW z \in S
    PROVE  <<w, x, y, z>> \in Seq(S) /\ Len(<<w, x, y, z>>) = 4
  OBVIOUS

LEMMA Concat ==
    ASSUME NEW S, NEW s \in Seq(S), NEW t \in Seq(S)
    PROVE  /\ s \o t \in Seq(S)
           /\ Len(s \o t) = Len(s) + Len(t)
           /\ \A i \in 1 .. Len(s) : (s \o t)[i] = s[i]
           /\ \A i \in 1 .. Len(t) : (s \o t)[Len(s) + i] = t[i]
  OBVIOUS

LEMMA KindNames ==
    /\ "status" \in Kinds /\ "cookie" \in Kinds /\ "length" \in Kinds /\ "crlf" \in Kinds
    /\ "{" \in Kinds /\ "token" \in Kinds /\ "error" \in Kinds /\ "value" \in Kinds
    /\ "}" \in Kinds /\ "list" \in Kinds
    /\ {} \in SUBSET Int
  BY DEF Kinds

LEMMA SymbolType ==
    ASSUME NEW is \in Kinds, NEW val \in SUBSET Int
    PROVE  /\ Symbol(is, val) \in Symbols
           /\ Symbol(is, val).is = is
           /\ Symbol(is, val).val = val
  BY DEF Symbol, Symbols

LEMMA NumberType ==
    ASSUME NEW is \in Kinds, NEW n \in Nat
    PROVE  /\ Symbol(is, {n}) \in Symbols
           /\ Symbol(is, {n}).is = is
           /\ Symbol(is, {n}).val = {n}
<1>1. {n} \in SUBSET Int
  OBVIOUS
<1> QED
  BY <1>1, SymbolType

JsonParts(body, key, val) ==
    /\ body \in Seq(Symbols)
    /\ Len(body) = 4
    /\ body[1].is = "{" /\ body[2].is = key /\ body[3].is = "value" /\ body[4].is = "}"
    /\ body[3].val = val

LEMMA JsonShape ==
    ASSUME NEW key \in {"error", "token"}, NEW val \in SUBSET Int
    PROVE  JsonParts(Json(key, val), key, val)
<1> DEFINE body == Json(key, val)
<1>1. /\ Symbol("{", {}) \in Symbols /\ Symbol("{", {}).is = "{"
      /\ Symbol("}", {}) \in Symbols /\ Symbol("}", {}).is = "}"
  BY KindNames, SymbolType
<1>2. key \in Kinds
  BY KindNames
<1>3. Symbol(key, {}) \in Symbols /\ Symbol(key, {}).is = key
  BY <1>2, KindNames, SymbolType
<1>4. /\ Symbol("value", val) \in Symbols
      /\ Symbol("value", val).is = "value"
      /\ Symbol("value", val).val = val
  BY KindNames, SymbolType
<1>5. body = <<Symbol("{", {}), Symbol(key, {}), Symbol("value", val), Symbol("}", {})>>
  BY DEF Json
<1> HIDE DEF body
<1>6. body \in Seq(Symbols) /\ Len(body) = 4
  BY <1>1, <1>3, <1>4, <1>5, Four
<1>7. /\ body[1] = Symbol("{", {}) /\ body[2] = Symbol(key, {})
      /\ body[3] = Symbol("value", val) /\ body[4] = Symbol("}", {})
  BY <1>5
<1> QED
  BY <1>1, <1>3, <1>4, <1>6, <1>7 DEF body, JsonParts

\* The third part of a JSON body is its value: that of an error or of a token.
BodyParts(body, owner) ==
    /\ body \in Seq(Symbols)
    /\ \A i \in 1 .. Len(body) :
          /\ body[i].is \notin {"crlf", "length", "cookie"}
          /\ body[i].is = "list" => body[i].val \subseteq Ids
          /\ body[i].is = "value" =>
                /\ i = 3 /\ Len(body) = 4 /\ body[4].is = "}"
                /\ \/ body[2].is = "error"
                   \/ \E k \in IssuedTo(owner) :
                         body = Json("token", {k}) /\ body[3].val = {k}

LEMMA BodyShape ==
    ASSUME NEW owner \in Seq(Users), NEW body, BodyOK(body, owner)
    PROVE  BodyParts(body, owner)
<1>1. CASE body = <<>>
  BY <1>1 DEF BodyParts
<1>2. CASE body = Json("error", {400})
  <2>1. {400} \in SUBSET Int
    OBVIOUS
  <2>2. JsonParts(body, "error", {400})
    BY <1>2, <2>1, JsonShape
  <2>3. Len(body) = 4
    BY <2>2 DEF JsonParts
  <2>4. \A i \in 1 .. Len(body) : i = 1 \/ i = 2 \/ i = 3 \/ i = 4
    BY <2>3
  <2> QED
    BY <2>2, <2>4 DEF BodyParts, JsonParts
<1>3. ASSUME NEW k \in IssuedTo(owner), body = Json("token", {k})
      PROVE  BodyParts(body, owner)
  <2>1. {k} \in SUBSET Int
    BY DEF IssuedTo
  <2>2. JsonParts(body, "token", {k})
    BY <1>3, <2>1, JsonShape
  <2>3. Len(body) = 4
    BY <2>2 DEF JsonParts
  <2>4. \A i \in 1 .. Len(body) : i = 1 \/ i = 2 \/ i = 3 \/ i = 4
    BY <2>3
  <2> QED
    BY <1>3, <2>2, <2>4 DEF BodyParts, JsonParts
<1>4. ASSUME NEW list \in SUBSET Ids, body = <<Symbol("list", list)>>
      PROVE  BodyParts(body, owner)
  <2>1. list \in SUBSET Int
    BY DEF Ids
  <2>2. /\ Symbol("list", list) \in Symbols /\ Symbol("list", list).is = "list"
        /\ Symbol("list", list).val = list
    BY <2>1, KindNames, SymbolType
  <2> QED
    BY <1>4, <2>2, One DEF BodyParts
<1> QED
  BY <1>1, <1>2, <1>3, <1>4 DEF BodyOK

\* A header for a body of n symbols: the length comes last, a cookie is one of the owner's.
HeadParts(head, n, owner) ==
    /\ head \in Seq(Symbols)
    /\ Len(head) \in Nat \ {0}
    /\ \A i \in 1 .. Len(head) :
          /\ head[i].is \notin {"crlf", "value", "error", "list"}
          /\ head[i].is = "length" => i = Len(head) /\ head[i].val = {n}
          /\ head[i].is = "cookie" => \E k \in IssuedTo(owner) : head[i].val = {k}

LEMMA HeadShape ==
    ASSUME NEW owner \in Seq(Users), NEW status \in Nat, NEW cookies, CookiesOK(cookies, owner),
           NEW n \in Nat, NEW framing
    PROVE  HeadParts(HeaderOf(status, cookies, n, framing), n, owner)
<1> DEFINE first == <<Symbol("status", {status})>>
           length == IF framing = "length" THEN <<Symbol("length", {n})>> ELSE <<>>
           front == first \o cookies
           AllCookies == \A i \in 1 .. Len(cookies) :
                            /\ cookies[i].is = "cookie"
                            /\ \E k \in IssuedTo(owner) : cookies[i].val = {k}
<1>1. /\ first \in Seq(Symbols) /\ Len(first) = 1 /\ first[1].is = "status"
  BY KindNames, NumberType, One
<1>2. cookies \in Seq(Symbols) /\ AllCookies
  <2>1. CASE cookies = <<>>
    BY <2>1
  <2>2. ASSUME NEW k \in IssuedTo(owner), cookies = <<Symbol("cookie", {k})>>
        PROVE  cookies \in Seq(Symbols) /\ AllCookies
    <3>1. k \in Nat
      BY DEF IssuedTo
    <3>2. /\ Symbol("cookie", {k}) \in Symbols
          /\ Symbol("cookie", {k}).is = "cookie"
          /\ Symbol("cookie", {k}).val = {k}
      BY <3>1, KindNames, NumberType
    <3>3. cookies \in Seq(Symbols) /\ Len(cookies) = 1 /\ cookies[1] = Symbol("cookie", {k})
      BY <2>2, <3>2, One
    <3>4. \A i \in 1 .. Len(cookies) : i = 1
      BY <3>3
    <3> QED
      BY <3>2, <3>3, <3>4
  <2> QED
    BY <2>1, <2>2 DEF CookiesOK
<1>3. /\ length \in Seq(Symbols)
      /\ \/ Len(length) = 0
         \/ Len(length) = 1 /\ length[1].is = "length" /\ length[1].val = {n}
  <2>1. /\ Symbol("length", {n}) \in Symbols
        /\ Symbol("length", {n}).is = "length"
        /\ Symbol("length", {n}).val = {n}
    BY KindNames, NumberType
  <2>2. /\ <<Symbol("length", {n})>> \in Seq(Symbols)
        /\ Len(<<Symbol("length", {n})>>) = 1
        /\ <<Symbol("length", {n})>>[1] = Symbol("length", {n})
    BY <2>1, One
  <2>3. CASE framing = "length"
    BY <2>1, <2>2, <2>3
  <2>4. CASE framing # "length"
    BY <2>4
  <2> QED
    BY <2>3, <2>4
<1> HIDE DEF first, length
<1> HIDE DEF AllCookies
<1>3a. first \in Seq(Symbols) /\ cookies \in Seq(Symbols) /\ length \in Seq(Symbols)
  BY <1>1, <1>2, <1>3
<1>4. /\ front \in Seq(Symbols)
      /\ Len(front) = Len(first) + Len(cookies)
      /\ \A i \in 1 .. Len(first) : front[i] = first[i]
      /\ \A i \in 1 .. Len(cookies) : front[Len(first) + i] = cookies[i]
  BY <1>3a, Concat
<1>5. /\ Len(front) = 1 + Len(cookies)
      /\ front[1] = first[1]
      /\ \A i \in 1 .. Len(cookies) : front[1 + i] = cookies[i]
  BY <1>1, <1>4
<1>6. \A i \in 1 .. Len(front) :
         /\ front[i].is \in {"status", "cookie"}
         /\ front[i].is = "cookie" => \E k \in IssuedTo(owner) : front[i].val = {k}
  <2> SUFFICES ASSUME NEW i \in 1 .. Len(front)
               PROVE  /\ front[i].is \in {"status", "cookie"}
                      /\ front[i].is = "cookie" =>
                            \E k \in IssuedTo(owner) : front[i].val = {k}
    OBVIOUS
  <2>1. CASE i = 1
    BY <1>1, <1>5, <2>1
  <2>2. CASE i # 1
    <3>1. i - 1 \in 1 .. Len(cookies) /\ i = 1 + (i - 1)
      BY <1>2, <1>5, <2>2
    <3>2. front[i] = cookies[i - 1]
      BY <1>5, <3>1
    <3> QED
      BY <1>2, <3>1, <3>2 DEF AllCookies
  <2> QED
    BY <2>1, <2>2
<1>7. front \o length = HeaderOf(status, cookies, n, framing)
  BY DEF HeaderOf, first, length
<1> HIDE DEF front
<1>7a. front \in Seq(Symbols)
  BY <1>4
<1>8. /\ front \o length \in Seq(Symbols)
      /\ Len(front \o length) = Len(front) + Len(length)
      /\ \A i \in 1 .. Len(front) : (front \o length)[i] = front[i]
      /\ \A i \in 1 .. Len(length) : (front \o length)[Len(front) + i] = length[i]
  BY <1>3a, <1>7a, Concat
<1> DEFINE head == HeaderOf(status, cookies, n, framing)
<1>9. /\ head \in Seq(Symbols)
      /\ Len(head) = Len(front) + Len(length)
      /\ \A i \in 1 .. Len(front) : head[i] = front[i]
      /\ \A i \in 1 .. Len(length) : head[Len(front) + i] = length[i]
  BY <1>7, <1>8
<1> HIDE DEF head
<1>10. /\ Len(front) \in Nat \ {0} /\ Len(cookies) \in Nat
       /\ Len(length) \in {0, 1} /\ Len(head) \in Nat \ {0}
  BY <1>2, <1>3, <1>5, <1>9
<1>11. ASSUME NEW i \in 1 .. Len(head)
       PROVE  /\ head[i].is \notin {"crlf", "value", "error", "list"}
              /\ head[i].is = "length" => i = Len(head) /\ head[i].val = {n}
              /\ head[i].is = "cookie" => \E k \in IssuedTo(owner) : head[i].val = {k}
  <2>1. CASE i <= Len(front)
    <3>1. i \in 1 .. Len(front) /\ head[i] = front[i]
      BY <1>9, <1>10, <2>1
    <3> QED
      BY <1>6, <3>1
  <2>2. CASE i > Len(front)
    <3>1. Len(length) = 1 /\ i = Len(front) + 1 /\ i = Len(head)
      BY <1>9, <1>10, <2>2
    <3>2. head[i] = length[1]
      BY <1>9, <3>1
    <3> QED
      BY <1>3, <3>1, <3>2
  <2> QED
    BY <1>10, <2>1, <2>2
<1>12. HeadParts(head, n, owner)
  BY <1>9, <1>10, <1>11 DEF HeadParts
<1> QED
  BY <1>12 DEF head

\* Where the parts of an answer are found in it.
AnswerParts(a, head, body) ==
    /\ a \in Seq(Symbols)
    /\ Len(a) = Len(head) + 2 + Len(body)
    /\ \A i \in 1 .. Len(head) : a[i] = head[i]
    /\ a[Len(head) + 1].is = "crlf" /\ a[Len(head) + 2].is = "crlf"
    /\ \A i \in 1 .. Len(body) : a[Len(head) + 2 + i] = body[i]

LEMMA Assembled ==
    ASSUME NEW status, NEW cookies, NEW framing, NEW body \in Seq(Symbols),
           HeaderOf(status, cookies, Len(body), framing) \in Seq(Symbols)
    PROVE  AnswerParts(Answer(status, cookies, body, framing),
                       HeaderOf(status, cookies, Len(body), framing), body)
<1> DEFINE head == HeaderOf(status, cookies, Len(body), framing)
           crlf == Symbol("crlf", {})
           blank == <<crlf, crlf>>
           top == head \o blank
           a == Answer(status, cookies, body, framing)
<1>1. a = top \o body
  BY DEF Answer, HeaderOf
<1>2. head \in Seq(Symbols) /\ Len(head) \in Nat /\ Len(body) \in Nat
  OBVIOUS
<1> HIDE DEF head, a
<1>3. crlf \in Symbols /\ crlf.is = "crlf"
  BY KindNames, SymbolType
<1> HIDE DEF crlf
<1>4. blank \in Seq(Symbols) /\ Len(blank) = 2 /\ blank[1] = crlf /\ blank[2] = crlf
  BY <1>3
<1>5. blank \in Seq(Symbols)
  BY <1>4
<1> HIDE DEF blank
<1>6. /\ top \in Seq(Symbols)
      /\ Len(top) = Len(head) + Len(blank)
      /\ \A i \in 1 .. Len(head) : top[i] = head[i]
      /\ \A i \in 1 .. Len(blank) : top[Len(head) + i] = blank[i]
  BY <1>2, <1>5, Concat
<1>7. top \in Seq(Symbols)
  BY <1>6
<1> HIDE DEF top
<1>8. /\ top \o body \in Seq(Symbols)
      /\ Len(top \o body) = Len(top) + Len(body)
      /\ \A i \in 1 .. Len(top) : (top \o body)[i] = top[i]
      /\ \A i \in 1 .. Len(body) : (top \o body)[Len(top) + i] = body[i]
  BY <1>7, Concat
<1>9. /\ a \in Seq(Symbols)
      /\ Len(a) = Len(top) + Len(body)
      /\ \A i \in 1 .. Len(top) : a[i] = top[i]
      /\ \A i \in 1 .. Len(body) : a[Len(top) + i] = body[i]
  BY <1>1, <1>8
<1>10. Len(top) = Len(head) + 2
  BY <1>4, <1>6
<1>11. \A i \in 1 .. Len(head) : a[i] = head[i]
  BY <1>2, <1>6, <1>9, <1>10
<1>12. top[Len(head) + 1] = crlf /\ top[Len(head) + 2] = crlf
  BY <1>4, <1>6
<1>13. a[Len(head) + 1] = crlf /\ a[Len(head) + 2] = crlf
  BY <1>2, <1>9, <1>10, <1>12
<1>14. /\ Len(a) = Len(head) + 2 + Len(body)
       /\ \A i \in 1 .. Len(body) : a[Len(head) + 2 + i] = body[i]
  BY <1>9, <1>10
<1> QED
  BY <1>3, <1>9, <1>11, <1>13, <1>14 DEF AnswerParts, head, a

LEMMA AnswerShape ==
    ASSUME NEW owner \in Seq(Users), NEW status \in Nat,
           NEW cookies, CookiesOK(cookies, owner),
           NEW body, BodyOK(body, owner), NEW framing
    PROVE  LET a == Answer(status, cookies, body, framing)
           IN  /\ a \in Seq(Symbols)
               /\ \E h \in Nat : Shape(a, Len(a), h, owner)
               /\ \A c : (\A k \in IssuedTo(owner) :
                             body = Json("token", {k}) =>
                                c \in IssuedTo(owner) /\ owner[k] = owner[c])
                            => TokenFor(a, owner, c)
<1> DEFINE n == Len(body)
           head == HeaderOf(status, cookies, n, framing)
           a == Answer(status, cookies, body, framing)
           h == Len(head)
<1>1. BodyParts(body, owner)
  BY BodyShape
<1>2. body \in Seq(Symbols) /\ n \in Nat
  <2>1. body \in Seq(Symbols)
    BY <1>1 DEF BodyParts
  <2> QED
    BY <2>1
<1> HIDE DEF n
<1>3. /\ head \in Seq(Symbols)
      /\ h \in Nat \ {0}
      /\ \A i \in 1 .. h :
            /\ head[i].is \notin {"crlf", "value", "error", "list"}
            /\ head[i].is = "length" => i = h /\ head[i].val = {n}
            /\ head[i].is = "cookie" => \E k \in IssuedTo(owner) : head[i].val = {k}
  <2>1. HeadParts(head, n, owner)
    BY <1>2, HeadShape
  <2> QED
    BY <2>1 DEF HeadParts
<1>4. AnswerParts(a, head, body)
  BY <1>2, <1>3, Assembled DEF n
<1> HIDE DEF head, a
<1>5. /\ a \in Seq(Symbols)
      /\ Len(a) = h + 2 + n
      /\ \A i \in 1 .. h : a[i] = head[i]
      /\ a[h + 1].is = "crlf" /\ a[h + 2].is = "crlf"
      /\ \A i \in 1 .. n : a[h + 2 + i] = body[i]
  BY <1>4 DEF AnswerParts, n
<1> HIDE DEF h
<1>6. h \in 1 .. Len(a) - 2
  BY <1>2, <1>3, <1>5
<1>7. \A i \in 1 .. Len(a) : i \in 1 .. h \/ i \in {h + 1, h + 2} \/ i - h - 2 \in 1 .. n
  BY <1>2, <1>3, <1>5
<1>8. ASSUME NEW i \in 1 .. Len(a), i - h - 2 \in 1 .. n
      PROVE  /\ a[i] = body[i - h - 2]
             /\ i \notin 1 .. h /\ i \notin {h + 1, h + 2}
  <2>1. a[h + 2 + (i - h - 2)] = body[i - h - 2]
    BY <1>5, <1>8
  <2> QED
    BY <2>1, <1>3, <1>8
<1>9. ASSUME NEW i \in 1 .. Len(a), a[i].is = "value"
      PROVE  \/ i - 1 \in 1 .. i - 1 /\ a[i - 1].is = "error"
             \/ \E k \in IssuedTo(owner) : a[i].val = {k} /\ body = Json("token", {k})
  <2>1. i - h - 2 \in 1 .. n /\ a[i] = body[i - h - 2]
    BY <1>3, <1>5, <1>7, <1>8, <1>9
  <2>2. /\ i - h - 2 = 3 /\ n = 4
        /\ \/ body[2].is = "error"
           \/ \E k \in IssuedTo(owner) : body = Json("token", {k}) /\ body[3].val = {k}
    BY <2>1, <1>1, <1>9 DEF BodyParts, n
  <2>3. i - h - 2 = 3 /\ n = 4
    BY <2>2
  <2>4. /\ Len(a) = h + 2 + n
        /\ \A j \in 1 .. n : a[h + 2 + j] = body[j]
    BY <1>5
  <2>5. a[h + 2 + 2] = body[2]
    BY <2>3, <2>4
  <2>6. h \in Nat
    BY <1>3
  <2>7. i = h + 5 /\ i - 1 = h + 2 + 2 /\ i - 1 \in 1 .. i - 1
    BY <2>3, <2>6
  <2> QED
    BY <2>1, <2>2, <2>5, <2>7
<1>10. ASSUME NEW c,
              \A k \in IssuedTo(owner) :
                 body = Json("token", {k}) => c \in IssuedTo(owner) /\ owner[k] = owner[c]
       PROVE  TokenFor(a, owner, c)
  BY <1>9, <1>10 DEF TokenFor
<1>11. ASSUME NEW i \in 1 .. Len(a)
       PROVE  /\ a[i].is = "crlf" <=> i \in {h + 1, h + 2}
              /\ a[i].is = "length" => i = h /\ a[i].val = {Len(a) - h - 2}
              /\ a[i].is = "cookie" => \E k \in IssuedTo(owner) : a[i].val = {k}
              /\ a[i].is = "list" => a[i].val \subseteq Ids
  <2>1. n = Len(a) - h - 2
    BY <1>2, <1>3, <1>5
  <2>2. CASE i \in 1 .. h
    <3>1. a[i] = head[i] /\ i \notin {h + 1, h + 2}
      BY <1>3, <1>5, <2>2
    <3> QED
      BY <1>3, <2>1, <2>2, <3>1
  <2>3. CASE i \in {h + 1, h + 2}
    BY <1>5, <2>3
  <2>4. CASE i - h - 2 \in 1 .. n
    <3>1. /\ body[i - h - 2].is \notin {"crlf", "length", "cookie"}
          /\ body[i - h - 2].is = "list" => body[i - h - 2].val \subseteq Ids
      BY <1>1, <2>4 DEF BodyParts, n
    <3> QED
      BY <1>8, <2>4, <3>1
  <2> QED
    BY <1>7, <2>2, <2>3, <2>4
<1>12. Shape(a, Len(a), h, owner)
  <2>1. \A i \in 1 .. Len(a) : a[i].is = "value" =>
           \/ \E j \in 1 .. i - 1 : a[j].is = "error"
           \/ Issue_Or_Torn(a[i].val, owner)
    BY <1>9 DEF Issue_Or_Torn
  <2>2. Len(a) <= Len(a)
    BY <1>5
  <2> QED
    BY <1>6, <1>11, <2>1, <2>2 DEF Shape, Issue_Or_Torn
<1> QED
  BY <1>3, <1>5, <1>10, <1>12 DEF a

----------------------------------------------------------------------------
(* What the server may do with a request.                                  *)

\* It keeps its types, takes back nothing it has issued, and answers with
\* parts of the kinds above.
Serves(s, answer) ==
    /\ s \in ServerType
    /\ s.sessions \subseteq IssuedTo(s.owner) /\ s.tokens \subseteq IssuedTo(s.owner)
    /\ Len(server.owner) <= Len(s.owner)
    /\ \A k \in IssuedTo(server.owner) : s.owner[k] = server.owner[k]
    /\ answer.status \in Nat
    /\ CookiesOK(answer.cookies, s.owner)
    /\ BodyOK(answer.body, s.owner)

LEMMA OwnersOK == ASSUME TypeOK PROVE server.owner \in Seq(Users) /\ Len(server.owner) \in Nat
<1>1. server.owner \in Seq(Users)
  BY DEF TypeOK, ServerType
<1> QED
  BY <1>1

LEMMA RefusalServes == ASSUME TypeOK PROVE Serves(server, Refusal)
  BY OwnersOK DEF TypeOK, Serves, Refusal, CookiesOK, BodyOK, Issued, IssuedTo

\* A change to anything but the owners, with an answer of parts of the kinds
\* that need none.
LEMMA ChangeServes ==
    ASSUME TypeOK, NEW s \in ServerType, s.owner = server.owner,
           s.sessions \subseteq server.sessions, s.tokens \subseteq server.tokens,
           NEW answer, answer.status \in Nat, answer.cookies = <<>>,
           answer.body = <<>> \/ \E list \in SUBSET Ids : answer.body = <<Symbol("list", list)>>
    PROVE  Serves(s, answer)
<1>1. server.sessions \subseteq IssuedTo(server.owner) /\ server.tokens \subseteq IssuedTo(server.owner)
  BY DEF TypeOK, Issued, IssuedTo
<1>2. BodyOK(answer.body, s.owner) /\ CookiesOK(answer.cookies, s.owner)
  BY DEF BodyOK, CookiesOK
<1> QED
  BY <1>1, <1>2, OwnersOK DEF Serves

LEMMA IssueGrows ==
    ASSUME TypeOK, NEW u \in Users
    PROVE  /\ Issue(u) \in ServerType
           /\ Issue(u).owner = Append(server.owner, u)
           /\ Issue(u).sessions = server.sessions /\ Issue(u).tokens = server.tokens
           /\ New \in IssuedTo(Issue(u).owner) /\ New \in Nat
           /\ IssuedTo(server.owner) \subseteq IssuedTo(Issue(u).owner)
           /\ Issue(u).owner[New] = u
           /\ \A k \in IssuedTo(server.owner) : Issue(u).owner[k] = server.owner[k]
           /\ Len(server.owner) <= Len(Issue(u).owner)
<1>1. server \in ServerType
  BY DEF TypeOK
<1>2. /\ Append(server.owner, u) \in Seq(Users)
      /\ Len(Append(server.owner, u)) = Len(server.owner) + 1
      /\ Append(server.owner, u)[Len(server.owner) + 1] = u
      /\ \A k \in 1 .. Len(server.owner) : Append(server.owner, u)[k] = server.owner[k]
  BY OwnersOK
<1>3. /\ Issue(u) \in ServerType
      /\ Issue(u).owner = Append(server.owner, u)
      /\ Issue(u).sessions = server.sessions /\ Issue(u).tokens = server.tokens
  BY <1>1, <1>2 DEF Issue, ServerType
<1> QED
  BY <1>2, <1>3, OwnersOK DEF New, IssuedTo

LEMMA LoginServes ==
    ASSUME TypeOK, NEW u \in Users
    PROVE  Serves([Issue(u) EXCEPT !.sessions = @ \cup {New}],
                  [Success EXCEPT !.cookies = <<Symbol("cookie", {New})>>])
<1> DEFINE s == [Issue(u) EXCEPT !.sessions = @ \cup {New}]
           answer == [Success EXCEPT !.cookies = <<Symbol("cookie", {New})>>]
<1>1. /\ s \in ServerType
      /\ s.owner = Issue(u).owner
      /\ s.sessions = server.sessions \cup {New} /\ s.tokens = server.tokens
  <2> DEFINE t == Issue(u)
  <2>1. /\ t \in ServerType /\ New \in Nat
        /\ t.sessions = server.sessions /\ t.tokens = server.tokens
    BY IssueGrows
  <2> HIDE DEF t
  <2> QED
    BY <2>1 DEF ServerType, t
<1>2. answer.status \in Nat /\ answer.cookies = <<Symbol("cookie", {New})>> /\ answer.body = <<>>
  BY DEF Success
<1>3. CookiesOK(answer.cookies, s.owner) /\ BodyOK(answer.body, s.owner)
  BY <1>1, <1>2, IssueGrows DEF CookiesOK, BodyOK
<1>4. server.sessions \subseteq IssuedTo(server.owner) /\ server.tokens \subseteq IssuedTo(server.owner)
  BY DEF TypeOK, Issued, IssuedTo
<1> HIDE DEF s, answer
<1> QED
  BY <1>1, <1>2, <1>3, <1>4, IssueGrows DEF Serves, s, answer

LEMMA AccessServes ==
    ASSUME TypeOK, NEW u \in Users
    PROVE  Serves([Issue(u) EXCEPT !.tokens = @ \cup {New}],
                  [Success EXCEPT !.body = Json("token", {New})])
<1> DEFINE s == [Issue(u) EXCEPT !.tokens = @ \cup {New}]
           answer == [Success EXCEPT !.body = Json("token", {New})]
<1>1. /\ s \in ServerType
      /\ s.owner = Issue(u).owner
      /\ s.sessions = server.sessions /\ s.tokens = server.tokens \cup {New}
  <2> DEFINE t == Issue(u)
  <2>1. /\ t \in ServerType /\ New \in Nat
        /\ t.sessions = server.sessions /\ t.tokens = server.tokens
    BY IssueGrows
  <2> HIDE DEF t
  <2> QED
    BY <2>1 DEF ServerType, t
<1>2. answer.status \in Nat /\ answer.cookies = <<>> /\ answer.body = Json("token", {New})
  BY DEF Success
<1>3. CookiesOK(answer.cookies, s.owner) /\ BodyOK(answer.body, s.owner)
  BY <1>1, <1>2, IssueGrows DEF CookiesOK, BodyOK
<1>4. server.sessions \subseteq IssuedTo(server.owner) /\ server.tokens \subseteq IssuedTo(server.owner)
  BY DEF TypeOK, Issued, IssuedTo
<1> HIDE DEF s, answer
<1> QED
  BY <1>1, <1>2, <1>3, <1>4, IssueGrows DEF Serves, s, answer

\* The account of a valid cookie or token.
LEMMA BearerOK ==
    ASSUME TypeOK, NEW k, NEW valid, valid \subseteq IssuedTo(server.owner),
           Bearer(k, valid) # NoUser
    PROVE  Bearer(k, valid) \in Users /\ Bearer(k, valid) = server.owner[k]
<1>1. k \in valid /\ Bearer(k, valid) = server.owner[k]
  BY DEF Bearer
<1>2. k \in 1 .. Len(server.owner)
  BY <1>1 DEF IssuedTo
<1>3. server.owner \in Seq(Users)
  BY OwnersOK
<1>4. server.owner[k] \in Users
  BY <1>2, <1>3
<1> QED
  BY <1>1, <1>4

LEMMA RegisterHandled ==
    ASSUME TypeOK, NEW u \in Users
    PROVE  LET h == Handled(compute_post_request(Register, u, None))
           IN  Serves(h[1], h[2])
<1> DEFINE r == compute_post_request(Register, u, None)
           s == [server EXCEPT !.registered = @ \cup {u}]
           answer == [Success EXCEPT !.status = 201]
<1>1. Handled(r) = IF u \in server.registered THEN <<server, Refusal>> ELSE <<s, answer>>
  BY DEF Handled, compute_post_request, Register, Login, Access, Logout, Books
<1>2. /\ s \in ServerType /\ s.owner = server.owner
      /\ s.sessions = server.sessions /\ s.tokens = server.tokens
  BY DEF TypeOK, ServerType
<1>3. answer.status \in Nat /\ answer.cookies = <<>> /\ answer.body = <<>>
  BY DEF Success
<1>4. Serves(s, answer)
  <2> HIDE DEF s, answer
  <2> QED
    BY <1>2, <1>3, ChangeServes
<1> HIDE DEF r, s, answer
<1>5. CASE u \in server.registered
  BY <1>1, <1>5, RefusalServes DEF r
<1>6. CASE u \notin server.registered
  BY <1>1, <1>4, <1>6 DEF r
<1> QED
  BY <1>5, <1>6

LEMMA LoginHandled ==
    ASSUME TypeOK, NEW u \in Users
    PROVE  LET h == Handled(compute_post_request(Login, u, None))
           IN  Serves(h[1], h[2])
<1> DEFINE r == compute_post_request(Login, u, None)
           s == [Issue(u) EXCEPT !.sessions = @ \cup {New}]
           answer == [Success EXCEPT !.cookies = <<Symbol("cookie", {New})>>]
<1>1. Handled(r) = IF u \notin server.registered THEN <<server, Refusal>> ELSE <<s, answer>>
  BY DEF Handled, compute_post_request, Register, Login, Access, Logout, Books
<1>2. Serves(s, answer)
  BY LoginServes
<1> HIDE DEF r, s, answer
<1>3. CASE u \notin server.registered
  BY <1>1, <1>3, RefusalServes DEF r
<1>4. CASE u \in server.registered
  BY <1>1, <1>2, <1>4 DEF r
<1> QED
  BY <1>3, <1>4

LEMMA JsonTokens ==
    ASSUME NEW k \in Nat, NEW m \in Nat
    PROVE  /\ Json("error", {m}) # Json("token", {k})
           /\ Json("token", {m}) = Json("token", {k}) => k = m
<1>1. {k} \in SUBSET Nat /\ {m} \in SUBSET Nat
  OBVIOUS
<1>2. JsonParts(Json("token", {k}), "token", {k})
  BY <1>1, JsonShape
<1>3. JsonParts(Json("token", {m}), "token", {m})
  BY <1>1, JsonShape
<1>4. JsonParts(Json("error", {m}), "error", {m})
  BY <1>1, JsonShape
<1> QED
  BY <1>2, <1>3, <1>4 DEF JsonParts

LEMMA AccessHandled ==
    ASSUME TypeOK, NEW c \in Issued \cup {Partial}
    PROVE  LET h == Handled(compute_get_request(Access, None, {c}, None))
           IN  /\ Serves(h[1], h[2])
               /\ \A k \in IssuedTo(h[1].owner) :
                     h[2].body = Json("token", {k}) =>
                        c \in IssuedTo(h[1].owner) /\ h[1].owner[k] = h[1].owner[c]
<1> DEFINE r == compute_get_request(Access, None, {c}, None)
           u == Bearer(c, server.sessions)
           s == [Issue(u) EXCEPT !.tokens = @ \cup {New}]
           answer == [Success EXCEPT !.body = Json("token", {New})]
<1>1. r.cookies = {c} /\ r.url = Access
  BY DEF compute_get_request
<1>2. SessionOf(r) = u
  BY <1>1, TheOnlyOne DEF SessionOf
<1>3. Handled(r) = IF u = NoUser THEN <<server, Refusal>> ELSE <<s, answer>>
  BY <1>1, <1>2 DEF Handled, Register, Login, Access, Logout, Books
<1>4. server.sessions \subseteq IssuedTo(server.owner)
  BY DEF TypeOK, Issued, IssuedTo
<1>5. CASE u = NoUser
  <2>1. Serves(server, Refusal)
    BY RefusalServes
  <2>2. \A k \in IssuedTo(server.owner) : Refusal.body # Json("token", {k})
    <3>1. Refusal.body = Json("error", {400}) /\ 400 \in Nat
      BY DEF Refusal
    <3> TAKE k \in IssuedTo(server.owner)
    <3>2. k \in Nat
      BY DEF IssuedTo
    <3> QED
      BY <3>1, <3>2, JsonTokens
  <2> HIDE DEF r
  <2> QED
    BY <1>3, <1>5, <2>1, <2>2 DEF r
<1>6. CASE u # NoUser
  <2>1. u \in Users /\ u = server.owner[c] /\ c \in IssuedTo(server.owner)
    BY <1>4, <1>6, BearerOK DEF Bearer
  <2>2. Serves(s, answer)
    BY <2>1, AccessServes
  <2>3. s.owner = Issue(u).owner /\ answer.body = Json("token", {New})
    <3>1. Issue(u) \in ServerType
      BY <2>1, IssueGrows
    <3> QED
      BY <3>1 DEF ServerType, Success
  <2>4. /\ s.owner[New] = u /\ s.owner[c] = u /\ New \in Nat
        /\ c \in IssuedTo(s.owner)
    BY <2>1, <2>3, IssueGrows
  <2>5. \A k \in IssuedTo(s.owner) :
           answer.body = Json("token", {k}) =>
              c \in IssuedTo(s.owner) /\ s.owner[k] = s.owner[c]
    <3>1. \A k \in IssuedTo(s.owner) : k \in Nat
      BY DEF IssuedTo
    <3> HIDE DEF s, answer
    <3> QED
      BY <2>3, <2>4, <3>1, JsonTokens
  <2> HIDE DEF r, s, answer
  <2> QED
    BY <1>3, <1>6, <2>2, <2>5 DEF r
<1> QED
  BY <1>5, <1>6

LEMMA LogoutHandled ==
    ASSUME TypeOK, NEW c
    PROVE  LET h == Handled(compute_get_request(Logout, None, {c}, None))
           IN  Serves(h[1], h[2])
<1> DEFINE r == compute_get_request(Logout, None, {c}, None)
           s == [server EXCEPT !.sessions = @ \ {c}]
<1>1. r.cookies = {c} /\ r.url = Logout
  BY DEF compute_get_request
<1>2. Handled(r) = IF SessionOf(r) = NoUser THEN <<server, Refusal>> ELSE <<s, Success>>
  BY <1>1 DEF Handled, Register, Login, Access, Logout, Books
<1>3. /\ s \in ServerType /\ s.owner = server.owner
      /\ s.sessions \subseteq server.sessions /\ s.tokens = server.tokens
  BY DEF TypeOK, ServerType
<1>4. Success.status \in Nat /\ Success.cookies = <<>> /\ Success.body = <<>>
  BY DEF Success
<1> HIDE DEF r, s
<1>5. Serves(s, Success)
  BY <1>3, <1>4, ChangeServes
<1>6. CASE SessionOf(r) = NoUser
  BY <1>2, <1>6, RefusalServes DEF r
<1>7. CASE SessionOf(r) # NoUser
  BY <1>2, <1>5, <1>7 DEF r
<1> QED
  BY <1>6, <1>7

LEMMA AddHandled ==
    ASSUME TypeOK, NEW jwt, server.issued < MaxBooks
    PROVE  LET h == Handled(compute_post_request(Books, "book", jwt))
           IN  Serves(h[1], h[2])
<1> DEFINE r == compute_post_request(Books, "book", jwt)
           u == Bearer(jwt, server.tokens)
           s == [server EXCEPT !.library[u] = @ \cup {server.issued + 1}, !.issued = @ + 1]
<1>1. r.url = Books /\ r.method = "POST" /\ r.jwt = jwt
  BY DEF compute_post_request
<1>2. Handled(r) = IF u = NoUser THEN <<server, Refusal>> ELSE <<s, Success>>
  BY <1>1 DEF Handled, TokenOf, Register, Login, Access, Logout, Books
<1>3. CASE u = NoUser
  BY <1>2, <1>3, RefusalServes
<1>4. CASE u # NoUser
  <2>1. u \in Users
    BY <1>4, BearerOK DEF TypeOK, Issued, IssuedTo
  <2>2. server \in ServerType /\ server.issued + 1 \in Ids /\ server.issued + 1 \in 0 .. MaxBooks
    BY SessionOK DEF TypeOK, ServerType, Ids
  <2>3. /\ s \in ServerType /\ s.owner = server.owner
        /\ s.sessions = server.sessions /\ s.tokens = server.tokens
    <3> HIDE DEF u
    <3> QED
      BY <2>1, <2>2 DEF ServerType
  <2>4. Success.status \in Nat /\ Success.cookies = <<>> /\ Success.body = <<>>
    BY DEF Success
  <2> HIDE DEF r, s
  <2>5. Serves(s, Success)
    BY <2>3, <2>4, ChangeServes
  <2> QED
    BY <1>2, <1>4, <2>5 DEF r
<1> QED
  BY <1>3, <1>4

LEMMA ListHandled ==
    ASSUME TypeOK, NEW cookies, NEW jwt
    PROVE  LET h == Handled(compute_get_request(Books, None, cookies, jwt))
           IN  Serves(h[1], h[2])
<1> DEFINE r == compute_get_request(Books, None, cookies, jwt)
           u == Bearer(jwt, server.tokens)
           answer == [Success EXCEPT !.body = <<Symbol("list", server.library[u])>>]
<1>1. r.url = Books /\ r.method = "GET" /\ r.jwt = jwt /\ r.id = None
  BY DEF compute_get_request
<1>2. Handled(r) = IF u = NoUser THEN <<server, Refusal>> ELSE <<server, answer>>
  BY <1>1 DEF Handled, TokenOf, Register, Login, Access, Logout, Books
<1>3. CASE u = NoUser
  BY <1>2, <1>3, RefusalServes
<1>4. CASE u # NoUser
  <2>1. u \in Users
    BY <1>4, BearerOK DEF TypeOK, Issued, IssuedTo
  <2>2. server.library[u] \in SUBSET Ids
    BY <2>1 DEF TypeOK, ServerType
  <2>3. /\ answer.status \in Nat /\ answer.cookies = <<>>
        /\ answer.body = <<Symbol("list", server.library[u])>>
    BY DEF Success
  <2>4. server \in ServerType
    BY DEF TypeOK
  <2> HIDE DEF r, answer
  <2>5. Serves(server, answer)
    BY <2>2, <2>3, <2>4, ChangeServes
  <2> QED
    BY <1>2, <1>4, <2>5 DEF r
<1> QED
  BY <1>3, <1>4

LEMMA BookHandled ==
    ASSUME TypeOK, NEW id \in Ids, NEW jwt, NEW r, r.url = Books, r.jwt = jwt, r.id = id,
           r.method \in {"GET", "DELETE"}
    PROVE  LET h == Handled(r) IN Serves(h[1], h[2])
<1> DEFINE u == Bearer(jwt, server.tokens)
           s == [server EXCEPT !.library[u] = @ \ {id}]
<1>1. id # None
  BY DEF Ids, None
<1>2. Handled(r) = IF u = NoUser \/ id \notin server.library[u] THEN <<server, Refusal>>
                   ELSE IF r.method = "GET" THEN <<server, Success>> ELSE <<s, Success>>
  BY <1>1 DEF Handled, TokenOf, Register, Login, Access, Logout, Books
<1>3. CASE u = NoUser \/ id \notin server.library[u]
  BY <1>2, <1>3, RefusalServes
<1>4. Success.status \in Nat /\ Success.cookies = <<>> /\ Success.body = <<>>
  BY DEF Success
<1>5. CASE ~(u = NoUser \/ id \notin server.library[u])
  <2>1. u \in Users
    BY <1>5, BearerOK DEF TypeOK, Issued, IssuedTo
  <2>2. server \in ServerType
    BY DEF TypeOK
  <2>3. /\ s \in ServerType /\ s.owner = server.owner
        /\ s.sessions = server.sessions /\ s.tokens = server.tokens
    <3> HIDE DEF u
    <3> QED
      BY <2>1, <2>2 DEF ServerType
  <2> HIDE DEF s
  <2>4. Serves(s, Success) /\ Serves(server, Success)
    BY <1>4, <2>2, <2>3, ChangeServes
  <2> QED
    BY <1>2, <1>5, <2>4
<1> QED
  BY <1>3, <1>5

----------------------------------------------------------------------------
(* Steps that are alike in many actions.                                   *)

LEMMA BooksTyped ==
    /\ Garbage \in BookTexts \ {Nothing} /\ Password \in BookTexts \ {Nothing}
    /\ Nothing \in BookTexts
    /\ \A list \in SUBSET Ids : Symbol("list", list) \in BookTexts \ {Nothing}
  BY DEF BookTexts, Garbage, Password, Nothing, Symbol

LEMMA IdleTyped == Idle \in ReaderType /\ Idle.at = "idle" /\ Closed \in SocketType
  BY DEF Idle, buffer_init, ReaderType, Closed, Sent, SocketType

\* A command is sent.
LEMMA SendStep ==
    ASSUME IInv, NEW command \in Commands, NEW request, Send(command, request),
           Serves(Handled(request)[1], Handled(request)[2]),
           command = "login" => client.isSomeoneLoggedIn = 0,
           command = "enter_library" =>
              /\ client.isSomeoneLoggedIn = 1
              /\ \A k \in IssuedTo(Handled(request)[1].owner) :
                    Handled(request)[2].body = Json("token", {k}) =>
                       /\ client.current_cookie_session \in IssuedTo(Handled(request)[1].owner)
                       /\ Handled(request)[1].owner[k] =
                             Handled(request)[1].owner[client.current_cookie_session]
    PROVE  IInv'
<1> DEFINE s == Handled(request)[1]
           answer == Handled(request)[2]
           c == IF command = "enter_library" THEN client.current_cookie_session ELSE 0
<1>1. TypeOK /\ Session /\ OwnToken
  BY DEF IInv
<1>2. PICK framing \in Framings :
         socket' = Sent(Answer(answer.status, answer.cookies, answer.body, framing),
                        framing = "close")
  BY DEF Send
<1> DEFINE a == Answer(answer.status, answer.cookies, answer.body, framing)
<1>3. /\ client' = [client EXCEPT !.at = command, !.shown = Nothing]
      /\ server' = s /\ reader' = Reading /\ happened' = happened
  BY DEF Send
<1>4. Serves(s, answer)
  OBVIOUS
<1> HIDE DEF s, answer
<1>5. /\ s \in ServerType /\ s.owner \in Seq(Users)
      /\ s.sessions \subseteq IssuedTo(s.owner) /\ s.tokens \subseteq IssuedTo(s.owner)
      /\ answer.status \in Nat
      /\ CookiesOK(answer.cookies, s.owner) /\ BodyOK(answer.body, s.owner)
  BY <1>4 DEF Serves, ServerType
<1>6. /\ a \in Seq(Symbols)
      /\ \E h \in Nat : Shape(a, Len(a), h, s.owner)
  BY <1>5, AnswerShape
<1>7. command = "enter_library" => TokenFor(a, s.owner, client.current_cookie_session)
  <2> SUFFICES ASSUME command = "enter_library"
               PROVE  TokenFor(a, s.owner, client.current_cookie_session)
    OBVIOUS
  <2>1. \A k \in IssuedTo(s.owner) :
           answer.body = Json("token", {k}) =>
              /\ client.current_cookie_session \in IssuedTo(s.owner)
              /\ s.owner[k] = s.owner[client.current_cookie_session]
    BY DEF s, answer
  <2> QED
    BY <1>5, <2>1, AnswerShape
<1> HIDE DEF a
<1>8. socket' = [incoming |-> a, closing |-> framing = "close", answer |-> a]
  BY <1>2 DEF a, Sent
<1>9. /\ reader'.at = "header" /\ reader'.buffer = <<>>
      /\ reader' \in ReaderType
  <2>1. Idle \in ReaderType /\ Idle.buffer = <<>> /\ reader' = [Idle EXCEPT !.at = "header"]
    BY <1>3, IdleTyped DEF Reading, Idle, buffer_init
  <2> QED
    BY <2>1 DEF ReaderType
<1>10. Issued \subseteq Issued' /\ \A k \in Issued : server'.owner[k] = server.owner[k]
  <2>1. Len(s.owner) \in Nat /\ Len(server.owner) \in Nat
    BY <1>1, <1>5, OwnersOK
  <2> QED
    BY <1>3, <1>4, <2>1 DEF Serves, Issued, IssuedTo
<1>11. /\ client' \in ClientType
       /\ client'.at = command
       /\ client'.current_cookie_session = client.current_cookie_session
       /\ client'.current_JWT = client.current_JWT
       /\ client'.isSomeoneLoggedIn = client.isSomeoneLoggedIn
       /\ client'.isSomeoneInLibrary = client.isSomeoneInLibrary
  BY <1>1, <1>3, BooksTyped DEF TypeOK, ClientType
<1>12. TypeOK'
  <2>1. socket' \in SocketType
    BY <1>6, <1>8 DEF SocketType
  <2>2. server' \in ServerType /\ (server.sessions \subseteq Issued)' /\ (server.tokens \subseteq Issued)'
    BY <1>3, <1>5 DEF Issued, IssuedTo
  <2>3. /\ client'.current_cookie_session \in {Uninitialised, Empty, Partial} \cup Issued'
        /\ client'.current_JWT \in {Uninitialised, Empty, Partial} \cup Issued'
        /\ happened' \subseteq Faults
    BY <1>1, <1>3, <1>10, <1>11 DEF TypeOK
  <2> QED
    BY <1>9, <1>11, <2>1, <2>2, <2>3 DEF TypeOK
<1>13. Reads_OK'
  <2>1. \E n, h \in Nat : Shape(socket'.answer, n, h, server'.owner)
    <3>1. Len(a) \in Nat
      BY <1>6
    <3> QED
      BY <3>1, <1>3, <1>6, <1>8
  <2>2. Prefix(reader'.buffer, socket'.incoming, socket'.answer)
    BY <1>6, <1>8, <1>9 DEF Prefix
  <2> QED
    BY <1>9, <2>1, <2>2 DEF Reads_OK
<1>14. Session'
  BY <1>1, <1>3, <1>7, <1>8, <1>9, <1>10, <1>11 DEF Session
<1>15. OwnToken'
  BY <1>1, <1>3, <1>10, <1>11 DEF OwnToken
<1> QED
  BY <1>12, <1>13, <1>14, <1>15 DEF IInv

\* The client is back at its prompt and holds what it may hold.
Holds(c) ==
    /\ c \in ClientType
    /\ c.current_cookie_session \in {Uninitialised, Empty, Partial} \cup Issued
    /\ c.current_JWT \in {Uninitialised, Empty, Partial} \cup Issued
    /\ c.isSomeoneInLibrary = 1 => c.isSomeoneLoggedIn = 1
    /\ c.isSomeoneLoggedIn = 1 => c.current_cookie_session \in Issued \cup {Partial}
    /\ c.isSomeoneInLibrary = 1 =>
          /\ c.current_cookie_session \in Issued
          /\ c.current_JWT \in Issued \cup {Partial}
          /\ c.current_JWT # Partial =>
                server.owner[c.current_JWT] = server.owner[c.current_cookie_session]

LEMMA ReturnStep ==
    ASSUME IInv, NEW c, Holds(c), Return(c)
    PROVE  IInv'
<1>1. TypeOK
  BY DEF IInv
<1>2. /\ client' = [c EXCEPT !.at = "prompt"]
      /\ reader' = Idle /\ socket' = Closed /\ UNCHANGED <<server, happened>>
  BY DEF Return
<1>3. /\ client' \in ClientType /\ client'.at = "prompt"
      /\ client'.current_cookie_session = c.current_cookie_session
      /\ client'.current_JWT = c.current_JWT
      /\ client'.isSomeoneLoggedIn = c.isSomeoneLoggedIn
      /\ client'.isSomeoneInLibrary = c.isSomeoneInLibrary
  BY <1>2 DEF Holds, ClientType
<1>4. Issued' = Issued
  BY <1>2 DEF Issued
<1>5. TypeOK'
  BY <1>1, <1>2, <1>3, <1>4, IdleTyped DEF TypeOK, Holds
<1>6. Reads_OK'
  BY <1>2, IdleTyped DEF Reads_OK
<1>7. Session'
  BY <1>2, <1>3, <1>4, IdleTyped DEF Session, Holds, Commands
<1>8. OwnToken'
  BY <1>2, <1>3, <1>4 DEF OwnToken, Holds
<1> QED
  BY <1>5, <1>6, <1>7, <1>8 DEF IInv

\* The process ends.
LEMMA StopStep ==
    ASSUME IInv, NEW how \in {"exited", "crashed", "undefined"}, Stop(how),
           happened' \subseteq Faults
    PROVE  IInv'
<1>1. TypeOK
  BY DEF IInv
<1>2. /\ client' = [NewProcess EXCEPT !.at = how]
      /\ reader' = Idle /\ socket' = Closed /\ server' = server
  BY DEF Stop
<1>3. /\ client' \in ClientType /\ client'.at = how
      /\ client'.current_cookie_session = Uninitialised
      /\ client'.current_JWT = Uninitialised
      /\ client'.isSomeoneLoggedIn = 0
      /\ client'.isSomeoneInLibrary = 0
  BY <1>2, BooksTyped DEF NewProcess, ClientType
<1>4. Issued' = Issued
  BY <1>2 DEF Issued
<1>5. TypeOK'
  BY <1>1, <1>2, <1>3, <1>4, IdleTyped DEF TypeOK
<1>6. Reads_OK'
  BY <1>2, IdleTyped DEF Reads_OK
<1>7. Session'
  BY <1>2, <1>3, IdleTyped DEF Session, Commands
<1>8. OwnToken'
  BY <1>3 DEF OwnToken
<1> QED
  BY <1>5, <1>6, <1>7, <1>8 DEF IInv

----------------------------------------------------------------------------
(* The reader.                                                             *)

LEMMA Consumed ==
    ASSUME NEW a \in Seq(Symbols), NEW b \in Seq(Symbols), NEW w \in Seq(Symbols),
           Prefix(b, w, a), NEW n \in 1 .. Len(w)
    PROVE  LET c == b \o SubSeq(w, 1, n)
               v == SubSeq(w, n + 1, Len(w))
           IN  /\ c \in Seq(Symbols) /\ v \in Seq(Symbols)
               /\ Len(c) = Len(b) + n /\ Len(v) = Len(w) - n
               /\ Prefix(c, v, a)
<1> DEFINE p == SubSeq(w, 1, n)
           c == b \o p
           v == SubSeq(w, n + 1, Len(w))
<1>1. /\ p \in Seq(Symbols) /\ Len(p) = n
      /\ \A i \in 1 .. n : p[i] = w[i]
  OBVIOUS
<1>2. /\ v \in Seq(Symbols) /\ Len(v) = Len(w) - n
      /\ \A i \in 1 .. Len(v) : v[i] = w[n + i]
  OBVIOUS
<1>3. p \in Seq(Symbols)
  BY <1>1
<1> HIDE DEF p, v
<1>4. /\ c \in Seq(Symbols)
      /\ Len(c) = Len(b) + Len(p)
      /\ \A i \in 1 .. Len(b) : c[i] = b[i]
      /\ \A i \in 1 .. Len(p) : c[Len(b) + i] = p[i]
  BY <1>3, Concat
<1> HIDE DEF c
<1>5. Len(b) \in Nat /\ Len(w) \in Nat /\ Len(a) \in Nat
  OBVIOUS
<1>6. /\ Len(b) + Len(w) = Len(a)
      /\ \A i \in 1 .. Len(b) : b[i] = a[i]
      /\ \A i \in 1 .. Len(w) : w[i] = a[Len(b) + i]
  BY DEF Prefix
<1>7. Len(c) = Len(b) + n
  BY <1>1, <1>4
<1>8. ASSUME NEW i \in 1 .. Len(c) PROVE c[i] = a[i]
  <2>1. CASE i <= Len(b)
    BY <1>4, <1>5, <1>6, <2>1
  <2>2. CASE i > Len(b)
    <3>1. i - Len(b) \in 1 .. n /\ i - Len(b) \in 1 .. Len(w) /\ i = Len(b) + (i - Len(b))
      BY <1>5, <1>7, <2>2
    <3>2. c[i] = p[i - Len(b)]
      BY <1>1, <1>4, <3>1
    <3>3. p[i - Len(b)] = w[i - Len(b)]
      BY <1>1, <3>1
    <3> QED
      BY <1>6, <3>1, <3>2, <3>3
  <2> QED
    BY <1>5, <2>1, <2>2
<1>9. ASSUME NEW i \in 1 .. Len(v) PROVE v[i] = a[Len(c) + i]
  <2>1. n + i \in 1 .. Len(w) /\ Len(c) + i = Len(b) + (n + i)
    BY <1>2, <1>5, <1>7
  <2> QED
    BY <1>2, <1>6, <2>1
<1>10. Len(c) + Len(v) = Len(a)
  <2> DEFINE p_ == Len(c)
             q_ == Len(v)
             x == Len(b)
             y == Len(w)
  <2>1. x \in Nat /\ y \in Nat /\ n \in Nat /\ p_ = x + n /\ q_ = y - n
    BY <1>2, <1>5, <1>7
  <2> HIDE DEF p_, q_, x, y
  <2>2. p_ + q_ = x + y
    BY <2>1, Sums
  <2> QED
    BY <1>6, <2>2 DEF p_, q_, x, y
<1> QED
  BY <1>2, <1>4, <1>7, <1>8, <1>9, <1>10 DEF Prefix, c, v, p

\* Steps of the reader leave what the other parts of the invariant speak of.
LEMMA ReaderStep ==
    ASSUME IInv, UNCHANGED <<client, server, happened>>,
           socket' \in SocketType, reader' \in ReaderType, Reads_OK',
           socket'.answer = socket.answer, reader.at # "idle", reader'.at # "idle"
    PROVE  IInv'
<1>1. TypeOK /\ Session /\ OwnToken
  BY DEF IInv
<1>2. Issued' = Issued
  BY DEF Issued
<1>3. TypeOK'
  BY <1>1, <1>2 DEF TypeOK
<1>4. Session'
  BY <1>1, <1>2 DEF Session
<1>5. OwnToken'
  BY <1>1, <1>2 DEF OwnToken
<1> QED
  BY <1>3, <1>4, <1>5 DEF IInv

LEMMA PieceStep ==
    ASSUME IInv, reader.at # "idle", NEW n \in Pieces, Consume(n)
    PROVE  /\ Added(n) \in Seq(Symbols)
           /\ socket' \in SocketType /\ socket'.answer = socket.answer
           /\ Prefix(Added(n), socket'.incoming, socket.answer)
<1>1. /\ socket.answer \in Seq(Symbols) /\ reader.buffer \in Seq(Symbols)
      /\ socket.incoming \in Seq(Symbols) /\ socket \in SocketType
  BY DEF IInv, TypeOK, SocketType, ReaderType
<1>2. Prefix(reader.buffer, socket.incoming, socket.answer)
  BY DEF IInv, Reads_OK
<1>3. n \in 1 .. Len(socket.incoming)
  BY <1>1 DEF Pieces
<1> DEFINE v == SubSeq(socket.incoming, n + 1, Len(socket.incoming))
<1>4. /\ Added(n) \in Seq(Symbols) /\ v \in Seq(Symbols)
      /\ Len(Added(n)) = Len(reader.buffer) + n /\ Len(v) = Len(socket.incoming) - n
      /\ Prefix(Added(n), v, socket.answer)
  BY <1>1, <1>2, <1>3, Consumed DEF Added
<1>5. socket' = [socket EXCEPT !.incoming = v]
  BY DEF Consume
<1> HIDE DEF v
<1>6. /\ socket' \in SocketType /\ socket'.answer = socket.answer
      /\ socket'.incoming = v
  BY <1>1, <1>4, <1>5 DEF SocketType
<1> QED
  BY <1>4, <1>6

\* The header is complete only when the whole length of the answer is known.
LEMMA HeaderStep ==
    ASSUME IInv, ReadHeader, UNCHANGED <<client, server, happened>>
    PROVE  IInv'
<1>1. reader.at = "header"
  BY DEF ReadHeader
<1>2. PICK piece \in Pieces :
         /\ Consume(piece)
         /\ LET b == Added(piece)
                complete == AfterTerminator(b) >= 0 /\ buffer_find(b, CONTENT_LENGTH) >= 0
            IN  reader' = [at |-> IF complete THEN "body" ELSE "header",
                           buffer |-> b,
                           header_end |-> AfterTerminator(b),
                           content_length |-> IF complete THEN Announced(b) ELSE 0]
  BY DEF ReadHeader
<1> DEFINE b == Added(piece)
           complete == AfterTerminator(b) >= 0 /\ buffer_find(b, CONTENT_LENGTH) >= 0
           a == socket.answer
<1>3. reader' = [at |-> IF complete THEN "body" ELSE "header", buffer |-> b,
                 header_end |-> AfterTerminator(b),
                 content_length |-> IF complete THEN Announced(b) ELSE 0]
  BY <1>2
<1>4. /\ b \in Seq(Symbols)
      /\ socket' \in SocketType /\ socket'.answer = a
      /\ Prefix(b, socket'.incoming, a)
  BY <1>1, <1>2, PieceStep
<1>5. a \in Seq(Symbols) /\ \E m, e \in Nat : Shape(a, m, e, server.owner)
  BY <1>1 DEF IInv, TypeOK, SocketType, Reads_OK
<1>6. PICK m \in Nat, e \in Nat : Shape(a, m, e, server.owner)
  BY <1>5
<1> HIDE DEF b
<1>7. Len(b) <= Len(a) /\ \A i \in 1 .. Len(b) : b[i] = a[i]
  <2>1. Len(b) + Len(socket'.incoming) = Len(a) /\ \A i \in 1 .. Len(b) : b[i] = a[i]
    BY <1>4 DEF Prefix
  <2>2. Len(b) \in Nat /\ Len(socket'.incoming) \in Nat /\ Len(a) \in Nat
    BY <1>4, <1>5 DEF SocketType
  <2> QED
    BY <2>1, <2>2
<1>8. buffer_find(b, HEADER_TERMINATOR) \in {-1, e}
  BY <1>4, <1>5, <1>6, <1>7, Terminator
<1>9. AfterTerminator(b) \in {-1, e + 2}
  BY <1>8 DEF AfterTerminator, HEADER_TERMINATOR_SIZE
<1>10. complete => Announced(b) = m - e - 2 /\ Announced(b) \in Nat
  <2>1. ASSUME complete PROVE Announced(b) = m - e - 2
    <3>1. buffer_find(b, CONTENT_LENGTH) >= 0
      BY <2>1
    <3>2. a \in Seq(Symbols) /\ b \in Seq(Symbols)
      BY <1>4, <1>5
    <3> QED
      BY <1>6, <1>7, <3>1, <3>2, Length
  <2>2. e \in 1 .. m - 2
    BY <1>6 DEF Shape
  <2> QED
    BY <2>1, <2>2
<1> HIDE DEF complete
<1>11. reader' \in ReaderType
  <2>1. (IF complete THEN Announced(b) ELSE 0) \in Nat
    BY <1>10
  <2>2. AfterTerminator(b) \in Int
    BY <1>9
  <2> QED
    BY <1>3, <1>4, <2>1, <2>2 DEF ReaderType
<1>12. reader'.at = "body" => Total' = m
  <2> SUFFICES ASSUME reader'.at = "body" PROVE Total' = m
    OBVIOUS
  <2>1. complete
    BY <1>3
  <2>2. AfterTerminator(b) = e + 2 /\ Announced(b) = m - e - 2
    BY <1>9, <1>10, <2>1 DEF complete
  <2>3. reader'.content_length = m - e - 2 /\ reader'.header_end = e + 2
    BY <1>3, <2>1, <2>2
  <2>4. (m - e - 2) + (e + 2) = m
    BY Cancel
  <2>5. Total' = reader'.content_length + reader'.header_end
    BY DEF Total
  <2> QED
    BY <2>3, <2>4, <2>5
<1>13. reader'.buffer = b /\ reader'.at \in {"header", "body"}
  BY <1>3
<1>14. Reads_OK'
  <2>1. \E k, i \in Nat : /\ Shape(socket'.answer, k, i, server'.owner)
                          /\ reader'.at = "body" => Total' = k
    BY <1>4, <1>6, <1>12
  <2> QED
    BY <2>1, <1>4, <1>13 DEF Reads_OK
<1> QED
  BY <1>1, <1>4, <1>11, <1>13, <1>14, ReaderStep

LEMMA BodyStep ==
    ASSUME IInv, ReadBody, UNCHANGED <<client, server, happened>>
    PROVE  IInv'
<1>1. reader.at = "body" /\ reader \in ReaderType
  BY DEF ReadBody, IInv, TypeOK
<1>2. PICK n \in Pieces : Consume(n) /\ reader' = [reader EXCEPT !.buffer = Added(n)]
  BY DEF ReadBody
<1>3. /\ Added(n) \in Seq(Symbols)
      /\ socket' \in SocketType /\ socket'.answer = socket.answer
      /\ Prefix(Added(n), socket'.incoming, socket.answer)
  BY <1>1, <1>2, PieceStep
<1>4. /\ reader' \in ReaderType /\ reader'.at = "body" /\ reader'.buffer = Added(n)
      /\ reader'.content_length = reader.content_length
      /\ reader'.header_end = reader.header_end
  BY <1>1, <1>2, <1>3 DEF ReaderType
<1>5. \E m, h \in Nat : Shape(socket.answer, m, h, server.owner) /\ Total = m
  BY <1>1 DEF IInv, Reads_OK
<1>6. Total' = Total
  BY <1>4 DEF Total
<1>7. Reads_OK'
  BY <1>3, <1>4, <1>5, <1>6 DEF Reads_OK
<1> QED
  BY <1>1, <1>3, <1>4, <1>7, ReaderStep

\* The reader stops at the length that was announced, or at the end of file.
LEMMA EndStep ==
    ASSUME IInv, BodyComplete \/ EndOfFile, UNCHANGED <<client, server, happened>>
    PROVE  IInv'
<1>1. reader.at \in {"header", "body"} /\ reader \in ReaderType /\ socket \in SocketType
  BY DEF BodyComplete, EndOfFile, IInv, TypeOK
<1>2. reader' = [reader EXCEPT !.at = "done"] /\ socket' = socket
  BY DEF BodyComplete, EndOfFile
<1>3. reader' \in ReaderType /\ reader'.at = "done" /\ reader'.buffer = reader.buffer
  BY <1>1, <1>2 DEF ReaderType
<1>4. /\ \E n, h \in Nat : /\ Shape(socket.answer, n, h, server.owner)
                           /\ reader.at = "body" => Total = n
      /\ Prefix(reader.buffer, socket.incoming, socket.answer)
  BY <1>1 DEF IInv, Reads_OK
<1>5. /\ socket.incoming \in Seq(Symbols) /\ Len(socket.answer) \in Nat
      /\ Len(reader.buffer) \in Nat /\ Len(socket.incoming) \in Nat
  BY <1>1 DEF SocketType, ReaderType
<1>6. socket.incoming = <<>>
  <2>1. CASE BodyComplete
    <3>1. PICK n \in Nat, h \in Nat : Shape(socket.answer, n, h, server.owner) /\ Total = n
      BY <1>4, <2>1 DEF BodyComplete
    <3>2. Len(socket.answer) <= n /\ Len(reader.buffer) >= n
      BY <3>1, <2>1 DEF BodyComplete, Shape
    <3>3. Len(reader.buffer) + Len(socket.incoming) = Len(socket.answer)
      BY <1>4 DEF Prefix
    <3>4. Len(socket.incoming) = 0
      BY <1>5, <3>2, <3>3, NothingLeft
    <3> QED
      BY <1>5, <3>4
  <2>2. CASE EndOfFile
    BY <2>2 DEF EndOfFile
  <2> QED
    BY <2>1, <2>2
<1>7. Reads_OK'
  BY <1>2, <1>3, <1>4, <1>6 DEF Reads_OK
<1> QED
  BY <1>1, <1>2, <1>3, <1>7, ReaderStep

LEMMA ReadsStep == ASSUME IInv, Reads PROVE IInv'
  BY HeaderStep, BodyStep, EndStep DEF Reads, Receive

----------------------------------------------------------------------------
(* What a command takes from its answer.                                   *)

\* A cookie that was read was issued, whole or torn; so was a token without an
\* error before it, to the account of the cookie held when it was asked for.
LEMMA Answered ==
    ASSUME IInv, NEW command \in Commands, Done(command)
    PROVE  /\ Has("cookie") =>
                 ValOf("cookie") = {Partial} \/ \E k \in Issued : ValOf("cookie") = {k}
           /\ Has("list") => ValOf("list") = {Partial} \/ ValOf("list") \subseteq Ids
           /\ Has("value") /\ ~Has("error") /\ command = "enter_library" =>
                 /\ client.current_cookie_session \in Issued
                 /\ \/ ValOf("value") = {Partial}
                    \/ \E k \in Issued :
                          /\ ValOf("value") = {k}
                          /\ server.owner[k] = server.owner[client.current_cookie_session]
<1> DEFINE a == socket.answer
           b == reader.buffer
<1>1. reader.at = "done" /\ client.at = command
  BY DEF Done
<1>2. /\ a \in Seq(Symbols) /\ b \in Seq(Symbols) /\ socket.incoming \in Seq(Symbols)
  BY DEF IInv, TypeOK, SocketType, ReaderType
<1>3. /\ \E n, h \in Nat : Shape(a, n, h, server.owner)
      /\ Prefix(b, socket.incoming, a)
  BY <1>1 DEF IInv, Reads_OK
<1>4. PICK n \in Nat, h \in Nat : Shape(a, n, h, server.owner)
  BY <1>3
<1>5. \A i \in 1 .. Len(a) :
         /\ a[i].is = "cookie" => a[i].val = {Partial} \/ \E k \in Issued : a[i].val = {k}
         /\ a[i].is = "list" => a[i].val = {Partial} \/ a[i].val \subseteq Ids
  BY <1>4 DEF Shape, Issue_Or_Torn, Issued, IssuedTo
<1>6. command = "enter_library" =>
         \A i \in 1 .. Len(a) : a[i].is = "value" =>
            \/ \E j \in 1 .. i - 1 : a[j].is = "error"
            \/ /\ client.current_cookie_session \in Issued
               /\ \/ a[i].val = {Partial}
                  \/ \E k \in Issued :
                        /\ a[i].val = {k}
                        /\ server.owner[k] = server.owner[client.current_cookie_session]
  BY <1>1 DEF IInv, Session, TokenFor, Issued, IssuedTo
<1> HIDE DEF a, b
<1>7. /\ Len(b) \in Nat /\ Len(a) \in Nat /\ Len(socket.incoming) \in Nat
      /\ Len(b) + Len(socket.incoming) = Len(a)
      /\ \A i \in 1 .. Len(b) : b[i] = a[i]
  BY <1>2, <1>3 DEF Prefix
<1>8. \A i \in 1 .. Len(b) : i \in 1 .. Len(a)
  BY <1>7
<1>9. \A is : Where(is) = {i \in 1 .. Len(b) : b[i].is = is}
  BY DEF Where, b
<1>10. \A is : Has(is) => /\ TheOnly(Where(is)) \in 1 .. Len(b)
                          /\ b[TheOnly(Where(is))].is = is
                          /\ ValOf(is) = b[TheOnly(Where(is))].val
  BY <1>9, TheOnlyIn DEF Has, ValOf, b
<1>11. Has("cookie") => ValOf("cookie") = {Partial} \/ \E k \in Issued : ValOf("cookie") = {k}
  <2> SUFFICES ASSUME Has("cookie")
               PROVE  ValOf("cookie") = {Partial} \/ \E k \in Issued : ValOf("cookie") = {k}
    OBVIOUS
  <2> DEFINE i == TheOnly(Where("cookie"))
  <2>1. /\ i \in 1 .. Len(b) /\ i \in 1 .. Len(a)
        /\ a[i].is = "cookie" /\ ValOf("cookie") = a[i].val
    BY <1>7, <1>8, <1>10
  <2> HIDE DEF i
  <2> QED
    BY <1>5, <2>1
<1>12. ASSUME Has("value"), ~Has("error"), command = "enter_library"
       PROVE  /\ client.current_cookie_session \in Issued
              /\ \/ ValOf("value") = {Partial}
                 \/ \E k \in Issued :
                       /\ ValOf("value") = {k}
                       /\ server.owner[k] = server.owner[client.current_cookie_session]
  <2> DEFINE i == TheOnly(Where("value"))
  <2>1. /\ i \in 1 .. Len(b) /\ i \in 1 .. Len(a)
        /\ a[i].is = "value" /\ ValOf("value") = a[i].val
    BY <1>7, <1>8, <1>10, <1>12
  <2> HIDE DEF i
  <2>2. \A j \in 1 .. i - 1 : j \in 1 .. Len(b) /\ b[j] = a[j]
    BY <1>7, <2>1
  <2>3. \A j \in 1 .. Len(b) : b[j].is # "error"
    BY <1>9, <1>12 DEF Has
  <2>4. ~ \E j \in 1 .. i - 1 : a[j].is = "error"
    BY <2>2, <2>3
  <2> QED
    BY <1>6, <1>12, <2>1, <2>4
<1>13. Has("list") => ValOf("list") = {Partial} \/ ValOf("list") \subseteq Ids
  <2> SUFFICES ASSUME Has("list")
               PROVE  ValOf("list") = {Partial} \/ ValOf("list") \subseteq Ids
    OBVIOUS
  <2> DEFINE i == TheOnly(Where("list"))
  <2>1. /\ i \in 1 .. Len(b) /\ i \in 1 .. Len(a)
        /\ a[i].is = "list" /\ ValOf("list") = a[i].val
    BY <1>7, <1>8, <1>10
  <2> HIDE DEF i
  <2> QED
    BY <1>5, <2>1
<1> QED
  BY <1>11, <1>12, <1>13

LEMMA HoldsNow ==
    ASSUME IInv
    PROVE  Holds(client)
<1>1. TypeOK /\ Session /\ OwnToken
  BY DEF IInv
<1> QED
  BY <1>1 DEF TypeOK, Session, OwnToken, Holds

\* books, shown and told do not matter to what the client holds.
LEMMA HoldsStill ==
    ASSUME IInv, NEW c \in ClientType,
           c.current_cookie_session = client.current_cookie_session,
           c.current_JWT = client.current_JWT,
           c.isSomeoneLoggedIn = client.isSomeoneLoggedIn,
           c.isSomeoneInLibrary = client.isSomeoneInLibrary
    PROVE  Holds(c)
  BY HoldsNow DEF Holds

LEMMA RegisteredStep == ASSUME IInv, Registered PROVE IInv'
<1> DEFINE c == [client EXCEPT !.books = Password]
<1>1. client \in ClientType
  BY DEF IInv, TypeOK
<1>2. Holds(c)
  BY <1>1, BooksTyped, HoldsStill DEF ClientType
<1> HIDE DEF c
<1> QED
  BY <1>2, ReturnStep DEF Registered, c

LEMMA LoggedInStep == ASSUME IInv, LoggedIn PROVE IInv'
<1> DEFINE c == [client EXCEPT
                   !.books = Password,
                   !.current_cookie_session = IF Has("cookie") THEN TheOnly(ValOf("cookie")) ELSE @,
                   !.isSomeoneLoggedIn = IF Has("cookie") THEN 1 ELSE @]
<1>1. client \in ClientType /\ client.at = "login" /\ Done("login") /\ "login" \in Commands
  BY DEF IInv, TypeOK, LoggedIn, Done, Commands
<1>2. client.isSomeoneLoggedIn = 0 /\ client.isSomeoneInLibrary = 0
  BY <1>1 DEF IInv, Session, TypeOK, ClientType
<1>3. Holds(client)
  BY HoldsNow
<1>4. Has("cookie") => TheOnly(ValOf("cookie")) \in Issued \cup {Partial}
  <2>1. Has("cookie") => \E k \in Issued \cup {Partial} : ValOf("cookie") = {k}
    BY <1>1, Answered
  <2> QED
    BY <2>1, TheOnlyOne
<1>5. Issued \subseteq Nat
  BY DEF Issued
<1>6. /\ c \in ClientType
      /\ c.current_cookie_session =
            IF Has("cookie") THEN TheOnly(ValOf("cookie")) ELSE client.current_cookie_session
      /\ c.isSomeoneLoggedIn = IF Has("cookie") THEN 1 ELSE 0
      /\ c.current_JWT = client.current_JWT
      /\ c.isSomeoneInLibrary = 0
  BY <1>1, <1>2, <1>4, <1>5, BooksTyped DEF ClientType
<1>7. Return(c)
  BY DEF LoggedIn
<1> HIDE DEF c
<1>8. Holds(c)
  BY <1>3, <1>4, <1>6 DEF Holds
<1> QED
  BY <1>7, <1>8, ReturnStep

LEMMA EnteredStep == ASSUME IInv, Entered PROVE IInv'
<1> DEFINE c == [client EXCEPT
                   !.current_JWT = TheOnly(ValOf("value")), !.isSomeoneInLibrary = 1]
<1>1. /\ client \in ClientType /\ client.at = "enter_library" /\ Done("enter_library")
      /\ "enter_library" \in Commands
  BY DEF IInv, TypeOK, Entered, Done, Commands
<1>2. client.isSomeoneLoggedIn = 1 /\ Holds(client)
  BY <1>1, HoldsNow DEF IInv, Session
<1>3. happened \subseteq Faults
  BY DEF IInv, TypeOK
<1>4. CASE Return(client)
  BY <1>2, <1>4, ReturnStep
<1>5. CASE Stop("crashed") /\ UNCHANGED happened
  BY <1>3, <1>5, StopStep
<1>6. CASE ~Has("error") /\ Has("value") /\ Return(c)
  <2>1. /\ client.current_cookie_session \in Issued
        /\ \E k \in Issued \cup {Partial} :
              /\ ValOf("value") = {k}
              /\ k # Partial =>
                    server.owner[k] = server.owner[client.current_cookie_session]
    BY <1>1, <1>6, Answered
  <2>2. PICK k \in Issued \cup {Partial} :
           /\ ValOf("value") = {k}
           /\ k # Partial => server.owner[k] = server.owner[client.current_cookie_session]
    BY <2>1
  <2>3. k \in Nat \cup {Partial}
    BY DEF Issued
  <2>4. TheOnly(ValOf("value")) = k
    BY <2>2, TheOnlyOne
  <2>5. /\ c \in ClientType
        /\ c.current_JWT = k
        /\ c.isSomeoneInLibrary = 1
        /\ c.isSomeoneLoggedIn = client.isSomeoneLoggedIn
        /\ c.current_cookie_session = client.current_cookie_session
    BY <1>1, <2>3, <2>4 DEF ClientType
  <2> HIDE DEF c
  <2>6. Holds(c)
    BY <1>2, <2>1, <2>2, <2>5 DEF Holds
  <2> QED
    BY <1>6, <2>6, ReturnStep
<1> QED
  BY <1>4, <1>5, <1>6 DEF Entered

LEMMA ListedStep == ASSUME IInv, Listed PROVE IInv'
<1> DEFINE books == IF Has("list") THEN Symbol("list", ValOf("list")) ELSE client.books
           c == [client EXCEPT !.books = books, !.shown = books]
<1>1. /\ client \in ClientType /\ happened \subseteq Faults
      /\ Done("get_books") /\ "get_books" \in Commands
  BY DEF IInv, TypeOK, Listed, Commands
<1>2. CASE books.val # {Partial} /\ Return(c)
  <2>1. books \in BookTexts \ {Nothing}
    <3>1. Has("list") => ValOf("list") \in SUBSET Ids
      BY <1>1, <1>2, Answered DEF Symbol
    <3>2. client.books \in BookTexts \ {Nothing}
      BY <1>1 DEF ClientType
    <3> QED
      BY <3>1, <3>2, BooksTyped
  <2>2. Holds(c)
    BY <1>1, <2>1, HoldsStill DEF ClientType
  <2> QED
    BY <1>2, <2>2, ReturnStep
<1>3. CASE Stop("crashed") /\ UNCHANGED happened
  BY <1>1, <1>3, StopStep
<1>4. CASE Stop("undefined") /\ UNCHANGED happened
  BY <1>1, <1>4, StopStep
<1> QED
  BY <1>2, <1>3, <1>4 DEF Listed

LEMMA AddedBookStep == ASSUME IInv, AddedBook PROVE IInv'
<1> DEFINE c == [client EXCEPT
                   !.told = IF Status(200) /\ client.current_JWT # Empty THEN @ + 1 ELSE @]
<1>1. client \in ClientType
  BY DEF IInv, TypeOK
<1>2. Holds(c)
  BY <1>1, HoldsStill DEF ClientType
<1> HIDE DEF c
<1> QED
  BY <1>2, ReturnStep DEF AddedBook, c

LEMMA LogoutStep == ASSUME IInv, LogoutDone PROVE IInv'
<1>1. client \in ClientType
  BY DEF IInv, TypeOK
<1>2. Holds(client)
  BY HoldsNow
<1>3. Holds(LoggedOut(client))
  <2>1. /\ LoggedOut(client) \in ClientType
        /\ LoggedOut(client).current_cookie_session = Empty
        /\ LoggedOut(client).current_JWT = Empty
        /\ LoggedOut(client).isSomeoneLoggedIn = 0
        /\ LoggedOut(client).isSomeoneInLibrary = 0
    BY <1>1 DEF LoggedOut, ClientType
  <2> QED
    BY <2>1 DEF Holds
<1>4. Return(client) \/ Return(LoggedOut(client))
  BY DEF LogoutDone
<1> QED
  BY <1>2, <1>3, <1>4, ReturnStep

LEMMA ProcessStep == ASSUME IInv, Process PROVE IInv'
<1>1. GotBook \/ DeletedBook => IInv'
  BY HoldsNow, ReturnStep DEF GotBook, DeletedBook
<1> QED
  BY <1>1, RegisteredStep, LoggedInStep, EnteredStep, ListedStep, AddedBookStep, LogoutStep
     DEF Process

----------------------------------------------------------------------------
(* Commands, faults, and the theorems.                                     *)

LEMMA CommandStep ==
    ASSUME IInv,
           \/ RegisterUser \/ LoginUser \/ EnterLibrary \/ GetBooks \/ GetBook
           \/ AddBook \/ DeleteBook \/ LogoutUser
    PROVE  IInv'
<1> USE DEF Commands
<1>1. TypeOK
  BY DEF IInv
<1>2. CASE RegisterUser
  BY <1>1, <1>2, RegisterHandled, SendStep DEF RegisterUser
<1>3. CASE LoginUser
  BY <1>1, <1>3, LoginHandled, SendStep DEF LoginUser, LoginGuard
<1>4. CASE EnterLibrary
  <2>1. client.isSomeoneLoggedIn = 1 /\ client.current_cookie_session \in Issued \cup {Partial}
    BY <1>4 DEF EnterLibrary, IInv, Session
  <2> QED
    BY <1>1, <1>4, <2>1, AccessHandled, SendStep DEF EnterLibrary
<1>5. CASE GetBooks
  BY <1>1, <1>5, ListHandled, SendStep DEF GetBooks
<1>6. CASE GetBook
  <2>1. PICK id \in Ids :
           Send("get_book", compute_get_request(Books, id, {}, client.current_JWT))
    BY <1>6 DEF GetBook
  <2> DEFINE r == compute_get_request(Books, id, {}, client.current_JWT)
  <2>2. r.url = Books /\ r.jwt = client.current_JWT /\ r.id = id /\ r.method = "GET"
    BY DEF compute_get_request
  <2> HIDE DEF r
  <2>3. Serves(Handled(r)[1], Handled(r)[2])
    BY <1>1, <2>2, BookHandled
  <2> QED
    BY <2>1, <2>3, SendStep DEF r
<1>7. CASE AddBook
  BY <1>1, <1>7, AddHandled, SendStep DEF AddBook
<1>8. CASE DeleteBook
  <2>1. PICK id \in Ids :
           Send("delete_book", compute_delete_request(Books, id, client.current_JWT))
    BY <1>8 DEF DeleteBook
  <2> DEFINE r == compute_delete_request(Books, id, client.current_JWT)
  <2>2. r.url = Books /\ r.jwt = client.current_JWT /\ r.id = id /\ r.method = "DELETE"
    BY DEF compute_get_request, compute_delete_request
  <2> HIDE DEF r
  <2>3. Serves(Handled(r)[1], Handled(r)[2])
    BY <1>1, <2>2, BookHandled
  <2> QED
    BY <2>1, <2>3, SendStep DEF r
<1>9. CASE LogoutUser
  BY <1>1, <1>9, LogoutHandled, SendStep DEF LogoutUser
<1> QED
  BY <1>2, <1>3, <1>4, <1>5, <1>6, <1>7, <1>8, <1>9

\* c is what is sent of a: its first symbols, the last of which may be torn.
SentOf(c, a) ==
    /\ Len(c) <= Len(a)
    /\ \A i \in 1 .. Len(c) :
          c[i] = a[i] \/ (a[i].is \in {"cookie", "value", "list"} /\ c[i] = Torn(a[i]))

LEMMA TornType ==
    ASSUME NEW x \in Symbols
    PROVE  Torn(x) \in Symbols /\ Torn(x).is = x.is /\ Torn(x).val = {Partial}
<1>1. {Partial} \in SUBSET Int
  BY DEF Partial
<1> QED
  BY <1>1 DEF Torn, Symbols

LEMMA CutSent ==
    ASSUME NEW w \in Seq(Symbols), NEW rest \in Cuts(w)
    PROVE  rest \in Seq(Symbols) /\ SentOf(rest, w)
<1>1. CASE \E n \in 0 .. Len(w) : rest = SubSeq(w, 1, n)
  BY <1>1 DEF SentOf
<1>2. ASSUME NEW n \in 1 .. Len(w), w[n].is \in {"cookie", "value", "list"},
             rest = Append(SubSeq(w, 1, n - 1), Torn(w[n]))
      PROVE  rest \in Seq(Symbols) /\ SentOf(rest, w)
  <2> DEFINE p == SubSeq(w, 1, n - 1)
  <2>1. /\ p \in Seq(Symbols) /\ Len(p) = n - 1
        /\ \A i \in 1 .. n - 1 : p[i] = w[i]
    OBVIOUS
  <2>2. Torn(w[n]) \in Symbols
    BY TornType
  <2> DEFINE t == Torn(w[n])
  <2>3. p \in Seq(Symbols) /\ rest = Append(p, t) /\ t \in Symbols
    BY <1>2, <2>1, <2>2
  <2> HIDE DEF p, t
  <2>4. rest \in Seq(Symbols) /\ Len(rest) = n /\ rest[n] = t
        /\ \A i \in 1 .. n - 1 : rest[i] = p[i]
    BY <2>1, <2>3
  <2>5. \A i \in 1 .. n : i \in 1 .. n - 1 \/ i = n
    OBVIOUS
  <2> QED
    BY <1>2, <2>1, <2>4, <2>5 DEF SentOf, t
<1> QED
  BY <1>1, <1>2 DEF Cuts

\* What is sent of an answer still has its shape.
LEMMA SentShape ==
    ASSUME NEW a \in Seq(Symbols), NEW n \in Nat, NEW h \in Nat, NEW owner,
           Shape(a, n, h, owner), NEW c \in Seq(Symbols), SentOf(c, a)
    PROVE  /\ Shape(c, n, h, owner)
           /\ \A cookie : TokenFor(a, owner, cookie) => TokenFor(c, owner, cookie)
<1>1. Len(c) \in Nat /\ Len(a) \in Nat /\ Len(c) <= Len(a) /\ Len(a) <= n
  BY DEF SentOf, Shape
<1>2. \A i \in 1 .. Len(c) :
         /\ i \in 1 .. Len(a) /\ c[i].is = a[i].is
         /\ \/ c[i] = a[i]
            \/ a[i].is \in {"cookie", "value", "list"} /\ c[i].val = {Partial}
  <2> SUFFICES ASSUME NEW i \in 1 .. Len(c)
               PROVE  /\ i \in 1 .. Len(a) /\ c[i].is = a[i].is
                      /\ \/ c[i] = a[i]
                         \/ a[i].is \in {"cookie", "value", "list"} /\ c[i].val = {Partial}
    OBVIOUS
  <2>1. i \in 1 .. Len(a) /\ a[i] \in Symbols
    BY <1>1
  <2> QED
    BY <2>1, TornType DEF SentOf
<1>3. \A i \in 1 .. Len(c) : \A j \in 1 .. i - 1 : j \in 1 .. Len(c)
  BY <1>1
<1>4. \A i \in 1 .. Len(c) :
         (\E j \in 1 .. i - 1 : a[j].is = "error") => \E j \in 1 .. i - 1 : c[j].is = "error"
  BY <1>2, <1>3
<1>5. ASSUME NEW i \in 1 .. Len(c)
      PROVE  /\ c[i].is = "crlf" <=> i \in {h + 1, h + 2}
             /\ c[i].is = "length" => i = h /\ c[i].val = {n - h - 2}
             /\ c[i].is = "cookie" => Issue_Or_Torn(c[i].val, owner)
             /\ c[i].is = "list" => c[i].val = {Partial} \/ c[i].val \subseteq Ids
             /\ c[i].is = "value" =>
                   \/ \E j \in 1 .. i - 1 : c[j].is = "error"
                   \/ Issue_Or_Torn(c[i].val, owner)
  <2>1. /\ a[i].is = "crlf" <=> i \in {h + 1, h + 2}
        /\ a[i].is = "length" => i = h /\ a[i].val = {n - h - 2}
        /\ a[i].is = "cookie" => Issue_Or_Torn(a[i].val, owner)
        /\ a[i].is = "list" => a[i].val = {Partial} \/ a[i].val \subseteq Ids
        /\ a[i].is = "value" =>
              \/ \E j \in 1 .. i - 1 : a[j].is = "error"
              \/ Issue_Or_Torn(a[i].val, owner)
    BY <1>2 DEF Shape
  <2>2. CASE c[i] = a[i]
    BY <1>4, <2>1, <2>2
  <2>3. CASE a[i].is \in {"cookie", "value", "list"} /\ c[i].val = {Partial}
    <3>1. Issue_Or_Torn(c[i].val, owner)
      BY <2>3 DEF Issue_Or_Torn
    <3>2. c[i].is \in {"cookie", "value", "list"} /\ c[i].is # "crlf" /\ c[i].is # "length"
          /\ i \notin {h + 1, h + 2}
      BY <1>2, <2>1, <2>3
    <3> QED
      BY <2>3, <3>1, <3>2
  <2> QED
    BY <1>2, <2>2, <2>3
<1>6. Shape(c, n, h, owner)
  <2>1. h \in 1 .. n - 2 /\ Len(c) <= n
    BY <1>1 DEF Shape
  <2> QED
    BY <1>5, <2>1 DEF Shape
<1>7. ASSUME NEW cookie, TokenFor(a, owner, cookie), NEW i \in 1 .. Len(c), c[i].is = "value"
      PROVE  \/ \E j \in 1 .. i - 1 : c[j].is = "error"
             \/ /\ cookie \in IssuedTo(owner)
                /\ \/ c[i].val = {Partial}
                   \/ \E k \in IssuedTo(owner) : c[i].val = {k} /\ owner[k] = owner[cookie]
  <2>1. \/ \E j \in 1 .. i - 1 : a[j].is = "error"
        \/ /\ cookie \in IssuedTo(owner)
           /\ \/ a[i].val = {Partial}
              \/ \E k \in IssuedTo(owner) : a[i].val = {k} /\ owner[k] = owner[cookie]
    BY <1>2, <1>7 DEF TokenFor
  <2> QED
    BY <1>2, <1>4, <2>1
<1>8. ASSUME NEW cookie, TokenFor(a, owner, cookie) PROVE TokenFor(c, owner, cookie)
  BY <1>7, <1>8 DEF TokenFor
<1> QED
  BY <1>6, <1>8

\* What was read, followed by what is sent of the rest, is sent of the answer.
LEMMA CutAnswer ==
    ASSUME NEW a \in Seq(Symbols), NEW b \in Seq(Symbols), NEW w \in Seq(Symbols),
           Prefix(b, w, a), NEW rest \in Seq(Symbols), SentOf(rest, w)
    PROVE  b \o rest \in Seq(Symbols) /\ SentOf(b \o rest, a) /\ Prefix(b, rest, b \o rest)
<1> DEFINE c == b \o rest
<1>1. /\ c \in Seq(Symbols) /\ Len(c) = Len(b) + Len(rest)
      /\ \A i \in 1 .. Len(b) : c[i] = b[i]
      /\ \A i \in 1 .. Len(rest) : c[Len(b) + i] = rest[i]
  BY Concat
<1> HIDE DEF c
<1>2. /\ Len(b) \in Nat /\ Len(w) \in Nat /\ Len(a) \in Nat /\ Len(rest) \in Nat
      /\ Len(b) + Len(w) = Len(a) /\ Len(rest) <= Len(w)
  BY DEF Prefix, SentOf
<1>3. ASSUME NEW i \in 1 .. Len(c)
      PROVE  c[i] = a[i] \/ (a[i].is \in {"cookie", "value", "list"} /\ c[i] = Torn(a[i]))
  <2>1. CASE i \in 1 .. Len(b)
    BY <1>1, <2>1 DEF Prefix
  <2>2. CASE i \notin 1 .. Len(b)
    <3> DEFINE j == i - Len(b)
    <3>1. j \in 1 .. Len(rest) /\ j \in 1 .. Len(w) /\ i = Len(b) + j
      BY <1>1, <1>2, <2>2
    <3> HIDE DEF j
    <3>2. c[i] = rest[j] /\ a[i] = w[j]
      BY <1>1, <3>1 DEF Prefix
    <3> QED
      BY <3>1, <3>2 DEF SentOf
  <2> QED
    BY <2>1, <2>2
<1>4. Len(c) <= Len(a)
  BY <1>1, <1>2
<1>5. SentOf(c, a)
  BY <1>3, <1>4 DEF SentOf
<1>6. Prefix(b, rest, c)
  BY <1>1 DEF Prefix
<1> QED
  BY <1>1, <1>5, <1>6 DEF c

LEMMA CutStep == ASSUME IInv, AnswerCut PROVE IInv'
<1>1. /\ reader.at \in {"header", "body"} /\ happened' = happened \cup {"cut"}
      /\ UNCHANGED <<reader, client, server>>
  BY DEF AnswerCut, Waiting, Fault
<1>2. PICK rest \in Cuts(socket.incoming) :
         socket' = [incoming |-> rest, closing |-> TRUE, answer |-> reader.buffer \o rest]
  BY DEF AnswerCut
<1>3. TypeOK /\ Session /\ OwnToken
  BY DEF IInv
<1> DEFINE a == socket.answer
           b == reader.buffer
           w == socket.incoming
           c == b \o rest
<1>4. w \in Seq(Symbols) /\ b \in Seq(Symbols) /\ a \in Seq(Symbols)
  BY <1>3 DEF TypeOK, SocketType, ReaderType
<1>5. /\ \E n, h \in Nat : /\ Shape(a, n, h, server.owner)
                           /\ reader.at = "body" => Total = n
      /\ Prefix(b, w, a)
  BY <1>1 DEF IInv, Reads_OK
<1>6. rest \in Seq(Symbols) /\ SentOf(rest, w)
  BY <1>4, CutSent
<1> HIDE DEF a, b, w
<1>7. c \in Seq(Symbols) /\ SentOf(c, a) /\ Prefix(b, rest, c)
  BY <1>4, <1>5, <1>6, CutAnswer
<1> HIDE DEF c
<1>8. /\ \E n, h \in Nat : /\ Shape(c, n, h, server.owner)
                           /\ reader.at = "body" => Total = n
      /\ \A cookie : TokenFor(a, server.owner, cookie) => TokenFor(c, server.owner, cookie)
  BY <1>4, <1>5, <1>7, SentShape
<1>9. socket' = [incoming |-> rest, closing |-> TRUE, answer |-> c]
  BY <1>2 DEF b, c
<1>10. socket' \in SocketType /\ socket'.incoming = rest /\ socket'.answer = c
  BY <1>6, <1>7, <1>9 DEF SocketType
<1>11. Issued' = Issued /\ Total' = Total
  BY <1>1 DEF Issued, Total
<1>12. TypeOK'
  BY <1>1, <1>3, <1>10, <1>11 DEF TypeOK, Faults
<1>13. Reads_OK'
  BY <1>1, <1>7, <1>8, <1>10, <1>11 DEF Reads_OK, b
<1>14. Session'
  BY <1>1, <1>3, <1>8, <1>10, <1>11 DEF Session, a
<1>15. OwnToken'
  BY <1>1, <1>3, <1>11 DEF OwnToken
<1> QED
  BY <1>12, <1>13, <1>14, <1>15 DEF IInv

LEMMA ExpireStep == ASSUME IInv, Expire PROVE IInv'
<1>1. /\ happened' = happened \cup {"expired"}
      /\ UNCHANGED <<socket, reader, client>>
      /\ \/ server' = [server EXCEPT !.sessions = {}]
         \/ server' = [server EXCEPT !.tokens = {}]
  BY DEF Expire, Fault
<1>2. TypeOK /\ Reads_OK /\ Session /\ OwnToken
  BY DEF IInv
<1>3. /\ server' \in ServerType /\ server'.owner = server.owner
      /\ server'.sessions \subseteq server.sessions
      /\ server'.tokens \subseteq server.tokens
  BY <1>1, <1>2 DEF TypeOK, ServerType
<1>4. Issued' = Issued /\ Total' = Total
  BY <1>1, <1>3 DEF Issued, Total
<1>6. TypeOK'
  BY <1>1, <1>2, <1>3, <1>4 DEF TypeOK, Faults
<1>7. Reads_OK'
  BY <1>1, <1>2, <1>3, <1>4 DEF Reads_OK
<1>8. Session'
  BY <1>1, <1>2, <1>3, <1>4 DEF Session
<1>9. OwnToken'
  BY <1>1, <1>2, <1>3, <1>4 DEF OwnToken
<1> QED
  BY <1>6, <1>7, <1>8, <1>9 DEF IInv

LEMMA EndingStep == ASSUME IInv, Exit \/ ConnectFails \/ ReadFails PROVE IInv'
<1>1. happened \subseteq Faults
  BY DEF IInv, TypeOK
<1>2. Stop("exited") /\ happened' \subseteq Faults
  BY <1>1 DEF Exit, ConnectFails, ReadFails, Fault, Faults
<1> QED
  BY <1>2, StopStep

LEMMA InitOK == ASSUME Init PROVE IInv
<1>1. /\ socket = Closed /\ reader = Idle /\ client = NewProcess /\ happened = {}
      /\ server = [registered |-> Accounts, sessions |-> {}, tokens |-> {}, owner |-> <<>>,
                   library |-> [u \in Users |-> {}], issued |-> 0]
  BY DEF Init
<1>2. /\ client \in ClientType /\ client.at = "prompt"
      /\ client.current_cookie_session = Uninitialised
      /\ client.current_JWT = Uninitialised
      /\ client.isSomeoneLoggedIn = 0
      /\ client.isSomeoneInLibrary = 0
  BY <1>1, BooksTyped DEF NewProcess, ClientType
<1>3. server \in ServerType /\ server.sessions = {} /\ server.tokens = {}
  <2>1. 0 \in 0 .. MaxBooks /\ Accounts \in SUBSET Users
    BY SessionOK
  <2> QED
    BY <1>1, <2>1 DEF ServerType
<1>4. TypeOK
  BY <1>1, <1>2, <1>3, IdleTyped DEF TypeOK
<1>5. Reads_OK /\ Session /\ OwnToken
  BY <1>1, <1>2, IdleTyped DEF Reads_OK, Session, OwnToken, Commands
<1> QED
  BY <1>4, <1>5 DEF IInv

LEMMA NextOK == ASSUME IInv, [Next]_vars PROVE IInv'
<1>1. CASE Next
  BY <1>1, CommandStep, ReadsStep, ProcessStep, CutStep, ExpireStep, EndingStep DEF Next
<1>2. CASE UNCHANGED vars
  <2>1. UNCHANGED <<socket, reader, client, server, happened>>
    BY <1>2 DEF vars
  <2>2. Issued' = Issued /\ Total' = Total
    BY <2>1 DEF Issued, Total
  <2>3. TypeOK' /\ Session' /\ OwnToken'
    BY <2>1, <2>2 DEF IInv, TypeOK, Session, OwnToken
  <2>4. Reads_OK'
    BY <2>1, <2>2 DEF IInv, Reads_OK
  <2> QED
    BY <2>3, <2>4 DEF IInv
<1> QED
  BY <1>1, <1>2

\* The strengthening is an invariant.
THEOREM Invariance == Spec => []IInv
<1>1. Init => IInv
  BY InitOK
<1>2. IInv /\ [Next]_vars => IInv'
  BY NextOK
<1> QED
  BY <1>1, <1>2, PTL DEF Spec

\* The variables of the client, the reader and the server keep to their types;
\* the cookie and the token the client holds were issued by the server, or are
\* the beginning of one in an answer that was cut, whatever else went wrong
\* (client.c:15-23, 140-166, 196-217, helpers.c:75-78).
THEOREM TypeCorrect == Spec => []TypeOK
<1>1. IInv => TypeOK
  BY DEF IInv
<1> QED
  BY <1>1, Invariance, PTL

\* Wherever the reads end, and wherever the server stops, receive_from_server()
\* returns all that was sent of the answer and nothing else (helpers.c:80-126).
THEOREM AnswersWhole == Spec => []WholeAnswer
<1>1. ASSUME IInv, reader.at = "done"
      PROVE  reader.buffer = socket.answer
  <2>1. Prefix(reader.buffer, socket.incoming, socket.answer) /\ socket.incoming = <<>>
    BY <1>1 DEF IInv, Reads_OK
  <2>2. reader.buffer \in Seq(Symbols) /\ socket.answer \in Seq(Symbols)
    BY <1>1 DEF IInv, TypeOK, ReaderType, SocketType
  <2>3. Len(reader.buffer) = Len(socket.answer)
    BY <2>1, <2>2 DEF Prefix
  <2>4. \A i \in 1 .. Len(reader.buffer) : reader.buffer[i] = socket.answer[i]
    BY <2>1 DEF Prefix
  <2> QED
    BY <2>2, <2>3, <2>4
<1>2. IInv => WholeAnswer
  BY <1>1 DEF WholeAnswer
<1> QED
  BY <1>2, Invariance, PTL

\* In the library, the token held, unless it was torn, is one that the server
\* issued to the account of the cookie held, and that cookie is whole, whatever
\* went wrong (client.c:140-166, 196-217, 402-408).
THEOREM TokensOwn == Spec => []OwnToken
<1>1. IInv => OwnToken
  BY DEF IInv
<1> QED
  BY <1>1, Invariance, PTL

=============================================================================
