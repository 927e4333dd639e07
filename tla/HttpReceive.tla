---------------------------- MODULE HttpReceive ----------------------------
(* receive_from_server() of the REST client and the buffer it fills: one   *)
(* answer read in pieces of any size, until what the header announces has  *)
(* arrived or the server has closed.  An answer is a sequence of symbols   *)
(* (a status line, a header, a CRLF, a token of the body); a read may end  *)
(* between any two of them, inside the header terminator too.              *)
EXTENDS Integers, Sequences, FiniteSets

CONSTANTS BUFLEN        \* the most symbols one read() returns

ASSUME BufferOK == BUFLEN \in Nat \ {0}

VARIABLES socket,       \* [incoming, closing, answer]: what was sent and is not
                        \* read yet; whether the server has closed; all that
                        \* is sent of the answer, for the properties
          reader        \* [at, buffer, header_end, content_length]

Kinds == {"status", "cookie", "length", "crlf", "{", "token", "error", "value", "}", "list"}
Symbol(is, val) == [is |-> is, val |-> val]
Symbols == [is : Kinds, val : SUBSET Int]
TheOnly(s) == CHOOSE x \in s : TRUE

HEADER_TERMINATOR == <<"crlf", "crlf">>
HEADER_TERMINATOR_SIZE == 2
CONTENT_LENGTH == <<"length">>

buffer_init == <<>>

Sent(answer, closing) == [incoming |-> answer, closing |-> closing, answer |-> answer]
Closed == Sent(<<>>, FALSE)

Idle == [at |-> "idle", buffer |-> buffer_init, header_end |-> 0, content_length |-> 0]
Reading == [Idle EXCEPT !.at = "header"]

\* The offset at which kinds first occurs in b, -1 when it does not: both
\* buffer_find and buffer_find_insensitive.
Occurrences(b, kinds) ==
    {i \in 0 .. Len(b) - Len(kinds) : \A j \in 1 .. Len(kinds) : b[i + j].is = kinds[j]}

buffer_find(b, kinds) ==
    IF Occurrences(b, kinds) = {} THEN -1
    ELSE CHOOSE i \in Occurrences(b, kinds) : \A k \in Occurrences(b, kinds) : i <= k

\* buffer_add of the first n symbols that are waiting.
Added(n) == reader.buffer \o SubSeq(socket.incoming, 1, n)
Consume(n) == socket' = [socket EXCEPT !.incoming = SubSeq(@, n + 1, Len(@))]
Pieces == {n \in 1 .. BUFLEN : n <= Len(socket.incoming)}

\* mutant: the terminator itself is counted as body
AfterTerminator_Before(b) == buffer_find(b, HEADER_TERMINATOR)

\* header_end after a piece: the offset just behind the terminator.
AfterTerminator(b) ==
    LET found == buffer_find(b, HEADER_TERMINATOR)
    IN  IF found >= 0 THEN found + HEADER_TERMINATOR_SIZE ELSE found

\* strtol of the digits behind the header's name.
Announced(b) == TheOnly(b[buffer_find(b, CONTENT_LENGTH) + 1].val)

\* A piece while the end of the header, or its Content-Length, is missing.
ReadHeader ==
    /\ reader.at = "header"
    /\ \E n \in Pieces :
          /\ Consume(n)
          /\ LET b == Added(n)
                 complete == AfterTerminator(b) >= 0 /\ buffer_find(b, CONTENT_LENGTH) >= 0
             IN  reader' = [at |-> IF complete THEN "body" ELSE "header",
                            buffer |-> b,
                            header_end |-> AfterTerminator(b),
                            content_length |-> IF complete THEN Announced(b) ELSE 0]

\* mutant: waits for the terminating zero as if the server sent it
Total_WithZero == reader.content_length + reader.header_end + 1

Total == reader.content_length + reader.header_end

\* A piece of the body.
ReadBody ==
    /\ reader.at = "body"
    /\ Len(reader.buffer) < Total
    /\ \E n \in Pieces :
          /\ Consume(n)
          /\ reader' = [reader EXCEPT !.buffer = Added(n)]

\* All that was announced is there.
BodyComplete ==
    /\ reader.at = "body"
    /\ Len(reader.buffer) >= Total
    /\ reader' = [reader EXCEPT !.at = "done"]
    /\ UNCHANGED socket

\* read() returns 0: either loop ends.  Without a header end the total is
\* (size_t) -1, and the second loop reads the same end of file once more.
EndOfFile ==
    /\ \/ reader.at = "header"
       \/ reader.at = "body" /\ Len(reader.buffer) < Total
    /\ socket.closing
    /\ socket.incoming = <<>>
    /\ reader' = [reader EXCEPT !.at = "done"]
    /\ UNCHANGED socket

Receive == ReadHeader \/ ReadBody \/ BodyComplete \/ EndOfFile
=============================================================================
