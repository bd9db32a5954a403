----------------------------- MODULE HttpStream -----------------------------
(***************************************************************************)
(* A message that comes to http_parser_execute in pieces, cut anywhere, and*)
(* what it must make of it: the calls it makes are those of the whole      *)
(* message, whatever the cuts.                                             *)
(***************************************************************************)
EXTENDS HttpParser

CONSTANTS
    Samples    \* messages: type of parser, bytes, the calls due and the errno due

VARIABLES
    msg,       \* the message under way
    fed,       \* how many of its bytes were handed over
    closed,    \* the end of the stream was, too
    parser,    \* the http_parser
    calls,     \* the callbacks it made
    sound      \* no assert has failed

httpVars == <<msg, fed, closed, parser, calls, sound>>

-----------------------------------------------------------------------------
\* Messages as they are written, and the calls that are due for them.

Line(s) == s \o <<CR, LF>>
HeaderLines(hs) == FoldLeft(LAMBDA b, h : b \o Line(h[1] \o <<":", " ">> \o h[2]), <<>>, hs)
HeaderCalls(hs) ==
    FoldLeft(LAMBDA b, h : b \o <<<<"header_field", h[1]>>, <<"header_value", h[2]>>>>, <<>>, hs)
BodyCalls(body) == IF body = <<>> THEN <<>> ELSE <<<<"body", body>>>>
Notice(what) == <<<<what, <<>>>>>>
Version == <<"H", "T", "T", "P", "/", "1", ".", "1">>

Request(method, url, hs, body) ==
    [type |-> "REQUEST", errno |-> "OK",
     bytes |-> Line(Methods[method] \o <<" ">> \o url \o <<" ">> \o Version)
                   \o Line(HeaderLines(hs)) \o body,
     calls |-> Notice("message_begin") \o <<<<"url", url>>>> \o HeaderCalls(hs)
                   \o Notice("headers_complete") \o BodyCalls(body) \o Notice("message_complete")]

Response(status, hs, body) ==
    [type |-> "RESPONSE", errno |-> "OK",
     bytes |-> Line(Version \o <<" ">> \o status \o <<" ", "O", "K">>)
                   \o Line(HeaderLines(hs)) \o body,
     calls |-> Notice("message_begin") \o Notice("status_complete") \o HeaderCalls(hs)
                   \o Notice("headers_complete") \o BodyCalls(body) \o Notice("message_complete")]

\* The same message for a parser that is told neither or in other words.
As(m, type) == [m EXCEPT !.type = type]
Spelt(m, bytes) == [m EXCEPT !.bytes = bytes]
\* One message after another on the same connection.
Then(m, n) == [m EXCEPT !.bytes = @ \o n.bytes, !.calls = @ \o n.calls, !.errno = n.errno]
\* Bytes after which the parser gives up; the calls it has made by then.
Broken(type, bytes, due, e) == [type |-> type, bytes |-> bytes, calls |-> due, errno |-> e]

\* An application puts the pieces of one string together.
Merge(cs) ==
    FoldLeft(LAMBDA b, c :
                IF b # <<>> /\ b[Len(b)][1] = c[1] /\ c[1] \in Kinds
                THEN [b EXCEPT ![Len(b)] = <<c[1], @[2] \o c[2]>>]
                ELSE Append(b, c),
             <<>>, cs)

-----------------------------------------------------------------------------
HttpInit ==
    /\ msg \in Samples
    /\ fed = 0 /\ closed = FALSE /\ sound = TRUE
    /\ parser = http_parser_init(msg.type)
    /\ calls = <<>>

Take(x) ==
    /\ parser' = x.parser
    /\ calls' = Merge(calls \o x.calls)
    /\ sound' = (sound /\ x.sound)

\* The next n bytes; after an upgrade what follows is not for the parser.
Feed(n) ==
    /\ fed + n <= Len(msg.bytes) /\ ~parser.upgrade
    /\ Take(http_parser_execute(parser, SubSeq(msg.bytes, fed + 1, fed + n)))
    /\ fed' = fed + n
    /\ UNCHANGED <<msg, closed>>

FeedEof ==
    /\ fed = Len(msg.bytes) /\ ~closed /\ ~parser.upgrade
    /\ Take(http_parser_execute(parser, <<>>))
    /\ closed' = TRUE
    /\ UNCHANGED <<msg, fed>>

HttpNext == (\E n \in 1..(Len(msg.bytes) - fed) : Feed(n)) \/ FeedEof

-----------------------------------------------------------------------------
\* The calls made are those due; only the string in which an error was found may
\* have been called for or not.
Agrees(due) ==
    \/ calls = due
    \/ /\ parser.http_errno # "OK" /\ calls # <<>>
       /\ Front(calls) = due /\ Last(calls)[1] \in Kinds

\* What http_parser_execute makes of the first n bytes of m in one piece.
InOnePiece ==
    [m \in Samples |-> [n \in 0..Len(m.bytes) |->
        http_parser_execute(http_parser_init(m.type), SubSeq(m.bytes, 1, n))]]

\* http_parser_execute keeps in http_parser all that a message needs to go on in
\* the next piece, and marks what goes on: cut in whatever pieces, a message
\* makes the calls it makes in one, no assert of the parser fails on the way, and
\* at the end the calls are those due for what was written.
ParsedAsSent ==
    LET whole == InOnePiece[msg][fed] IN
    /\ sound
    /\ ~closed => Agrees(Merge(whole.calls))
    /\ ~closed /\ fed > 0 => parser = whole.parser
    /\ closed \/ parser.upgrade => Agrees(msg.calls) /\ parser.http_errno = msg.errno
=============================================================================
