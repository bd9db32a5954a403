----------------------------- MODULE HttpParser -----------------------------
(***************************************************************************)
(* http_parser_execute of the HTTP parser that login_server and the client *)
(* build in: a machine of one byte at a time that is handed a message in   *)
(* any pieces and calls back with the URL, the headers and the body.  A    *)
(* byte is a one-letter string.  The words it knows are cut down to the    *)
(* letters that tell them apart and the ones its matching starts over at;  *)
(* the callbacks return 0, as those of CHttpParserWrapper do.              *)
(***************************************************************************)
EXTENDS Integers, Sequences, FiniteSets, SequencesExt

CONSTANTS
    MaxHeaderSize,   \* HTTP_MAX_HEADER_SIZE
    ULLONG_MAX       \* lengths are taken modulo ULLONG_MAX + 1

ASSUME HttpParserAssumption == MaxHeaderSize \in Nat /\ ULLONG_MAX \in Nat

CR == "\r"
LF == "\n"
Kinds == {"header_field", "header_value", "url", "body"}

-----------------------------------------------------------------------------
\* Bytes.  LOWER sets one bit; of the bytes it changes only letters matter.
Uppers == <<"A","B","C","D","E","F","G","H","I","J","K","L","M","N","O","P","Q","R","S","T","U","V","W","X","Y","Z">>
Lowers == <<"a","b","c","d","e","f","g","h","i","j","k","l","m","n","o","p","q","r","s","t","u","v","w","x","y","z">>
LOWER(c) == IF \E i \in DOMAIN Uppers : Uppers[i] = c
            THEN Lowers[CHOOSE i \in DOMAIN Uppers : Uppers[i] = c] ELSE c
DigitSeq == <<"0", "1", "2", "3", "4", "5", "6", "7", "8", "9">>
IS_NUM(c) == c \in Range(DigitSeq)
IS_ALPHA(c) == LOWER(c) \in Range(Lowers)
NumOf(c) == (CHOOSE i \in DOMAIN DigitSeq : DigitSeq[i] = c) - 1

Marks == {"-", "_", ".", "!", "~", "*", "'", "(", ")"}
IS_USERINFO_CHAR(c) ==
    IS_ALPHA(c) \/ IS_NUM(c) \/ c \in Marks \cup {"%", ";", ":", "&", "=", "+", "$", ","}

\* unhex: -1 for a byte that is no hexadecimal digit.
unhex(c) ==
    IF IS_NUM(c) THEN NumOf(c)
    ELSE IF LOWER(c) \in Range(SubSeq(Lowers, 1, 6))
         THEN 9 + CHOOSE i \in 1..6 : Lowers[i] = LOWER(c)
         ELSE -1

\* tokens: a header name's byte in lower case; 0, here "", for a separator.
Separators == {"(", ")", "<", ">", "@", ",", ";", ":", "\\", "\"", "/", "[", "]", "?", "=",
               "{", "}", " ", "\t", CR, LF, "DEL"}
TOKEN(c) == IF c \in Separators THEN "" ELSE LOWER(c)

\* normal_url_char: printable, but for ? and #, which end a part of the URL; "DEL"
\* stands for the bytes that are not.
IS_URL_CHAR(c) == c \notin {" ", "\t", "\f", CR, LF, "?", "#", "DEL"}

-----------------------------------------------------------------------------
\* method_strings, and what s_req_method takes a method for at a letter of
\* another one: the method so far, how many letters of it, the letter, the other.
Methods ==
    [DELETE |-> <<"D","E","L","E","T","E">>, GET |-> <<"G","E","T">>, HEAD |-> <<"H","E","A","D">>,
     POST |-> <<"P","O","S","T">>, PUT |-> <<"P","U","T">>, CONNECT |-> <<"C","O","N","N","E","C","T">>,
     OPTIONS |-> <<"O","P","T","I","O","N","S">>, TRACE |-> <<"T","R","A","C","E">>,
     COPY |-> <<"C","O","P","Y">>, LOCK |-> <<"L","O","C","K">>, MKCOL |-> <<"M","K","C","O","L">>,
     MOVE |-> <<"M","O","V","E">>, PROPFIND |-> <<"P","R","O","P","F","I","N","D">>,
     PROPPATCH |-> <<"P","R","O","P","P","A","T","C","H">>, SEARCH |-> <<"S","E","A","R","C","H">>,
     UNLOCK |-> <<"U","N","L","O","C","K">>, REPORT |-> <<"R","E","P","O","R","T">>,
     MKACTIVITY |-> <<"M","K","A","C","T","I","V","I","T","Y">>,
     CHECKOUT |-> <<"C","H","E","C","K","O","U","T">>, MERGE |-> <<"M","E","R","G","E">>,
     MSEARCH |-> <<"M","-","S","E","A","R","C","H">>, NOTIFY |-> <<"N","O","T","I","F","Y">>,
     SUBSCRIBE |-> <<"S","U","B","S","C","R","I","B","E">>,
     UNSUBSCRIBE |-> <<"U","N","S","U","B","S","C","R","I","B","E">>,
     PATCH |-> <<"P","A","T","C","H">>, PURGE |-> <<"P","U","R","G","E">>]

FirstMethod == [C |-> "CONNECT", D |-> "DELETE", G |-> "GET", H |-> "HEAD", L |-> "LOCK", M |-> "MKCOL",
                N |-> "NOTIFY", O |-> "OPTIONS", P |-> "POST", R |-> "REPORT", S |-> "SUBSCRIBE",
                T |-> "TRACE", U |-> "UNLOCK"]

Turns == {<<"CONNECT", 1, "H", "CHECKOUT">>, <<"CONNECT", 2, "P", "COPY">>, <<"MKCOL", 1, "O", "MOVE">>,
          <<"MKCOL", 1, "E", "MERGE">>, <<"MKCOL", 1, "-", "MSEARCH">>, <<"MKCOL", 2, "A", "MKACTIVITY">>,
          <<"SUBSCRIBE", 1, "E", "SEARCH">>, <<"POST", 1, "R", "PROPFIND">>, <<"POST", 1, "U", "PUT">>,
          <<"POST", 1, "A", "PATCH">>, <<"PUT", 2, "R", "PURGE">>, <<"UNLOCK", 2, "S", "UNSUBSCRIBE">>,
          <<"PROPFIND", 4, "P", "PROPPATCH">>}

\* Header names and values: connection, proxy-connection, content-length,
\* transfer-encoding, upgrade; chunked, keep-alive, close.
Words == [matching_connection |-> <<"c","o","n","n","e">>, matching_proxy_connection |-> <<"p","r","o">>,
          matching_content_length |-> <<"c","o","n","t","e">>,
          matching_transfer_encoding |-> <<"t","r","a">>, matching_upgrade |-> <<"u","p">>,
          matching_transfer_encoding_chunked |-> <<"c","h","u">>,
          matching_connection_keep_alive |-> <<"k","e">>, matching_connection_close |-> <<"c","l","o">>]
Matched == [matching_connection |-> "connection", matching_proxy_connection |-> "connection",
            matching_content_length |-> "content_length", matching_upgrade |-> "upgrade",
            matching_transfer_encoding |-> "transfer_encoding",
            matching_transfer_encoding_chunked |-> "transfer_encoding_chunked",
            matching_connection_keep_alive |-> "connection_keep_alive",
            matching_connection_close |-> "connection_close"]

-----------------------------------------------------------------------------
\* parse_url_char.
UrlStates == {"req_schema", "req_schema_slash", "req_schema_slash_slash", "req_server_start",
              "req_server", "req_server_with_at", "req_path", "req_query_string_start",
              "req_query_string", "req_fragment_start", "req_fragment"}

parse_url_char(s, ch) ==
    CASE ch \in {" ", CR, LF, "\t", "\f"} -> "dead"
      [] s = "req_spaces_before_url" ->
            IF ch \in {"/", "*"} THEN "req_path" ELSE IF IS_ALPHA(ch) THEN "req_schema" ELSE "dead"
      [] s = "req_schema" -> IF IS_ALPHA(ch) THEN s ELSE IF ch = ":" THEN "req_schema_slash" ELSE "dead"
      [] s = "req_schema_slash" -> IF ch = "/" THEN "req_schema_slash_slash" ELSE "dead"
      [] s = "req_schema_slash_slash" -> IF ch = "/" THEN "req_server_start" ELSE "dead"
      [] s \in {"req_server_with_at", "req_server_start", "req_server"} ->
            IF ch = "/" THEN "req_path"
            ELSE IF ch = "?" THEN "req_query_string_start"
            ELSE IF ch = "@" THEN (IF s = "req_server_with_at" THEN "dead" ELSE "req_server_with_at")
            ELSE IF IS_USERINFO_CHAR(ch) \/ ch \in {"[", "]"} THEN "req_server" ELSE "dead"
      [] s = "req_path" ->
            IF ch = "?" THEN "req_query_string_start" ELSE IF ch = "#" THEN "req_fragment_start"
            ELSE IF IS_URL_CHAR(ch) THEN s ELSE "dead"
      [] s \in {"req_query_string_start", "req_query_string"} ->
            IF ch = "#" THEN "req_fragment_start"
            ELSE IF IS_URL_CHAR(ch) \/ ch = "?" THEN "req_query_string" ELSE "dead"
      [] s = "req_fragment_start" -> 
            IF ch = "#" THEN s ELSE IF IS_URL_CHAR(ch) \/ ch = "?" THEN "req_fragment" ELSE "dead"
      [] s = "req_fragment" -> IF IS_URL_CHAR(ch) \/ ch \in {"?", "#"} THEN s ELSE "dead"
      [] OTHER -> "dead"

-----------------------------------------------------------------------------
\* A call of http_parser_execute: the parser, the piece, where p is in it, the
\* marks (0: not set), the callbacks made; stop: it returns; again: the byte is
\* looked at again in another state; sound: no assert has failed.

http_parser_init(t) ==
    [type |-> t, state |-> CASE t = "REQUEST" -> "start_req" [] t = "RESPONSE" -> "start_res"
                             [] OTHER -> "start_req_or_res",
     flags |-> {}, header_state |-> "general", index |-> 0, nread |-> 0, content_length |-> 0,
     http_major |-> 0, http_minor |-> 0, status_code |-> 0, method |-> "DELETE",
     http_errno |-> "OK", upgrade |-> FALSE]

Fail(x, e) == [x EXCEPT !.parser.http_errno = e, !.stop = TRUE]
Go(x, s) == [x EXCEPT !.parser.state = s]
Again(x, s) == [x EXCEPT !.parser.state = s, !.again = TRUE]
Assert_(x, cond) == IF cond THEN x ELSE [x EXCEPT !.sound = FALSE, !.stop = TRUE]
CALLBACK_NOTIFY(x, what) == [x EXCEPT !.calls = Append(@, <<what, <<>>>>)]
MARK(x, kind) == IF x.mark[kind] = 0 THEN [x EXCEPT !.mark[kind] = x.p] ELSE x
\* CALLBACK_DATA_: what lies between the mark and p, or up to p itself.
CALLBACK_DATA(x, kind, last) ==
    IF x.mark[kind] = 0 THEN x
    ELSE [x EXCEPT !.calls = Append(@, <<kind, SubSeq(x.data, x.mark[kind], last)>>),
                   !.mark[kind] = 0]

http_message_needs_eof(q) ==
    /\ q.type # "REQUEST"
    /\ ~(q.status_code \div 100 = 1 \/ q.status_code \in {204, 304} \/ "SKIPBODY" \in q.flags)
    /\ "CHUNKED" \notin q.flags /\ q.content_length = ULLONG_MAX

http_should_keep_alive(q) ==
    /\ IF q.http_major > 0 /\ q.http_minor > 0 THEN "CONNECTION_CLOSE" \notin q.flags
       ELSE "CONNECTION_KEEP_ALIVE" \in q.flags
    /\ ~http_message_needs_eof(q)

\* NEW_MESSAGE and the message_complete callback.
MessageComplete(x) ==
    CALLBACK_NOTIFY(Go(x, IF ~http_should_keep_alive(x.parser) THEN "dead"
                          ELSE IF x.parser.type = "REQUEST" THEN "start_req" ELSE "start_res"),
                    "message_complete")

-----------------------------------------------------------------------------
\* The start of a message, and the line of a response.
NewMessage(x) == [x EXCEPT !.parser.flags = {}, !.parser.content_length = ULLONG_MAX]

Dead(x, ch) == IF ch \in {CR, LF} THEN x ELSE Fail(x, "CLOSED_CONNECTION")

StartReqOrRes(x, ch) ==
    IF ch \in {CR, LF} THEN x
    ELSE IF ch = "H" THEN CALLBACK_NOTIFY(Go(NewMessage(x), "res_or_resp_H"), "message_begin")
    ELSE [Again(NewMessage(x), "start_req") EXCEPT !.parser.type = "REQUEST"]

ResOrRespH(x, ch) ==
    CASE ch = "T" -> [Go(x, "res_HT") EXCEPT !.parser.type = "RESPONSE"]
      [] ch = "E" -> [Go(x, "req_method") EXCEPT !.parser.type = "REQUEST", !.parser.method = "HEAD",
                                                 !.parser.index = 2]
      [] OTHER -> Fail(x, "INVALID_CONSTANT")

\* An empty line before a response begins a message too.
StartRes(x, ch) ==
    LET y == NewMessage(x) IN
    IF ch \notin {"H", CR, LF} THEN Fail(y, "INVALID_CONSTANT")
    ELSE CALLBACK_NOTIFY(IF ch = "H" THEN Go(y, "res_H") ELSE y, "message_begin")

ResNext == [res_H |-> <<"T", "res_HT">>, res_HT |-> <<"T", "res_HTT">>, res_HTT |-> <<"P", "res_HTTP">>,
            res_HTTP |-> <<"/", "res_first_http_major">>]
ResConstant(x, ch) ==
    LET next == ResNext[x.parser.state] IN
    IF ch # next[1] THEN Fail(x, "STRICT") ELSE Go(x, next[2])

\* A number of at most three digits, in the field f of the parser.
AddDigit(x, f, ch, e) ==
    LET n == x.parser[f] * 10 + NumOf(ch) IN
    IF n > 999 THEN Fail([x EXCEPT !.parser[f] = n], e) ELSE [x EXCEPT !.parser[f] = n]

ResVersion(x, ch) ==
    LET s == x.parser.state IN
    CASE s = "res_http_major" /\ ch = "." -> Go(x, "res_first_http_minor")
      [] s = "res_http_minor" /\ ch = " " -> Go(x, "res_first_status_code")
      [] OTHER ->
            IF ~IS_NUM(ch) THEN Fail(x, "INVALID_VERSION")
            ELSE CASE s = "res_first_http_major" ->
                        [Go(x, "res_http_major") EXCEPT !.parser.http_major = NumOf(ch)]
                   [] s = "res_first_http_minor" ->
                        [Go(x, "res_http_minor") EXCEPT !.parser.http_minor = NumOf(ch)]
                   [] s = "res_http_major" -> AddDigit(x, "http_major", ch, "INVALID_VERSION")
                   [] OTHER -> AddDigit(x, "http_minor", ch, "INVALID_VERSION")

EndOfStatus(x, ch) == Go(x, IF ch = CR THEN "res_line_almost_done" ELSE "header_field_start")

ResStatus(x, ch) ==
    LET s == x.parser.state IN
    CASE s = "res_first_status_code" ->
            IF IS_NUM(ch) THEN [Go(x, "res_status_code") EXCEPT !.parser.status_code = NumOf(ch)]
            ELSE IF ch = " " THEN x ELSE Fail(x, "INVALID_STATUS")
      [] s = "res_status_code" ->
            IF IS_NUM(ch) THEN AddDigit(x, "status_code", ch, "INVALID_STATUS")
            ELSE IF ch = " " THEN Go(x, "res_status")
            ELSE IF ch \in {CR, LF} THEN EndOfStatus(x, ch) ELSE Fail(x, "INVALID_STATUS")
      [] s = "res_status" -> IF ch \in {CR, LF} THEN EndOfStatus(x, ch) ELSE x
      [] s = "res_line_almost_done" ->
            IF ch # LF THEN Fail(x, "STRICT")
            ELSE CALLBACK_NOTIFY(Go(x, "header_field_start"), "status_complete")

-----------------------------------------------------------------------------
\* The line of a request.

StartReq(x, ch) ==
    LET y == NewMessage(x) IN
    IF ch \in {CR, LF} THEN x
    ELSE IF ch \notin DOMAIN FirstMethod THEN Fail(y, "INVALID_METHOD")
    ELSE CALLBACK_NOTIFY([Go(y, "req_method") EXCEPT !.parser.method = FirstMethod[ch],
                                                    !.parser.index = 1], "message_begin")

ReqMethod(x, ch) ==
    LET q == x.parser
        word == Methods[q.method]
        turn == {t \in Turns : t[1] = q.method /\ t[2] = q.index /\ t[3] = ch}
        y == [x EXCEPT !.parser.index = @ + 1]
    IN  CASE ch = " " /\ q.index = Len(word) -> Go(y, "req_spaces_before_url")
          [] q.index < Len(word) /\ ch = word[q.index + 1] -> y
          [] turn # {} /\ ~(q.index < Len(word) /\ ch = word[q.index + 1]) ->
                [y EXCEPT !.parser.method = (CHOOSE t \in turn : TRUE)[4]]
          [] OTHER -> Fail(x, "INVALID_METHOD")

UrlByte(x, s, ch) ==
    LET to == parse_url_char(s, ch) IN
    IF to = "dead" THEN Fail(Go(x, to), "INVALID_URL") ELSE Go(x, to)

ReqSpacesBeforeUrl(x, ch) ==
    IF ch = " " THEN x
    ELSE UrlByte(MARK(x, "url"),
                 IF x.parser.method = "CONNECT" THEN "req_server_start" ELSE x.parser.state, ch)

ReqSchema(x, ch) ==
    IF ch \in {" ", CR, LF} THEN Fail(x, "INVALID_URL") ELSE UrlByte(x, x.parser.state, ch)

\* A line that ends at the URL is one of HTTP 0.9.
ReqUrl(x, ch) ==
    CASE ch = " " -> CALLBACK_DATA(Go(x, "req_http_start"), "url", x.p - 1)
      [] ch \in {CR, LF} ->
            CALLBACK_DATA([Go(x, IF ch = CR THEN "req_line_almost_done" ELSE "header_field_start")
                              EXCEPT !.parser.http_major = 0, !.parser.http_minor = 9], "url", x.p - 1)
      [] OTHER -> UrlByte(x, x.parser.state, ch)

ReqHttpStart(x, ch) ==
    CASE ch = "H" -> Go(x, "req_http_H") [] ch = " " -> x [] OTHER -> Fail(x, "INVALID_CONSTANT")

ReqNext == [req_http_H |-> <<"T", "req_http_HT">>, req_http_HT |-> <<"T", "req_http_HTT">>,
            req_http_HTT |-> <<"P", "req_http_HTTP">>, req_http_HTTP |-> <<"/", "req_first_http_major">>]
ReqConstant(x, ch) ==
    LET next == ReqNext[x.parser.state] IN
    IF ch # next[1] THEN Fail(x, "STRICT") ELSE Go(x, next[2])

ReqVersion(x, ch) ==
    LET s == x.parser.state IN
    CASE s = "req_http_major" /\ ch = "." -> Go(x, "req_first_http_minor")
      [] s = "req_http_minor" /\ ch = CR -> Go(x, "req_line_almost_done")
      [] s = "req_http_minor" /\ ch = LF -> Go(x, "header_field_start")
      [] OTHER ->
            IF ~IS_NUM(ch) \/ (s = "req_first_http_major" /\ ch = "0") THEN Fail(x, "INVALID_VERSION")
            ELSE CASE s = "req_first_http_major" ->
                        [Go(x, "req_http_major") EXCEPT !.parser.http_major = NumOf(ch)]
                   [] s = "req_first_http_minor" ->
                        [Go(x, "req_http_minor") EXCEPT !.parser.http_minor = NumOf(ch)]
                   [] s = "req_http_major" -> AddDigit(x, "http_major", ch, "INVALID_VERSION")
                   [] OTHER -> AddDigit(x, "http_minor", ch, "INVALID_VERSION")

ReqLineAlmostDone(x, ch) ==
    IF ch = LF THEN Go(x, "header_field_start") ELSE Fail(x, "LF_EXPECTED")

-----------------------------------------------------------------------------
\* Headers.

\* One more letter of the word that header_state matches.
MatchWord(x, c) ==
    LET i == x.parser.index + 1
        h == x.parser.header_state
    IN  [x EXCEPT !.parser.index = i,
                  !.parser.header_state = IF i >= Len(Words[h]) \/ c # Words[h][i + 1] THEN "general"
                                          ELSE IF i = Len(Words[h]) - 1 THEN Matched[h] ELSE h]

HeaderFieldStart(x, ch) ==
    LET c == TOKEN(ch)
        h == CASE c = "c" -> "C" [] c = "p" -> "matching_proxy_connection"
               [] c = "t" -> "matching_transfer_encoding" [] c = "u" -> "matching_upgrade"
               [] OTHER -> "general"
    IN  CASE ch = CR -> Go(x, "headers_almost_done")
          [] ch = LF -> Again(x, "headers_almost_done")
          [] c = "" /\ ch \notin {CR, LF} -> Fail(x, "INVALID_HEADER_TOKEN")
          [] OTHER -> [Go(MARK(x, "header_field"), "header_field")
                          EXCEPT !.parser.index = 0, !.parser.header_state = h]

\* h_C, h_CO and h_CON are the letters that connection and content-length share.
Shared == [C |-> [o |-> "CO"], CO |-> [n |-> "CON"],
           CON |-> [n |-> "matching_connection", t |-> "matching_content_length"]]

HeaderFieldByte(x, c) ==
    LET h == x.parser.header_state IN
    CASE h = "general" -> x
      [] h \in DOMAIN Shared ->
            [x EXCEPT !.parser.index = @ + 1,
                      !.parser.header_state = IF c \in DOMAIN Shared[h] THEN Shared[h][c] ELSE "general"]
      [] h \in DOMAIN Words -> MatchWord(x, c)
      [] h \in {"connection", "content_length", "transfer_encoding", "upgrade"} ->
            [x EXCEPT !.parser.header_state = "general"]
      [] OTHER -> Assert_(x, FALSE)

HeaderField(x, ch) ==
    CASE TOKEN(ch) # "" -> HeaderFieldByte(x, TOKEN(ch))
      [] ch = ":" -> CALLBACK_DATA(Go(x, "header_value_start"), "header_field", x.p - 1)
      [] ch = CR -> CALLBACK_DATA(Go(x, "header_almost_done"), "header_field", x.p - 1)
      [] ch = LF -> CALLBACK_DATA(Go(x, "header_field_start"), "header_field", x.p - 1)
      [] OTHER -> Fail(x, "INVALID_HEADER_TOKEN")

HeaderValueStart(x, ch) ==
    LET y == [MARK(x, "header_value") EXCEPT !.parser.state = "header_value", !.parser.index = 0]
        h == x.parser.header_state
        c == LOWER(ch)
        To(s) == [y EXCEPT !.parser.header_state = s]
    IN  CASE ch \in {" ", "\t"} -> x
          [] ch = CR -> CALLBACK_DATA(Go(To("general"), "header_almost_done"), "header_value", x.p - 1)
          [] ch = LF -> CALLBACK_DATA(Go(y, "header_field_start"), "header_value", x.p - 1)
          [] OTHER ->
                CASE h = "upgrade" -> [To("general") EXCEPT !.parser.flags = @ \cup {"UPGRADE"}]
                  [] h = "transfer_encoding" /\ c = "c" -> To("matching_transfer_encoding_chunked")
                  [] h = "content_length" ->
                        IF IS_NUM(ch) THEN [y EXCEPT !.parser.content_length = NumOf(ch)]
                        ELSE Fail(y, "INVALID_CONTENT_LENGTH")
                  [] h = "connection" /\ c = "k" -> To("matching_connection_keep_alive")
                  [] h = "connection" /\ c = "c" -> To("matching_connection_close")
                  [] OTHER -> To("general")

\* content_length with one more digit; the test for overflow is the code's.
AddLength(x, base, n) ==
    LET t == (x.parser.content_length * base + n) % (ULLONG_MAX + 1) IN
    IF t < x.parser.content_length \/ t = ULLONG_MAX THEN Fail(x, "INVALID_CONTENT_LENGTH")
    ELSE [x EXCEPT !.parser.content_length = t]

HeaderValue(x, ch) ==
    LET h == x.parser.header_state IN
    CASE ch = CR -> CALLBACK_DATA(Go(x, "header_almost_done"), "header_value", x.p - 1)
      [] ch = LF -> CALLBACK_DATA(Again(x, "header_almost_done"), "header_value", x.p - 1)
      [] OTHER ->
            CASE h = "general" -> x
              [] h \in {"connection", "transfer_encoding"} -> Assert_(x, FALSE)
              [] h = "content_length" ->
                    IF ch = " " THEN x
                    ELSE IF IS_NUM(ch) THEN AddLength(x, 10, NumOf(ch))
                    ELSE Fail(x, "INVALID_CONTENT_LENGTH")
              [] h \in {"matching_transfer_encoding_chunked", "matching_connection_keep_alive",
                        "matching_connection_close"} -> MatchWord(x, LOWER(ch))
              [] h \in {"transfer_encoding_chunked", "connection_keep_alive", "connection_close"} /\ ch = " " -> x
              [] OTHER -> [x EXCEPT !.parser.header_state = "general"]

HeaderAlmostDone(x, ch) ==
    LET h == x.parser.header_state
        flag == CASE h = "connection_keep_alive" -> {"CONNECTION_KEEP_ALIVE"}
                  [] h = "connection_close" -> {"CONNECTION_CLOSE"}
                  [] h = "transfer_encoding_chunked" -> {"CHUNKED"}
                  [] OTHER -> {}
    IN  IF ch # LF THEN Fail(x, "STRICT")
        ELSE [Go(x, "header_value_lws") EXCEPT !.parser.flags = @ \cup flag]

HeaderValueLws(x, ch) ==
    IF ch \in {" ", "\t"} THEN Go(x, "header_value_start") ELSE Again(x, "header_field_start")

HeadersAlmostDone(x, ch) ==
    LET q == x.parser IN
    CASE ch # LF -> Fail(x, "STRICT")
      [] ch = LF /\ "TRAILING" \in q.flags -> MessageComplete(x)
      [] OTHER -> CALLBACK_NOTIFY([Again(x, "headers_done")
                      EXCEPT !.parser.upgrade = ("UPGRADE" \in q.flags \/ q.method = "CONNECT")],
                      "headers_complete")

\* Which body there is; after an upgrade the rest is not for this parser.
HeadersDone(x, ch) ==
    LET y == [x EXCEPT !.parser.nread = 0]
        q == y.parser
    IN  CASE q.upgrade -> [MessageComplete(y) EXCEPT !.stop = TRUE]
          [] ~q.upgrade /\ "SKIPBODY" \in q.flags -> MessageComplete(y)
          [] ~q.upgrade /\ "SKIPBODY" \notin q.flags /\ "CHUNKED" \in q.flags -> Go(y, "chunk_size_start")
          [] OTHER ->
                CASE q.content_length = 0 -> MessageComplete(y)
                  [] q.content_length \notin {0, ULLONG_MAX} -> Go(y, "body_identity")
                  [] OTHER -> IF q.type = "REQUEST" \/ ~http_message_needs_eof(q)
                              THEN MessageComplete(y) ELSE Go(y, "body_identity_eof")

-----------------------------------------------------------------------------
\* Bodies.

\* As much of the body as the piece holds: p stays on its last byte.
TakeBody(x) ==
    LET left == Len(x.data) - x.p + 1
        n == IF x.parser.content_length < left THEN x.parser.content_length ELSE left
    IN  [MARK(Assert_(x, x.parser.content_length \notin {0, ULLONG_MAX}), "body")
            EXCEPT !.parser.content_length = @ - n, !.p = @ + n - 1]

BodyIdentity(x, ch) ==
    LET y == TakeBody(x) IN
    IF y.parser.content_length = 0
    THEN CALLBACK_DATA(Again(y, "message_done"), "body", y.p)
    ELSE y

BodyIdentityEof(x, ch) == [MARK(x, "body") EXCEPT !.p = Len(x.data)]

ChunkSize(x, ch) ==
    LET first == x.parser.state = "chunk_size_start"
        y == Assert_(x, "CHUNKED" \in x.parser.flags /\ (first => x.parser.nread = 1))
    IN  CASE ~first /\ ch = CR -> Go(y, "chunk_size_almost_done")
          [] unhex(ch) = -1 /\ ~(~first /\ ch = CR) ->
                IF ~first /\ ch \in {";", " "} THEN Go(y, "chunk_parameters")
                ELSE Fail(y, "INVALID_CHUNK_SIZE")
          [] OTHER -> IF first THEN [Go(y, "chunk_size") EXCEPT !.parser.content_length = unhex(ch)]
                      ELSE AddLength(y, 16, unhex(ch))

ChunkParameters(x, ch) == IF ch = CR THEN Go(x, "chunk_size_almost_done") ELSE x

ChunkSizeAlmostDone(x, ch) ==
    LET y == [x EXCEPT !.parser.nread = 0] IN
    IF ch # LF THEN Fail(x, "STRICT")
    ELSE IF x.parser.content_length = 0
         THEN [Go(y, "header_field_start") EXCEPT !.parser.flags = @ \cup {"TRAILING"}]
         ELSE Go(y, "chunk_data")

ChunkData(x, ch) ==
    LET y == TakeBody(x) IN
    IF y.parser.content_length = 0 THEN Go(y, "chunk_data_almost_done") ELSE y

ChunkDataAlmostDone(x, ch) ==
    IF ch # CR THEN Fail(x, "STRICT")
    ELSE CALLBACK_DATA(Go(Assert_(x, x.parser.content_length = 0), "chunk_data_done"), "body", x.p - 1)

ChunkDataDone(x, ch) ==
    IF ch # LF THEN Fail(x, "STRICT")
    ELSE [Go(x, "chunk_size_start") EXCEPT !.parser.nread = 0]

-----------------------------------------------------------------------------
\* The switch of http_parser_execute.
Switch(x, ch) ==
    LET s == x.parser.state IN
    CASE s = "dead" -> Dead(x, ch)
      [] s = "start_req_or_res" -> StartReqOrRes(x, ch)
      [] s = "res_or_resp_H" -> ResOrRespH(x, ch)
      [] s = "start_res" -> StartRes(x, ch)
      [] s \in DOMAIN ResNext -> ResConstant(x, ch)
      [] s \in {"res_first_http_major", "res_http_major", "res_first_http_minor", "res_http_minor"} ->
            ResVersion(x, ch)
      [] s \in {"res_first_status_code", "res_status_code", "res_status", "res_line_almost_done"} ->
            ResStatus(x, ch)
      [] s = "start_req" -> StartReq(x, ch)
      [] s = "req_method" -> ReqMethod(x, ch)
      [] s = "req_spaces_before_url" -> ReqSpacesBeforeUrl(x, ch)
      [] s \in {"req_schema", "req_schema_slash", "req_schema_slash_slash", "req_server_start"} ->
            ReqSchema(x, ch)
      [] s \in {"req_server", "req_server_with_at", "req_path", "req_query_string_start",
                "req_query_string", "req_fragment_start", "req_fragment"} -> ReqUrl(x, ch)
      [] s = "req_http_start" -> ReqHttpStart(x, ch)
      [] s \in DOMAIN ReqNext -> ReqConstant(x, ch)
      [] s \in {"req_first_http_major", "req_http_major", "req_first_http_minor", "req_http_minor"} ->
            ReqVersion(x, ch)
      [] s = "req_line_almost_done" -> ReqLineAlmostDone(x, ch)
      [] s = "header_field_start" -> HeaderFieldStart(x, ch)
      [] s = "header_field" -> HeaderField(x, ch)
      [] s = "header_value_start" -> HeaderValueStart(x, ch)
      [] s = "header_value" -> HeaderValue(x, ch)
      [] s = "header_almost_done" -> HeaderAlmostDone(x, ch)
      [] s = "header_value_lws" -> HeaderValueLws(x, ch)
      [] s = "headers_almost_done" -> HeadersAlmostDone(x, ch)
      [] s = "headers_done" -> HeadersDone(x, ch)
      [] s = "body_identity" -> BodyIdentity(x, ch)
      [] s = "body_identity_eof" -> BodyIdentityEof(x, ch)
      [] s = "message_done" -> MessageComplete(x)
      [] s \in {"chunk_size_start", "chunk_size"} -> ChunkSize(x, ch)
      [] s = "chunk_parameters" -> ChunkParameters(x, ch)
      [] s = "chunk_size_almost_done" -> ChunkSizeAlmostDone(x, ch)
      [] s = "chunk_data" -> ChunkData(x, ch)
      [] s = "chunk_data_almost_done" -> ChunkDataAlmostDone(x, ch)
      [] s = "chunk_data_done" -> ChunkDataDone(x, ch)

\* PARSING_HEADER: every state up to s_headers_done.
BodyStates == {"chunk_data", "chunk_data_almost_done", "chunk_data_done", "body_identity",
               "body_identity_eof", "message_done"}

\* One turn of the loop: the count of header bytes, the byte, and the byte again
\* while a state asks for that (at most four states do so for one byte).
Byte(x) ==
    LET counted == x.parser.state \notin BodyStates
        y == IF counted THEN [x EXCEPT !.parser.nread = @ + 1] ELSE x
        ch == x.data[x.p]
        seen[i \in 0..5] ==
            IF i = 0 THEN [y EXCEPT !.again = TRUE]
            ELSE LET z == seen[i - 1] IN
                 IF z.again /\ ~z.stop THEN Switch([z EXCEPT !.again = FALSE], ch) ELSE z
    IN  IF y.parser.nread > MaxHeaderSize /\ counted THEN Fail(y, "HEADER_OVERFLOW")
        ELSE [seen[5] EXCEPT !.p = @ + 1, !.again = FALSE]

\* Mutant: a value that goes on in the next piece has no mark there.
EntryMarks_NoValue(s) ==
    [k \in Kinds |-> IF (k = "header_field" /\ s = "header_field") \/ (k = "url" /\ s \in UrlStates)
                     THEN 1 ELSE 0]

\* What goes on from the last piece is marked at the first byte of this one.
EntryMarks(s) ==
    [k \in Kinds |-> IF \/ k = "header_field" /\ s = "header_field"
                        \/ k = "header_value" /\ s = "header_value"
                        \/ k = "url" /\ s \in UrlStates
                     THEN 1 ELSE 0]

\* len == 0: the connection has ended.
ExecuteEof(x) ==
    CASE x.parser.state = "body_identity_eof" -> CALLBACK_NOTIFY(x, "message_complete")
      [] x.parser.state \in {"dead", "start_req_or_res", "start_res", "start_req"} -> x
      [] OTHER -> Fail(x, "INVALID_EOF_STATE")

\* After the last byte the marks that are left are called back for; there is one
\* at most.  An error and an upgrade return before.
Flush(x) ==
    LET y == Assert_(x, Cardinality({k \in Kinds : x.mark[k] # 0}) <= 1)
        Data(z, k) == CALLBACK_DATA(z, k, z.p - 1)
    IN  IF x.stop THEN x
        ELSE Data(Data(Data(Data(y, "header_field"), "header_value"), "url"), "body")

http_parser_execute(parser, data) ==
    LET x0 == [parser |-> parser, data |-> data, p |-> 1, mark |-> EntryMarks(parser.state),
               calls |-> <<>>, stop |-> FALSE, again |-> FALSE, sound |-> TRUE]
        run[i \in 0..Len(data)] ==
            IF i = 0 THEN x0
            ELSE LET x == run[i - 1] IN IF x.stop \/ x.p > Len(data) THEN x ELSE Byte(x)
    IN  IF parser.http_errno # "OK" THEN x0
        ELSE IF data = <<>> THEN ExecuteEof(x0)
        ELSE Flush(run[Len(data)])
=============================================================================
