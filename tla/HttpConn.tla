------------------------------ MODULE HttpConn ------------------------------
(***************************************************************************)
(* login_server's HttpConn, which answers "/msg_server" with the address of*)
(* a msg_server: g_http_conn_map, CHttpParserWrapper, which parses all that*)
(* has come anew at every read, and the choice among the msg_servers.  The *)
(* wiring is that of HttpClientCallback, which main has in a comment.      *)
(***************************************************************************)
EXTENDS HttpParser

CONSTANTS
    Requests,      \* what a client sends: records with bytes and the url
    Directories,   \* contents of g_msg_serv_info: sequences of [cur, max], in order of the handles
    Target,        \* "/msg_server"
    MaxIn,         \* 1024: a request that is longer is refused
    Uint32,        \* 2^32
    MaxHttp,       \* bound: clients
    MaxReads       \* bound: OnRead calls of all clients

\* cur_conn_cnt and max_conn_cnt are uint32_t.
Counts == {n \in Nat : n < Uint32}

ASSUME HttpConnAssumption ==
    /\ {MaxIn, MaxHttp, MaxReads} \subseteq Nat /\ Uint32 \in Nat \ {0, 1}
    /\ Directories \subseteq Seq([cur : Counts, max : Counts])

Https == 1..MaxHttp
None == 0

VARIABLES
    http,        \* the HttpConns, in order of their accept
    httpMap,     \* g_http_conn_map
    generator,   \* g_conn_handle_generator
    directory    \* g_msg_serv_info

httpConnVars == <<http, httpMap, generator, directory>>

\* CHttpParserWrapper: m_url, m_body_content, m_read_all; the headers it keeps,
\* and those whose value comes next.
HeaderNames == [referer |-> <<"r","e","f">>, forward_ip |-> <<"x","-","f">>, user_agent |-> <<"u","s">>,
                content_type |-> <<"c","o","n","t","y">>, content_len |-> <<"c","o","n","t","e">>,
                host |-> <<"h","o">>]
NewWrapper == [url |-> <<>>, body |-> <<>>, all |-> FALSE,
               kept |-> [n \in DOMAIN HeaderNames |-> <<>>], reading |-> {}]

\* got: how much of the request has come; cuts: where reads have ended; out:
\* answers that outBuf_ holds; answered: what the client was sent; unknown: closed for its url.
NoHttp == [state |-> "idle", handle |-> None, request |-> None, got |-> 0, cuts |-> {}, busy |-> FALSE,
           wrapper |-> NewWrapper, out |-> <<>>, answered |-> <<>>, unknown |-> FALSE]

HttpConnInit ==
    /\ http = [k \in Https |-> NoHttp]
    /\ httpMap = [n \in 0..(Uint32 - 1) |-> None]
    /\ generator \in 0..(Uint32 - 1)
    /\ directory \in Directories

-----------------------------------------------------------------------------
\* CHttpParserWrapper.

OnHeaderField(w, at) ==
    [w EXCEPT !.reading = @ \cup {n \in DOMAIN HeaderNames :
                 /\ w.kept[n] = <<>>
                 /\ IsPrefix(HeaderNames[n], [i \in DOMAIN at |-> LOWER(at[i])])}]

OnHeaderValue(w, at) ==
    [w EXCEPT !.kept = [n \in DOMAIN @ |-> IF n \in w.reading THEN @[n] \o at ELSE @[n]],
              !.reading = {}]

\* The callbacks; m_url and m_body_content are appended to.
OnCall(w, c) ==
    CASE c[1] = "url" -> [w EXCEPT !.url = @ \o c[2]]
      [] c[1] = "header_field" -> OnHeaderField(w, c[2])
      [] c[1] = "header_value" -> OnHeaderValue(w, c[2])
      [] c[1] = "body" -> [w EXCEPT !.body = @ \o c[2]]
      [] c[1] = "message_complete" -> [w EXCEPT !.all = TRUE]
      [] OTHER -> w

\* Mutant: what is under way counts as the whole.
ParseHttpContent_All(w, buf) ==
    LET x == http_parser_execute(http_parser_init("REQUEST"), buf) IN
    [FoldLeft(OnCall, w, x.calls) EXCEPT !.all = TRUE]

\* A new parser for all of inBuf_; what it fails at is not looked at.
ParseHttpContent(w, buf) ==
    LET x == http_parser_execute(http_parser_init("REQUEST"), buf) IN
    FoldLeft(OnCall, w, x.calls)

-----------------------------------------------------------------------------
\* The loop of HandleMsgServRequest: the first with the fewest users among those with room.
LeastLoaded(dir) ==
    FoldLeft(LAMBDA best, i :
                IF dir[i].cur < dir[i].max /\ dir[i].cur < best.min
                THEN [min |-> dir[i].cur, at |-> i] ELSE best,
             [min |-> Uint32 - 1, at |-> None], [i \in DOMAIN dir |-> i])

\* The answer: its code, and which msg_server.
HandleMsgServRequest ==
    LET at == LeastLoaded(directory).at IN
    [code |-> IF directory = <<>> THEN 1 ELSE IF at = None THEN 2 ELSE 0, at |-> at]

-----------------------------------------------------------------------------
\* The constructor of HttpConn: 0 is no handle.
NextConnHandle(g) == LET n == (g + 1) % Uint32 IN IF n = 0 THEN 1 ELSE n

\* HttpClientCallback and OnConnect; insert keeps an entry that is there.
HttpOnConnect(r) ==
    LET k == Cardinality({j \in Https : http[j] # NoHttp}) + 1
        n == NextConnHandle(generator)
    IN  /\ k \in Https
        /\ generator' = n
        /\ http' = [http EXCEPT ![k] = [NoHttp EXCEPT !.state = "connected", !.handle = n, !.request = r]]
        /\ httpMap' = IF httpMap[n] = None THEN [httpMap EXCEPT ![n] = k] ELSE httpMap
        /\ UNCHANGED directory

\* Close of the HttpConn c, which has become that by what went before.
HttpClose(j, c) ==
    /\ http' = [http EXCEPT ![j] = [c EXCEPT !.state = "closed"]]
    /\ httpMap' = [httpMap EXCEPT ![c.handle] = None]

HttpKeep(j, c) == http' = [http EXCEPT ![j] = c] /\ UNCHANGED httpMap

\* Send: the socket takes all of it, and OnWriteComlete closes, or not.
HttpSend(j, c, answer) ==
    IF c.busy THEN HttpKeep(j, [c EXCEPT !.out = Append(@, answer)])
    ELSE \/ HttpClose(j, [c EXCEPT !.answered = Append(@, answer)])
         \/ HttpKeep(j, [c EXCEPT !.busy = TRUE, !.out = <<answer>>])

\* httpconn_callback for the socket of k finds an HttpConn by the handle.
Found(k) == httpMap[http[k].handle]
Callback(k) ==
    /\ http[k].state = "connected" /\ Found(k) # None
    /\ UNCHANGED <<generator, directory>>

Reads == FoldFunction(LAMBDA c, n : Cardinality(c.cuts) + n, 0, http)

\* OnRead: all that has come is parsed again; more than 1 K, or another url, closes.
HttpOnRead(k, n) ==
    LET j == Found(k)
        r == http[k].request
        got == http[k].got + n
        w == ParseHttpContent(http[j].wrapper, SubSeq(r.bytes, 1, got))
        c == [http[j] EXCEPT !.got = got, !.cuts = @ \cup {got}, !.wrapper = w]
    IN  /\ Callback(k) /\ j = k
        /\ got <= Len(r.bytes) /\ Reads < MaxReads
        /\ IF got > MaxIn THEN HttpClose(j, [c EXCEPT !.wrapper = http[j].wrapper])
           ELSE IF ~w.all THEN HttpKeep(j, c)
           ELSE IF IsPrefix(Target, w.url) THEN HttpSend(j, c, HandleMsgServRequest)
           ELSE HttpClose(j, [c EXCEPT !.unknown = TRUE])

\* OnWrite: what was left goes out and OnWriteComlete closes, or some of it stays.
HttpOnWrite(k) ==
    LET c == http[Found(k)] IN
    /\ Callback(k) /\ c.busy
    /\ HttpClose(Found(k), [c EXCEPT !.busy = FALSE, !.answered = @ \o c.out, !.out = <<>>])

HttpOnClose(k) == Callback(k) /\ HttpClose(Found(k), http[Found(k)])

\* After OnRead has closed and freed the HttpConn, an EPOLLOUT of the same event
\* reads the handle out of the freed object: it may be any, and the HttpConn that
\* has it, if there is one, sees an OnWrite.
HttpStaleWrite(k, n) ==
    LET c == http[httpMap[n]] IN
    /\ http[k].state = "closed" /\ httpMap[n] # None
    /\ c.busy
    /\ HttpClose(httpMap[n], [c EXCEPT !.busy = FALSE, !.answered = @ \o c.out, !.out = <<>>])
    /\ UNCHANGED <<generator, directory>>

\* Mutant: a connection that owes an answer is spared.
HttpOnTimer_NotBusy(k) ==
    /\ httpMap[http[k].handle] = k /\ http[k].state = "connected" /\ ~http[k].busy
    /\ HttpClose(k, http[k])
    /\ UNCHANGED <<generator, directory>>

\* OnTimer, HTTP_CONN_TIMEOUT after the last receive, of every HttpConn in the map.
HttpOnTimer(k) ==
    /\ http[k] # NoHttp /\ httpMap[http[k].handle] = k
    /\ HttpClose(k, http[k])
    /\ UNCHANGED <<generator, directory>>

HttpConnNext ==
    \/ \E r \in Requests : HttpOnConnect(r)
    \/ \E k \in Https :
          \/ \E n \in 1..(IF http[k] = NoHttp THEN 0 ELSE Len(http[k].request.bytes)) : HttpOnRead(k, n)
          \/ HttpOnWrite(k) \/ HttpOnClose(k) \/ HttpOnTimer(k)
          \/ \E n \in 1..(Uint32 - 1) : HttpStaleWrite(k, n)

\* http_conn_timer_callback runs every second.
HttpConnFairness == \A k \in Https : WF_httpConnVars(HttpOnTimer(k))

HttpConnSpec == HttpConnInit /\ [][HttpConnNext]_httpConnVars /\ HttpConnFairness

-----------------------------------------------------------------------------
\* A read that ends inside the url leaves a part of it in m_url, and the next one
\* appends all of it again.
UrlCut(c) == \E n \in c.cuts :
    http_parser_execute(http_parser_init("REQUEST"), SubSeq(c.request.bytes, 1, n)).parser.state \in UrlStates

\* What a client is sent, now or later, is right: a msg_server that has room and
\* no more users than any other with room, or that there is none.
AnswersRight ==
    LET Room == {i \in DOMAIN directory : directory[i].cur < directory[i].max} IN
    \A k \in Https : \A a \in Range(http[k].answered \o http[k].out) :
        CASE a.code = 1 -> directory = <<>>
          [] a.code = 2 -> directory # <<>> /\ Room = {}
          [] a.code = 0 -> a.at \in Room /\ \A i \in Room : directory[a.at].cur <= directory[i].cur

\* A request for /msg_server whose url came in one read is not taken for another,
\* and what is answered is right.
RequestAnswered ==
    /\ \A k \in Https : http[k].unknown => UrlCut(http[k]) \/ ~IsPrefix(Target, http[k].request.url)
    /\ AnswersRight

\* Every connection is closed some time, even by a client that reads nothing.
HttpSettles == \A k \in Https : http[k].state = "connected" ~> http[k].state = "closed"
=============================================================================
