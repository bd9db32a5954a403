--------------------------- MODULE MCHttpSamples ----------------------------
(***************************************************************************)
(* Messages for HttpStream: every method, URLs with every part, bodies by  *)
(* length, in chunks and up to the end of the connection, pipelined ones,  *)
(* other spellings of the same message, and one of each kind of error.     *)
(***************************************************************************)
EXTENDS HttpStream

Len5 == <<"C","o","n","t","E">>
Conn == <<"c","O","n","n","e">>
X == <<"x">>
P == <<"/","p">>
PlainMsgs == {Request(m, P, <<>>, <<>>) : m \in DOMAIN Methods \ {"CONNECT"}}
ConnectMsg == Request("CONNECT", <<"h",":","1">>, <<>>, <<>>)
FullUrl == <<"h","t",":","/","/","u","@","[","h","]","/","p","?","q","?","#","#","f","#","?">>
GetMsg(hs) == Request("GET", P, hs, <<>>)
PostMsg(hs, b) == Request("POST", FullUrl, hs, b)
LenOf(d) == <<Len5, d>>
Chunky(bytes, hs, body, trailer) ==
    LET m == Request("POST", P, hs, body) IN
    [m EXCEPT !.bytes = SubSeq(@, 1, Len(@) - Len(body)) \o bytes,
              !.calls = SubSeq(@, 1, Len(@) - 1) \o HeaderCalls(trailer) \o Notice("message_complete")]
Chunked == << <<"T","R","a">>, <<"C","H","u">> >>
ChunkBytes == <<"2",";","n">> \o <<CR,LF,"a","b",CR,LF,"0","1"," ",CR,LF,"c",CR,LF,"0",CR,LF>>
LfOnly == <<"G","E","T"," ","/","p",LF,"x",":","y",LF,"c","o","n",":","z",LF,LF>>
Began == Notice("message_begin")
StartMsg(x) == <<"G","E","T"," ","/"," ","H","T","T","P","/">> \o x
Url1 == Began \o << <<"url", <<"/">> >> >>
WithLen(d) == Line(StartMsg(<<"1",".","1">>)) \o Line(Len5 \o <<":"," ">> \o d)
MCSamples ==
    PlainMsgs \cup {ConnectMsg, As(GetMsg(<<>>), "BOTH"), As(Request("HEAD", P, <<>>, <<>>), "BOTH"),
        As(Response(<<"2","0","0">>, <<LenOf(<<"0">>)>>, <<>>), "BOTH"),
        PostMsg(<<LenOf(<<"1","1">>), <<X, X>>>>, <<"a","b","c","d","e","f","g","h","i","j",LF>>),
        Then(PostMsg(<<LenOf(<<"2">>)>>, <<"a",CR>>), GetMsg(<< <<Conn, <<"C","l","o">>>> >>)),
        Chunky(ChunkBytes \o Line(HeaderLines(<< <<X, P>> >>)), <<Chunked>>, <<"a","b","c">>, << <<X, P>> >>),
        Response(<<"2","0","0">>, << <<X, X>>, <<Conn, <<"k","e">>>> >>, <<"b","o","d","y">>),
        Then(Response(<<"3","0","4">>, <<>>, <<>>), Response(<<"1","0","0">>, <<>>, <<>>)),
        Spelt([GetMsg(<< <<X, <<"y">>>>, << <<"c","o","n">>, <<"z">>>> >>) EXCEPT !.errno = "OK"], LfOnly),
        Spelt(GetMsg(<< <<Conn, <<"c","l","x">>>>, << <<"u">>, <<>> >> >>),
              Line(<<"G","E","T"," ","/","p"," "," ">> \o Version)
                \o Line(Conn \o <<":","c","l">>) \o Line(<<"\t","x">>) \o Line(<<"u",":">>) \o <<LF>>),
        GetMsg(<< << <<"U","P">>, X>> >>),
        Broken("REQUEST", <<"G","X">>, Began, "INVALID_METHOD"),
        Broken("REQUEST", <<"P","U","T","S">>, Began, "INVALID_METHOD"),
        Broken("REQUEST", <<"G","E","T"," ","h","/">>, Began, "INVALID_URL"),
        Broken("REQUEST", StartMsg(<<"1",".","1","0","0","0">>), Url1, "INVALID_VERSION"),
        Broken("REQUEST", StartMsg(<<"1",".","1",CR,"x">>), Url1, "LF_EXPECTED"),
        Broken("REQUEST", WithLen(<<"4","1","0","0">>),
               Url1 \o << <<"header_field", Len5>> >>, "INVALID_CONTENT_LENGTH"),
        Broken("REQUEST", WithLen(<<"x">>), Url1 \o << <<"header_field", Len5>> >>, "INVALID_CONTENT_LENGTH"),
        Broken("REQUEST", Line(StartMsg(<<"1",".","0">>)) \o <<CR,LF,"G">>,
               Url1 \o Notice("headers_complete") \o Notice("message_complete"), "CLOSED_CONNECTION"),
        Broken("REQUEST", Line(StartMsg(<<"1",".","1">>)) \o [i \in 1..60 |-> "x"], Url1, "HEADER_OVERFLOW"),
        Broken("REQUEST", StartMsg(<<"1",".","1",CR,LF,"a","@">>), Url1, "INVALID_HEADER_TOKEN"),
        Broken("RESPONSE", <<"H","T","X">>, Began, "STRICT"),
        Broken("RESPONSE", <<"H","T","T","P","/","1",".","1"," ","x">>, Began, "INVALID_STATUS"),
        Broken("REQUEST", Line(StartMsg(<<"1",".","1">>)), Url1, "INVALID_EOF_STATE")}
=============================================================================
