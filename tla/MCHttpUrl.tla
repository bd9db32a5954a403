----------------------------- MODULE MCHttpUrl ------------------------------
(***************************************************************************)
(* URLs for HttpUrl, put together from their parts, and what the caller's  *)
(* struct holds when it is first used.                                     *)
(***************************************************************************)
EXTENDS HttpUrl

\* Every mix of parts, with delimiters of one part in another; URLs for
\* CONNECT; and URLs without a host, or with a port that is empty or too large.
Opt(before, text, after) == IF text = <<>> THEN <<>> ELSE before \o text \o after
Bracketed(host) == IF ":" \in Range(host) THEN <<"[">> \o host \o <<"]">> ELSE host
Compose(p) ==
    Opt(<<>>, p.schema, <<":","/","/">>) \o Opt(<<>>, p.userinfo, <<"@">>) \o Bracketed(p.host)
        \o Opt(<<":">>, p.port, <<>>) \o p.path \o Opt(<<"?">>, p.query, <<>>) \o Opt(<<"#">>, p.fragment, <<>>)
UrlOf(p, connect, ok) ==
    [parts |-> p, bytes |-> Compose(p), connect |-> connect, ok |-> ok, port |-> PortOf(p.port)]
Parts(schemas, names, hosts, ports, paths) ==
    [schema : schemas, userinfo : names, host : hosts, port : ports, path : paths,
     query : {<<>>, <<"q","?","/">>}, fragment : {<<>>, <<"f","#","?">>}]
Hosts == {<<"a",".","7">>, <<":",":","f">>}
Users == {<<>>, <<"u",":","1">>}
Path == {<<"/",":","@">>}
MCUrls ==
    {UrlOf(p, FALSE, TRUE) : p \in Parts({<<"h","t">>}, Users, Hosts, {<<>>, <<"9","9">>}, Path \cup {<<"/">>})}
        \cup {UrlOf(p, FALSE, TRUE) : p \in Parts({<<>>}, {<<>>}, {<<>>}, {<<>>}, Path)}
        \cup {UrlOf(p, FALSE, FALSE) : p \in Parts({<<"h">>}, Users, {<<>>}, {<<>>}, Path)}
        \cup {UrlOf(p, FALSE, FALSE) : p \in Parts({<<"h">>}, Users, Hosts, {<<"1","0","0">>}, Path)}
        \cup {UrlOf(p, TRUE, p.path = <<>> /\ p.query = <<>> /\ p.port # <<>> /\ p.userinfo = <<>>) :
                 p \in {q \in Parts({<<>>}, Users, Hosts, {<<>>, <<"8">>}, {<<>>} \cup Path) :
                           q.fragment = <<>>}}

\* The struct may be cleared, or hold what was on the stack.
MCCleared == {[off |-> 1, len |-> 0]}
MCLeftovers == MCCleared \cup {[off |-> 3, len |-> 4]}
=============================================================================
