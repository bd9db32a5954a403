------------------------------ MODULE HttpUrl -------------------------------
(***************************************************************************)
(* http_parser_parse_url: the parts of a URL, by parse_url_char and a      *)
(* second machine for what the first takes for the host.  A field is kept  *)
(* by its offset and length; offsets count from 1 here.  Only the port and *)
(* field_set are cleared before: the offsets and lengths are those that    *)
(* the caller's struct has, never set or left by an earlier URL.           *)
(***************************************************************************)
EXTENDS HttpParser

CONSTANTS
    Urls,        \* URLs by their parts, with what http_parser_parse_url must return
    Leftovers,   \* what a field that was never set may hold: records [off, len]
    Beyond,      \* bytes that may stand in memory behind a URL, none of them a digit
    MaxPort,     \* 0xffff
    MaxParses    \* bound: URLs parsed into one struct

ASSUME HttpUrlAssumption ==
    /\ {MaxPort, MaxParses} \subseteq Nat
    /\ Leftovers \subseteq [off : Nat \ {0}, len : Nat]

VARIABLES
    url,       \* the URL that was parsed last
    given,     \* the caller's http_parser_url as it was before that
    result,    \* and as it is now, with what http_parser_parse_url returned
    parses     \* how many have been parsed

urlVars == <<url, given, result, parses>>

Fields == {"schema", "host", "port", "path", "query", "fragment", "userinfo"}
Unused(d) == [ok |-> TRUE, set |-> {}, port |-> 0, data |-> [f \in Fields |-> d]]

Begin(u, f, p) == [u EXCEPT !.set = @ \cup {f}, !.data[f] = [off |-> p, len |-> 1]]
Longer(u, f) == [u EXCEPT !.data[f].len = @ + 1]
TextOf(buf, u, f) == SubSeq(buf, u.data[f].off, u.data[f].off + u.data[f].len - 1)

\* The first n bytes from where a URL begins in memory.
Memory(buf, beyond, n) == [i \in 1..n |-> IF i <= Len(buf) THEN buf[i] ELSE beyond]

-----------------------------------------------------------------------------
\* The host, with what may stand before and after it.
IS_HEX(c) == unhex(c) # -1
IS_HOST_CHAR(c) == IS_ALPHA(c) \/ IS_NUM(c) \/ c \in {".", "-"}

http_parse_host_char(s, ch) ==
    CASE s \in {"userinfo", "userinfo_start"} ->
            IF ch = "@" THEN "host_start" ELSE IF IS_USERINFO_CHAR(ch) THEN "userinfo" ELSE "dead"
      [] s = "host_start" -> IF ch = "[" THEN "host_v6_start" ELSE IF IS_HOST_CHAR(ch) THEN "host" ELSE "dead"
      [] s \in {"host", "host_v6_end"} ->
            IF s = "host" /\ IS_HOST_CHAR(ch) THEN s ELSE IF ch = ":" THEN "port_start" ELSE "dead"
      [] s \in {"host_v6", "host_v6_start"} ->
            IF s = "host_v6" /\ ch = "]" THEN "host_v6_end"
            ELSE IF IS_HEX(ch) \/ ch \in {":", "."} THEN "host_v6" ELSE "dead"
      [] s \in {"port", "port_start"} -> IF IS_NUM(ch) THEN "port" ELSE "dead"
      [] OTHER -> "dead"

\* The field that a state of the host belongs to.
HostField == [host |-> "host", host_v6 |-> "host", port |-> "port", userinfo |-> "userinfo"]

\* The host's own flag was set by the first machine.
HostByte(x, buf, p) ==
    LET new == http_parse_host_char(x.s, buf[p])
        f == HostField[new]
    IN  IF new \notin DOMAIN HostField THEN [x EXCEPT !.s = new]
        ELSE [s |-> new, u |-> IF new = x.s THEN Longer(x.u, f)
                               ELSE IF f = "host" THEN [x.u EXCEPT !.data.host = [off |-> p, len |-> @.len + 1]]
                               ELSE Begin(x.u, f, p)]

\* It reads as far as the host goes, were that behind the end of the URL.
http_parse_host(buf, beyond, u, foundAt) ==
    LET d == u.data.host
        memory == Memory(buf, beyond, d.off + d.len)
        x == FoldLeft(LAMBDA y, i : HostByte(y, memory, d.off + i - 1),
                      [s |-> IF foundAt THEN "userinfo_start" ELSE "host_start",
                       u |-> [u EXCEPT !.data.host.len = 0]],
                      [i \in 1..d.len |-> i])
    IN  [x.u EXCEPT !.ok = x.s \notin {"dead", "host_start", "host_v6_start", "host_v6", "port_start",
                                       "userinfo", "userinfo_start"}]

-----------------------------------------------------------------------------
\* The field of a state of parse_url_char; its other states are delimiters.
UrlField == [req_schema |-> "schema", req_server_with_at |-> "host", req_server |-> "host",
             req_path |-> "path", req_query_string |-> "query", req_fragment |-> "fragment"]

\* A field goes on while no other one has begun, over a delimiter too.
UrlByteOf(x, buf, p) ==
    LET s == parse_url_char(x.s, buf[p])
        f == UrlField[s]
    IN  IF s \notin DOMAIN UrlField THEN [x EXCEPT !.s = s]
        ELSE [s |-> s, uf |-> f, at |-> x.at \/ s = "req_server_with_at",
              u |-> IF f = x.uf THEN Longer(x.u, f) ELSE Begin(x.u, f, p)]

\* strtoul of the port, which ends at a byte that is no digit.
PortOf(text) ==
    LET digits == {n \in DOMAIN text : \A i \in 1..n : IS_NUM(text[i])} IN
    FoldLeft(LAMBDA n, i : 10 * n + NumOf(text[i]), 0, [i \in 1..Cardinality(digits) |-> i])

\* Mutant: what stands before an @ is taken for the host.
Authority_NoUserinfo(x, buf, beyond) ==
    IF x.u.set \cap {"schema", "host"} = {} THEN x.u ELSE http_parse_host(buf, beyond, x.u, FALSE)

\* After a schema too, if no host was found.
Authority(x, buf, beyond) ==
    IF x.u.set \cap {"schema", "host"} = {} THEN x.u ELSE http_parse_host(buf, beyond, x.u, x.at)

http_parser_parse_url(buf, beyond, isConnect, struct) ==
    LET x == FoldLeft(LAMBDA y, i : UrlByteOf(y, buf, i),
                      [s |-> IF isConnect THEN "req_server_start" ELSE "req_spaces_before_url",
                       uf |-> "", at |-> FALSE, u |-> [struct EXCEPT !.ok = TRUE, !.set = {}, !.port = 0]],
                      [i \in 1..Len(buf) |-> i])
        u == Authority(x, buf, beyond)
        start == u.data.port.off
        after == Memory(buf, beyond, start + u.data.port.len + Len(buf))
        port == IF "port" \in u.set THEN PortOf(SubSeq(after, start, Len(after))) ELSE 0
        ok == u.ok /\ (isConnect => u.set = {"host", "port"}) /\ port <= MaxPort
    IN  IF x.s = "dead" THEN [x.u EXCEPT !.ok = FALSE]
        ELSE [u EXCEPT !.ok = ok, !.port = IF ok THEN port ELSE 0]

-----------------------------------------------------------------------------
UrlInit ==
    /\ url = CHOOSE u \in Urls : TRUE
    /\ \E d \in Leftovers : result = Unused(d)
    /\ given = result /\ parses = 0

\* A caller parses a URL into the struct it has.
ParseUrl(u) ==
    /\ parses < MaxParses /\ parses' = parses + 1
    /\ url' = u /\ given' = result
    /\ \E beyond \in Beyond : result' = http_parser_parse_url(u.bytes, beyond, u.connect, result)

UrlNext == \E u \in Urls : ParseUrl(u)

UrlSpec == UrlInit /\ [][UrlNext]_urlVars

-----------------------------------------------------------------------------
\* A URL with a schema and nothing behind it that is taken for a host, when the
\* struct still holds a host: what that is parsed in is not of this URL.
HostLeftOver ==
    url.parts.schema # <<>> /\ url.parts.host \o url.parts.userinfo \o url.parts.port = <<>>
        /\ given.data.host.len > 0

\* Whatever an earlier URL or the stack left in the struct, what a URL was put
\* together from is what http_parser_parse_url finds in it: every part, with its
\* text, no other part, and the number of the port; a URL that lacks its host or
\* has a bad port is refused, but for HostLeftOver.
UrlTakenApart ==
    parses > 0 /\ ~HostLeftOver =>
        /\ result.ok = url.ok
        /\ url.ok =>
            /\ result.set = {f \in Fields : url.parts[f] # <<>>}
            /\ \A f \in result.set : TextOf(url.bytes, result, f) = url.parts[f]
            /\ result.port = url.port

\* "host must be present if there is a schema: parsing http:///toto will fail"
\* (http_parser.cpp:2148).
SchemaNeedsHost ==
    parses > 0 /\ url.parts.schema # <<>> /\ url.parts.host = <<>> => ~result.ok
=============================================================================
