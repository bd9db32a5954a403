---------------------------- MODULE LoginServer -----------------------------
(***************************************************************************)
(* login_server: a TcpServer without threads whose clients ask over HTTP   *)
(* for a msg_server; and, beside it, any other user of a TcpServer, that   *)
(* answers, shuts down and force-closes as it likes.  A request is of      *)
(* Request cells; the first one shows whether it starts with "GET", and    *)
(* all of them are needed for IsReadAll.                                   *)
(***************************************************************************)
EXTENDS TcpServer

CONSTANTS
    Request,   \* cells of a request
    Answer,    \* cells of an answer
    Clients,   \* bound: the mixes of requests that the clients send
    OtherIn,   \* bound: cells a client of another user sends
    OtherOut   \* bound: numbers of cells another user sends in one callback

\* A GET for /msg_server, a GET for something else, or no GET.
Requests == {"msg_server", "unknown", "other"}

ASSUME LoginServerAssumption ==
    /\ {Request, Answer, OtherIn} \subseteq Nat /\ OtherOut \subseteq Nat
    /\ Clients \subseteq [Conns -> Requests]

VARIABLES
    app,      \* "login", or "other" for another user of the TcpServer
    request   \* what each client of login_server sends

loginVars == <<netVars, app, request>>

LoginInit ==
    /\ NetInit
    /\ \/ app = "login" /\ threadNum = 0 /\ request \in Clients
       \/ app = "other" /\ request = [c \in Conns |-> "other"]

\* handleClientData, when the whole request is there: msgServerInfos_ is empty,
\* since nothing ever adds to it, so the answer is always "no msg_server!".
HandleClientData(k, req) ==
    IF k.in >= Request /\ req = "msg_server" THEN Send(k, Answer) ELSE k

\* LoginServer::onMessage looks at all that has been received, which is never
\* taken out of the buffer: a GET is answered and force-closed, and a GET of
\* which only a part has come in is force-closed too.
LoginOnMessage(k, req) ==
    LET answered == HandleClientData(k, req) IN
    IF req # "other"
    THEN {[k |-> ForceClose(answered), force |-> MayForceClose(answered)]}
    ELSE {[k |-> k, force |-> FALSE]}

\* Another user sends, then keeps the connection, shuts it down or force-closes.
OtherOnMessage(k) ==
    UNION {{[k |-> Send(k, n), force |-> FALSE],
            [k |-> Shutdown(Send(k, n)), force |-> FALSE],
            [k |-> ForceClose(Send(k, n)), force |-> MayForceClose(k)]} : n \in OtherOut}

LoginStep(l) ==
    /\ l \in Loops
    /\ LoopStep(l, [a \in active[l] |-> IF app = "login" THEN LoginOnMessage(HasRead(a), request[a[1]])
                                        ELSE OtherOnMessage(HasRead(a))])
    /\ UNCHANGED <<app, request>>

LoopIds == UNION {0..n : n \in ThreadNums}

LoginNext ==
    \/ \E l \in LoopIds : LoginStep(l)
    \/ Network(IF app = "login" THEN Request ELSE OtherIn) /\ UNCHANGED <<app, request>>

LoginSpec ==
    /\ LoginInit
    /\ [][LoginNext]_loginVars
    \* Each loop is a thread that never blocks: a poll waits 100 ms at most.
    /\ \A l \in LoopIds : WF_loginVars(LoginStep(l))
=============================================================================
