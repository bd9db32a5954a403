------------------------------- MODULE Client -------------------------------
(***************************************************************************)
(* The chat client between its login window and msg_server: the operation  *)
(* thread of OperationManager, the network thread of EventDispatch (the    *)
(* select loop), the Qt thread with its signals and timers, and the one    *)
(* TcpClientModule that every connection to msg_server shares.             *)
(*                                                                         *)
(* A socket handle is reused after closesocket.  What a handle is closed   *)
(* or reopened under is only looked up where the code looks it up: in      *)
(* gSocketMap_ (FindBaseSocket) and in g_client_conn (FindImConn).         *)
(* DoLogin is three steps of the operation thread, since the network       *)
(* thread may run between them; the other handlers are one step each.      *)
(***************************************************************************)
EXTENDS Integers, Sequences

CONSTANTS
    Handles,    \* socket handles the system gives out
    Invalid,    \* NETLIB_INVALID_HANDLE
    MaxOps,     \* bound: operations queued when a timer or the user adds one
    MaxEvents,  \* bound: signals the Qt thread is behind
    MaxClicks,  \* bound: clicks on the login button
    MaxSent,    \* bound: messages the user sends
    Patient,    \* TRUE: the retry timer is slower than all that is under way
    MaxFaults   \* bound: failures of the network and refusals of the server

VARIABLES
    ops,      \* realtimeOperations_
    login,    \* the handle of a DoLogin under way, and how far it is
    events,   \* signals of AsyncFireEvent not yet delivered
    timers,   \* lstTimerEvent_, by name
    mod,      \* TcpClientModule: handle_, busy_, outBuf_, inBuf_, loginDoneCallback_
    conns,    \* g_client_conn: the handles that are its keys
    sock,     \* gSocketMap_, BaseSocket::state_ and the fd_sets
    pass,     \* what the network thread still has to do of one select
    link,     \* external: the TCP connections and msg_server's end of them
    http,     \* requests to login_server under way
    window,   \* the window that shows: LoginWin or MainWin
    online,   \* label_status
    written,  \* clicks and messages of the user so far
    faults    \* failures so far

opVars == <<ops, login>>
uiVars == <<http, window, online>>
clientVars == <<opVars, events, timers, mod, conns, sock, pass, link, uiVars, written, faults>>

Op(do, arg) == [do |-> do, arg |-> arg]
NoLink == [state |-> "none", rx |-> <<>>, half |-> <<>>, asked |-> {}]
NoSocket == [state |-> "none", sets |-> {}]
NoPass == [r |-> {}, w |-> {}, e |-> {}]

ClientInit ==
    /\ ops = <<>> /\ login = [pc |-> "idle", handle |-> Invalid]
    /\ events = <<>> /\ timers = {}
    /\ mod = [handle |-> Invalid, busy |-> FALSE, out |-> {}, in |-> <<>>, garbled |-> FALSE, done |-> "none"]
    /\ conns = {}
    /\ sock = [h \in Handles |-> NoSocket]
    /\ pass = NoPass
    /\ link = [h \in Handles |-> NoLink]
    /\ http = 0 /\ window = "login" /\ online = FALSE
    /\ written = [clicks |-> 0, user |-> 0] /\ faults = 0

Open(s, h) == h # Invalid /\ s[h].state # "none"

\* EventManager's timers, of which there is one by each name.
RegisterTimerEvent(ts, t) == ts \cup {t}
UnRegisterTimerEvent(ts, t) == ts \ {t}

\* AsynNotifyObserver: the Qt thread is sent a signal.
AsynNotifyObserver(event) == events' = Append(events, Op(event, ""))

\* OperationManager::StartOperation, on what is queued.
StartOperation(queued, op) == Append(queued, op)

-----------------------------------------------------------------------------
(* ImConn, BaseSocket and net_lib as the module uses them, on sockets s.   *)

\* The PDUs msg_server answers; of the others in outBuf_ only busy_ tells.
Requests == {"login", "users"}

\* All was sent; or the PDUs ps stay in outBuf_, which only Send and OnWrite touch.
Sent == mod' = [mod EXCEPT !.busy = FALSE, !.out = {}]
Kept(ps) == mod' = [mod EXCEPT !.busy = TRUE, !.out = ps \cap Requests]

(***************************************************************************)
(* BaseSocket::Send of the PDUs ps: sent (a server that is gone drops      *)
(* them), no room in the socket unless select has just said there is, or   *)
(* an error.                                                               *)
(***************************************************************************)
SendAll(s, ps, room) ==
    LET h == mod.handle
        connected == Open(s, h) /\ s[h].state = "connected"
    IN  \/ /\ connected /\ link[h].state = "up"
           /\ Sent
           /\ link' = [link EXCEPT ![h].asked = @ \cup (ps \cap Requests)]
           /\ sock' = s
        \/ /\ connected /\ link[h].state = "down"
           /\ Sent
           /\ sock' = s /\ UNCHANGED link
        \/ /\ connected /\ link[h].state = "up" /\ ~room
           /\ Kept(ps)
           /\ sock' = [s EXCEPT ![h].sets = @ \cup {"w"}]
           /\ UNCHANGED link
        \/ /\ ~(connected /\ link[h].state = "up")
           /\ Kept(ps)
           /\ sock' = s /\ UNCHANGED link

\* ImConn::Send.
Send(s, p, room) ==
    \/ mod.busy /\ Kept(mod.out \cup {p}) /\ sock' = s /\ UNCHANGED link
    \/ ~mod.busy /\ SendAll(s, {p}, room)

\* ImConn::OnWrite.
OnWrite(s, room) ==
    IF mod.busy THEN SendAll(s, mod.out, room) ELSE sock' = s /\ UNCHANGED <<mod, link>>

\* Mutant: the socket of the connection is not closed.
Close_KeepsSocket(s) == conns' = conns \ {mod.handle} /\ sock' = s /\ UNCHANGED link

\* netlib_close and BaseSocket::Close.
CloseSocket(s, h) ==
    IF Open(s, h)
    THEN /\ sock' = [s EXCEPT ![h] = NoSocket]
         /\ link' = [link EXCEPT ![h] = NoLink]
    ELSE sock' = s /\ UNCHANGED link

\* TcpClientModule::Close: of handle_, whatever socket the event was for.
Close(s) ==
    /\ conns' = conns \ {mod.handle}
    /\ CloseSocket(s, mod.handle)

\* Mutant: the observers are told only of a connection that was logged in.
OnClose_LoggedIn(s) ==
    /\ Close(s)
    /\ timers' = timers \ {"heartbeat"}
    /\ events' = IF "heartbeat" \in timers THEN Append(events, Op("DisConnected", "")) ELSE events

\* TcpClientModule::OnClose.
OnClose(s) ==
    /\ Close(s)
    /\ timers' = UnRegisterTimerEvent(timers, "heartbeat")
    /\ AsynNotifyObserver("DisConnected")

\* HandlePdu, once for every PDU that is complete: an operation each.
HandlePdus(ps) == ops' = ops \o [i \in 1..Len(ps) |-> Op("pdu", ps[i].kind)]

(***************************************************************************)
(* ImConn::OnRead, on the bytes of handle_.  A PDU arrives in two halves.  *)
(* What is left in inBuf_ of an earlier connection is taken for the start  *)
(* of what the next one sends: the PDU it begins then has a wrong body, or *)
(* never ends, and what follows is read at the wrong offset and may throw. *)
(***************************************************************************)
OnRead ==
    LET rx == IF Open(sock, mod.handle) THEN link[mod.handle].rx ELSE <<>>
        bytes == mod.in \o rx
        wrong == mod.in # <<>> /\ rx # <<>> /\ ~rx[1].last
        taken == IF Open(sock, mod.handle) THEN [link EXCEPT ![mod.handle].rx = <<>>] ELSE link
    IN  \/ /\ ~wrong /\ ~mod.garbled
           /\ HandlePdus([i \in 1..(Len(bytes) \div 2) |-> bytes[2 * i]])
           /\ mod' = [mod EXCEPT !.in = SubSeq(bytes, 2 * (Len(bytes) \div 2) + 1, Len(bytes))]
           /\ link' = taken
           /\ UNCHANGED <<timers, events, conns, sock>>
        \/ /\ wrong \/ mod.garbled
           /\ mod' = [mod EXCEPT !.in = <<>>, !.garbled = TRUE]
           /\ \/ wrong /\ HandlePdus(<<[kind |-> "broken"]>>)
              \/ UNCHANGED ops
           /\ link' = taken
           /\ UNCHANGED <<timers, events, conns, sock>>
        \/ /\ mod.garbled /\ rx # <<>>
           /\ OnClose(sock)
           /\ UNCHANGED <<mod, ops>>

-----------------------------------------------------------------------------
(* The network thread: StartDispatch and the handlers of BaseSocket.       *)

\* What select reports of the fd_sets (external: a failed connect is an exception).
Ready ==
    [r |-> {h \in Handles : "r" \in sock[h].sets /\ (link[h].rx # <<>> \/ link[h].state = "down")},
     w |-> {h \in Handles : "w" \in sock[h].sets /\ link[h].state \in {"up", "down"}},
     e |-> {h \in Handles : "e" \in sock[h].sets /\ link[h].state = "refused"}]

Select ==
    /\ pass = NoPass /\ Ready # NoPass
    /\ Len(events) < MaxEvents
    /\ pass' = Ready
    /\ UNCHANGED <<opVars, events, timers, mod, conns, sock, link, uiVars, written, faults>>

\* BaseSocket::OnRead and ImConnCallback: no bytes means the peer has closed.
SocketOnRead(h) ==
    /\ h \in pass.r
    /\ pass' = [pass EXCEPT !.r = @ \ {h}]
    /\ \/ /\ ~Open(sock, h) \/ h \notin conns
          /\ UNCHANGED <<ops, timers, events, mod, conns, sock, link>>
       \/ Open(sock, h) /\ h \in conns /\ link[h].rx = <<>> /\ OnClose(sock) /\ UNCHANGED <<ops, mod>>
       \/ Open(sock, h) /\ h \in conns /\ link[h].rx # <<>> /\ OnRead
    /\ UNCHANGED <<login, uiVars, written, faults>>

\* TcpClientModule::OnConfirm.
OnConfirm(s, room) == Send(s, "login", room)

(***************************************************************************)
(* BaseSocket::OnWrite and ImConnCallback.  A connection confirmed before  *)
(* DoLogin has put it in g_client_conn is connected, and nobody knows.     *)
(***************************************************************************)
SocketOnWrite(h) ==
    LET quiet == [sock EXCEPT ![h].sets = @ \ {"w"}]
        confirmed == [quiet EXCEPT ![h].state = "connected"]
        connecting == sock[h].state = "connecting"
    IN  /\ pass.r = {} /\ h \in pass.w
        /\ pass' = [pass EXCEPT !.w = @ \ {h}]
        /\ \/ ~Open(sock, h) /\ UNCHANGED <<mod, conns, timers, events, sock, link>>
           \/ /\ Open(sock, h) /\ h \notin conns
              /\ sock' = IF connecting THEN confirmed ELSE quiet
              /\ UNCHANGED <<mod, conns, timers, events, link>>
           \/ /\ Open(sock, h) /\ h \in conns /\ connecting /\ link[h].state = "down"
              /\ OnClose(quiet) /\ UNCHANGED mod
           \/ /\ Open(sock, h) /\ h \in conns
              /\ IF connecting THEN OnConfirm(confirmed, h = mod.handle) ELSE OnWrite(quiet, h = mod.handle)
              /\ UNCHANGED <<conns, timers, events>>
        /\ UNCHANGED <<opVars, uiVars, written, faults>>

\* BaseSocket::OnClose and ImConnCallback.
SocketOnClose(h) ==
    LET closing == [sock EXCEPT ![h].state = "closing"]
    IN  /\ pass.r = {} /\ pass.w = {} /\ h \in pass.e
        /\ pass' = [pass EXCEPT !.e = @ \ {h}]
        /\ IF Open(sock, h) /\ h \in conns
           THEN OnClose(closing)
           ELSE /\ sock' = IF Open(sock, h) THEN closing ELSE sock
                /\ UNCHANGED <<conns, timers, events, link>>
        /\ UNCHANGED <<opVars, mod, uiVars, written, faults>>

NetworkThread == Select \/ \E h \in Handles : SocketOnRead(h) \/ SocketOnWrite(h) \/ SocketOnClose(h)

-----------------------------------------------------------------------------
(* The operation thread.                                                   *)

\* LoginOperation and DoLogin up to netlib_connect: no socket, a connect that fails, or one under way.
DoLogin ==
    /\ login.pc = "idle" /\ ops # <<>> /\ Head(ops).do = "login"
    /\ ops' = Tail(ops)
    /\ mod' = [mod EXCEPT !.done = Head(ops).arg]
    /\ \/ \E h \in Handles :
           /\ ~Open(sock, h)
           /\ sock' = [sock EXCEPT ![h] = [state |-> "connecting", sets |-> {"r", "w", "e"}]]
           /\ link' = [link EXCEPT ![h] = [NoLink EXCEPT !.state = "pending"]]
           /\ login' = [pc |-> "connect", handle |-> h]
           /\ UNCHANGED faults
       \/ /\ \/ \A h \in Handles : Open(sock, h)
                /\ UNCHANGED faults
             \/ faults < MaxFaults /\ faults' = faults + 1
          /\ login' = [pc |-> "connect", handle |-> Invalid]
          /\ UNCHANGED <<sock, link>>
    /\ UNCHANGED <<events, timers, conns, pass, uiVars, written>>

\* DoLogin: handle_ gets its value.
DoLoginHandle ==
    /\ login.pc = "connect"
    /\ mod' = [mod EXCEPT !.handle = login.handle]
    /\ login' = [login EXCEPT !.pc = IF @ = "connect" /\ login.handle # Invalid THEN "insert" ELSE "idle"]
    /\ UNCHANGED <<ops, events, timers, conns, sock, pass, link, uiVars, written, faults>>

\* DoLogin: the module goes into g_client_conn.
DoLoginInsert ==
    /\ login.pc = "insert"
    /\ conns' = conns \cup {login.handle}
    /\ login' = [pc |-> "idle", handle |-> Invalid]
    /\ UNCHANGED <<ops, events, timers, mod, sock, pass, link, uiVars, written, faults>>

\* The timers after loginDoneCallback_: LoginWin's does nothing, ReLoginManager's stops the retries.
LoginDone(ts) == IF mod.done = "relogin" THEN UnRegisterTimerEvent(ts, "relogin") ELSE ts

\* LoginModule::NotifyLoginDone asks for the users and tells the windows.
NotifyLoginDone(queued) ==
    /\ ops' = StartOperation(queued, Op("send", "users"))
    /\ AsynNotifyObserver("LoginDone")

\* UserListModule::OnPacket.
UserListOnPacket == AsynNotifyObserver("FriendList")

\* TcpClientModule::HandlePdu's operation: HandleLoginResponse and HandlePackets.
OperatePdu ==
    LET op == Head(ops)
    IN  /\ login.pc = "idle" /\ ops # <<>> /\ op.do = "pdu"
        /\ \/ /\ op.arg = "loginOk"
              /\ timers' = RegisterTimerEvent(LoginDone(timers), "heartbeat")
              /\ NotifyLoginDone(Tail(ops))
           \/ /\ op.arg = "loginFail"
              /\ timers' = LoginDone(timers)
              /\ ops' = Tail(ops)
              /\ UNCHANGED events
           \/ /\ op.arg = "users"
              /\ UserListOnPacket
              /\ ops' = Tail(ops)
              /\ UNCHANGED timers
           \/ /\ op.arg = "broken"
              /\ ops' = Tail(ops)
              /\ UNCHANGED <<timers, events>>
        /\ UNCHANGED <<login, mod, conns, sock, pass, link, uiVars, written, faults>>

\* An operation that sends: a heartbeat, AllUserReq, or SessionModule::SendMsg's message.
OperateSend ==
    /\ login.pc = "idle" /\ ops # <<>> /\ Head(ops).do = "send"
    /\ ops' = Tail(ops)
    /\ Send(sock, Head(ops).arg, FALSE)
    /\ UNCHANGED <<login, events, timers, conns, pass, uiVars, written, faults>>

OperationThread == DoLogin \/ DoLoginHandle \/ DoLoginInsert \/ OperatePdu \/ OperateSend

-----------------------------------------------------------------------------
(* The Qt thread.                                                          *)

\* LoginWin::DoLogin: an operation for the HTTP threads.
ClickLogin ==
    /\ window = "login" /\ written.clicks < MaxClicks
    /\ written' = [written EXCEPT !.clicks = @ + 1]
    /\ http' = http + 1
    /\ UNCHANGED <<opVars, events, timers, mod, conns, sock, pass, link, window, online, faults>>

\* LoginWin::OnHttpLoginCallback, when login_server has given a msg_server.
OnHttpLoginCallback == ops' = StartOperation(ops, Op("login", "win"))

\* LoginHttpServerOperation, on an HTTP thread.
HttpLogin ==
    /\ http > 0
    /\ http' = http - 1
    /\ \/ OnHttpLoginCallback /\ UNCHANGED faults
       \/ faults < MaxFaults /\ faults' = faults + 1 /\ UNCHANGED ops
    /\ UNCHANGED <<login, events, timers, mod, conns, sock, pass, link, window, online, written>>

\* MainWin::OnLoginDone, and LoginWin::OnNotify, which hides the login window.
OnLoginDone == online' = TRUE /\ window' = "main" /\ UNCHANGED timers

\* ReLoginManager::DoReLogin.
DoReLogin == timers' = RegisterTimerEvent(timers, "relogin")

\* MainWin::OnTcpClientState.
OnTcpClientState == online' = FALSE /\ DoReLogin /\ UNCHANGED window

\* Event::Process: the observers of one signal, MainWin and LoginWin.
OnEventTrigger ==
    LET ev == Head(events).do
    IN  /\ events # <<>>
        /\ events' = Tail(events)
        /\ \/ ev = "LoginDone" /\ OnLoginDone
           \/ ev = "DisConnected" /\ OnTcpClientState
           \/ ev = "FriendList" /\ UNCHANGED <<online, window, timers>>
        /\ UNCHANGED <<opVars, mod, conns, sock, pass, link, http, written, faults>>

\* No thread has work and msg_server has answered: what a retry every 3 s waits for, if Patient.
Quiet ==
    /\ ops = <<>> /\ login.pc = "idle" /\ events = <<>>
    /\ pass = NoPass /\ Ready = NoPass
    /\ \A h \in Handles : link[h].state # "pending" /\ link[h].asked = {} /\ link[h].half = <<>>

\* ReLoginManager::ReLogin.
ReLogin == StartOperation(ops, Op("login", "relogin"))

\* EventManager::OnTimeout, for one timer that is due.
OnTimeout(t) ==
    /\ t \in timers /\ Len(ops) < MaxOps
    /\ Patient /\ t = "relogin" => Quiet
    /\ ops' = IF t = "relogin" THEN ReLogin ELSE StartOperation(ops, Op("send", "heartbeat"))
    /\ UNCHANGED <<login, events, timers, mod, conns, sock, pass, link, uiVars, written, faults>>

\* SessionModule::SendMsg.
SendMsg == ops' = StartOperation(ops, Op("send", "msg"))

\* FriendChatDlg::OnSendMsg.
OnSendMsg ==
    /\ window = "main" /\ written.user < MaxSent /\ Len(ops) < MaxOps
    /\ written' = [written EXCEPT !.user = @ + 1]
    /\ SendMsg
    /\ UNCHANGED <<login, events, timers, mod, conns, sock, pass, link, uiVars, faults>>

-----------------------------------------------------------------------------
(* External: the network and msg_server.                                   *)

Accepted(h) ==
    /\ link[h].state = "pending"
    /\ link' = [link EXCEPT ![h].state = "up"]
    /\ UNCHANGED <<written, faults>>

\* The connection is refused, or msg_server closes it or its host fails.
Broken(h) ==
    /\ link[h].state \in {"pending", "up"} /\ faults < MaxFaults
    /\ link' = [link EXCEPT ![h].state = IF @ = "up" THEN "down" ELSE "refused"]
    /\ faults' = faults + 1
    /\ UNCHANGED written

\* The first half of a PDU arrives; the rest may come later.
Starts(h, kind) ==
    /\ link[h].state = "up" /\ link[h].half = <<>>
    /\ link' = [link EXCEPT ![h].asked = @ \ {IF kind = "users" THEN "users" ELSE "login"},
                            ![h].rx = Append(@, [kind |-> kind, last |-> FALSE]),
                            ![h].half = <<[kind |-> kind, last |-> TRUE]>>]

\* msg_server answers, accepting or refusing the login.
Answers(h) ==
    \/ "users" \in link[h].asked /\ Starts(h, "users") /\ UNCHANGED <<written, faults>>
    \/ "login" \in link[h].asked /\ Starts(h, "loginOk") /\ UNCHANGED <<written, faults>>
    \/ /\ "login" \in link[h].asked /\ Starts(h, "loginFail")
       /\ faults < MaxFaults /\ faults' = faults + 1
       /\ UNCHANGED written

Completes(h) ==
    /\ link[h].state = "up" /\ link[h].half # <<>>
    /\ link' = [link EXCEPT ![h].rx = @ \o link[h].half, ![h].half = <<>>]
    /\ UNCHANGED <<written, faults>>

Server(h) == Accepted(h) \/ Answers(h) \/ Completes(h)

World ==
    /\ \E h \in Handles : Server(h) \/ Broken(h)
    /\ UNCHANGED <<opVars, events, timers, mod, conns, sock, pass, uiVars>>

-----------------------------------------------------------------------------

ClientNext ==
    \/ NetworkThread
    \/ OperationThread
    \/ ClickLogin \/ HttpLogin \/ OnEventTrigger \/ OnSendMsg
    \/ \E t \in {"heartbeat", "relogin"} : OnTimeout(t)
    \/ World

\* The three threads run on.
ThreadFairness ==
    /\ WF_clientVars(NetworkThread)
    /\ WF_clientVars(OperationThread)
    /\ WF_clientVars(OnEventTrigger)

(***************************************************************************)
(* The HTTP thread runs on, the timer of the retries comes due, and        *)
(* msg_server accepts, answers and completes what it began, while it is up.*)
(***************************************************************************)
RetryFairness ==
    /\ WF_clientVars(HttpLogin)
    /\ SF_clientVars(OnTimeout("relogin"))
    /\ \A h \in Handles : WF_clientVars(World /\ Server(h))

ClientSpec == ClientInit /\ [][ClientNext]_clientVars /\ ThreadFairness
ClientFairSpec == ClientSpec /\ RetryFairness

(***************************************************************************)
(* The connection the module sends on is one whose events reach it: its    *)
(* socket is watched, and ImConnCallback finds it, except while DoLogin is *)
(* between netlib_connect and the insert.                                  *)
(***************************************************************************)
HandleReached ==
    Open(sock, mod.handle) =>
        /\ {"r", "e"} \subseteq sock[mod.handle].sets
        /\ mod.handle \in conns \/ login.handle = mod.handle

(***************************************************************************)
(* A connection that is in g_client_conn and fails, refused, closed or     *)
(* lost, gets the client to retry: the network thread notices, OnClose     *)
(* tells MainWin, and DoReLogin has its timer.                             *)
(***************************************************************************)
LostNoticed ==
    \A h \in Handles :
        (h \in conns /\ Open(sock, h) /\ link[h].state \in {"down", "refused"}) ~> "relogin" \in timers

(***************************************************************************)
(* relogin_manager.cpp:5 and main_win.cpp:128: a client that has lost its  *)
(* connection connects again.  Once MainWin shows offline it shows online  *)
(* again, however often the retry must be repeated.                        *)
(***************************************************************************)
Reconnects == (window = "main" /\ ~online) ~> online
=============================================================================
