---------------------------- MODULE ClientProofs ----------------------------
(***************************************************************************)
(* For every set of socket handles and every bound: whatever the operation *)
(* thread, the network thread and the network do between the three steps   *)
(* of DoLogin, the connection the chat client sends on is watched by the   *)
(* select loop and found by ImConnCallback.                                *)
(***************************************************************************)
EXTENDS Client, TLAPS

Sockets == [state : {"none", "connecting", "connected", "closing"}, sets : SUBSET {"r", "w", "e"}]

\* handle_ of TcpClientModule and the handle DoLogin holds are of sockets.
HandleTypeOK ==
    /\ "handle" \in DOMAIN mod /\ mod.handle \in Handles \cup {Invalid}
    /\ login \in [pc : {"idle", "connect", "insert"}, handle : Handles \cup {Invalid}]
    /\ sock \in [Handles -> Sockets]

\* No handler takes an open socket out of the read and the exception set.
Watched == \A h \in Handles : sock[h].state # "none" => {"r", "e"} \subseteq sock[h].sets

\* Between its steps DoLogin holds the handle that handle_ has or will have.
LoginHolds ==
    /\ login.pc = "idle" => login.handle = Invalid
    /\ login.pc = "insert" => mod.handle = login.handle

ReachedInv == HandleTypeOK /\ Watched /\ LoginHolds /\ HandleReached

-----------------------------------------------------------------------------
(* What a handler of the network thread, or a send, may do.                *)

\* In s a socket is open only if it is in sock, and it is watched.
Follows(s) ==
    /\ s \in [Handles -> Sockets]
    /\ \A h \in Handles : s[h].state # "none" => sock[h].state # "none" /\ {"r", "e"} \subseteq s[h].sets

\* handle_ stays, and leaves g_client_conn only with its socket closed.
HandlerStep ==
    /\ "handle" \in DOMAIN mod' /\ mod'.handle = mod.handle /\ UNCHANGED login
    /\ Follows(sock')
    /\ conns' = conns \/ (conns' = conns \ {mod.handle} /\ ~Open(sock', mod.handle))

LEMMA HandlerStepReached ==
    ASSUME ReachedInv, HandlerStep
    PROVE  ReachedInv'
<1> USE DEF HandlerStep, Follows
<1>1. HandleTypeOK'
    BY DEF ReachedInv, HandleTypeOK
<1>2. Watched'
    BY DEF Watched
<1>3. LoginHolds'
    BY DEF ReachedInv, LoginHolds
<1>4. HandleReached'
    <2> SUFFICES ASSUME Open(sock', mod'.handle)
                 PROVE  /\ {"r", "e"} \subseteq sock'[mod'.handle].sets
                        /\ mod'.handle \in conns' \/ login'.handle = mod'.handle
        BY DEF HandleReached, Open
    <2>1. mod.handle \in Handles /\ Open(sock, mod.handle)
        BY DEF ReachedInv, HandleTypeOK, Open
    <2>2. mod.handle \in conns \/ login.handle = mod.handle
        BY <2>1 DEF ReachedInv, HandleReached
    <2>3. mod.handle \in conns => mod.handle \in conns'
        OBVIOUS
    <2> QED BY <2>1, <2>2, <2>3 DEF Open
<1> QED BY <1>1, <1>2, <1>3, <1>4 DEF ReachedInv

\* A step that touches none of the four is a handler step.
LEMMA ElsewhereReached ==
    ASSUME ReachedInv, UNCHANGED <<mod, login, sock, conns>>
    PROVE  ReachedInv'
BY DEF ReachedInv, HandleTypeOK, Watched, LoginHolds, HandleReached, Open

\* Sockets that are open are watched.
LEMMA SockFollows ==
    ASSUME ReachedInv
    PROVE  Follows(sock)
BY DEF ReachedInv, HandleTypeOK, Watched, Follows

\* ImConn::Send and OnWrite watch a socket for writing as well, and keep handle_.
LEMMA SendAllStep ==
    ASSUME HandleTypeOK, NEW s, Follows(s), NEW ps, NEW room, SendAll(s, ps, room)
    PROVE  Follows(sock') /\ "handle" \in DOMAIN mod' /\ mod'.handle = mod.handle
<1>1. "handle" \in DOMAIN mod' /\ mod'.handle = mod.handle
    BY DEF SendAll, Sent, Kept, HandleTypeOK
<1>2. CASE sock' = s
    BY <1>1, <1>2
<1>3. CASE /\ Open(s, mod.handle)
           /\ sock' = [s EXCEPT ![mod.handle].sets = @ \cup {"w"}]
    <2>1. s \in [Handles -> Sockets] /\ mod.handle \in Handles
        BY <1>3 DEF Follows, HandleTypeOK, Open
    <2>2. s[mod.handle] \in Sockets
        BY <2>1
    <2>3. [s[mod.handle] EXCEPT !.sets = @ \cup {"w"}]
              = [state |-> s[mod.handle].state, sets |-> s[mod.handle].sets \cup {"w"}]
        BY <2>2 DEF Sockets
    <2>4. /\ sock' \in [Handles -> Sockets]
          /\ \A h \in Handles : sock'[h].state = s[h].state /\ s[h].sets \subseteq sock'[h].sets
        BY <1>3, <2>1, <2>2, <2>3 DEF Sockets
    <2> QED BY <1>1, <2>4 DEF Follows
<1> QED BY <1>2, <1>3 DEF SendAll

LEMMA SendStep ==
    ASSUME HandleTypeOK, NEW s, Follows(s), NEW p, NEW room, Send(s, p, room)
    PROVE  Follows(sock') /\ "handle" \in DOMAIN mod' /\ mod'.handle = mod.handle
<1>1. CASE mod.busy /\ Kept(mod.out \cup {p}) /\ sock' = s
    BY <1>1 DEF Kept, HandleTypeOK
<1>2. CASE SendAll(s, {p}, room)
    BY <1>2, SendAllStep
<1> QED BY <1>1, <1>2 DEF Send

LEMMA OnWriteStep ==
    ASSUME HandleTypeOK, NEW s, Follows(s), NEW room, OnWrite(s, room)
    PROVE  Follows(sock') /\ "handle" \in DOMAIN mod' /\ mod'.handle = mod.handle
<1>1. CASE sock' = s /\ UNCHANGED mod
    BY <1>1 DEF HandleTypeOK
<1>2. CASE SendAll(s, mod.out, room)
    BY <1>2, SendAllStep
<1> QED BY <1>1, <1>2 DEF OnWrite

\* TcpClientModule::OnClose closes handle_, whatever socket the event was for.
LEMMA OnCloseStep ==
    ASSUME HandleTypeOK, NEW s, Follows(s), OnClose(s), UNCHANGED <<mod, login>>
    PROVE  HandlerStep
<1>1. Follows(sock') /\ ~Open(sock', mod.handle)
    <2>1. CASE Open(s, mod.handle)
        <3>1. mod.handle \in Handles /\ sock' = [s EXCEPT ![mod.handle] = NoSocket]
            BY <2>1 DEF HandleTypeOK, Open, OnClose, Close, CloseSocket
        <3>2. NoSocket \in Sockets /\ NoSocket.state = "none"
            BY DEF NoSocket, Sockets
        <3>3. sock' \in [Handles -> Sockets]
            BY <3>1, <3>2 DEF Follows
        <3> QED BY <3>1, <3>2, <3>3 DEF Follows, Open
    <2>2. CASE ~Open(s, mod.handle)
        BY <2>2 DEF OnClose, Close, CloseSocket
    <2> QED BY <2>1, <2>2
<1>2. conns' = conns \ {mod.handle}
    BY DEF OnClose, Close
<1> QED BY <1>1, <1>2 DEF HandlerStep, HandleTypeOK

-----------------------------------------------------------------------------
(* The network thread.                                                     *)

LEMMA SocketOnReadStep ==
    ASSUME ReachedInv, NEW h \in Handles, SocketOnRead(h)
    PROVE  ReachedInv'
<1> USE DEF SocketOnRead
<1>1. CASE UNCHANGED <<mod, login, sock, conns>>
    BY <1>1, ElsewhereReached
<1>2. CASE OnClose(sock) /\ UNCHANGED <<mod, login>>
    BY <1>2, SockFollows, OnCloseStep, HandlerStepReached DEF ReachedInv
<1>3. CASE OnRead
    <2>1. CASE OnClose(sock) /\ UNCHANGED mod
        BY <2>1, <1>2
    <2>2. CASE /\ \E in : \/ mod' = [mod EXCEPT !.in = in]
                          \/ mod' = [mod EXCEPT !.in = in, !.garbled = TRUE]
               /\ UNCHANGED <<sock, conns>>
        BY <2>2, SockFollows, HandlerStepReached DEF HandlerStep, ReachedInv, HandleTypeOK
    <2> QED BY <1>3, <2>1, <2>2 DEF OnRead
<1> QED BY <1>1, <1>2, <1>3

\* What a socket becomes in the write handler of BaseSocket.
LEMMA QuietFollows ==
    ASSUME ReachedInv, NEW h \in Handles, Open(sock, h),
           NEW s, s = [sock EXCEPT ![h].sets = @ \ {"w"}]
    PROVE  Follows(s) /\ Follows([s EXCEPT ![h].state = "connected"])
<1>1. sock \in [Handles -> Sockets] /\ sock[h] \in Sockets
    BY DEF ReachedInv, HandleTypeOK
<1>2. [sock[h] EXCEPT !.sets = @ \ {"w"}] = [state |-> sock[h].state, sets |-> sock[h].sets \ {"w"}]
    BY <1>1 DEF Sockets
<1>3. s \in [Handles -> Sockets] /\ s[h] = [state |-> sock[h].state, sets |-> sock[h].sets \ {"w"}]
    BY <1>1, <1>2 DEF Sockets
<1>4. Follows(s)
    BY <1>3, SockFollows DEF Follows
<1>a. \A q \in Sockets : [q EXCEPT !.state = "connected"] = [state |-> "connected", sets |-> q.sets]
    BY DEF Sockets
<1>5. s[h] \in Sockets /\ [s[h] EXCEPT !.state = "connected"] = [state |-> "connected", sets |-> s[h].sets]
    BY <1>a, <1>3
<1>6. [s[h] EXCEPT !.state = "connected"] \in Sockets
    BY <1>5 DEF Sockets
<1>7. [s EXCEPT ![h].state = "connected"] \in [Handles -> Sockets]
    BY <1>3, <1>6
<1>8. \A g \in Handles : /\ g # h => [s EXCEPT ![h].state = "connected"][g] = s[g]
                         /\ [s EXCEPT ![h].state = "connected"][g].sets = s[g].sets
    BY <1>3, <1>5
<1> QED BY <1>3, <1>4, <1>7, <1>8 DEF Follows, Open

LEMMA SocketOnWriteStep ==
    ASSUME ReachedInv, NEW h \in Handles, SocketOnWrite(h)
    PROVE  ReachedInv'
<1> DEFINE quiet == [sock EXCEPT ![h].sets = @ \ {"w"}]
           confirmed == [quiet EXCEPT ![h].state = "connected"]
<1>1. CASE ~Open(sock, h)
    BY <1>1, ElsewhereReached DEF SocketOnWrite, opVars
<1>2. CASE Open(sock, h)
    <2>1. Follows(quiet) /\ Follows(confirmed)
        BY <1>2, QuietFollows
    <2>2. HandleTypeOK /\ UNCHANGED login
        BY DEF ReachedInv, SocketOnWrite, opVars
    <2> HIDE DEF quiet, confirmed
    <2>3. CASE sock' \in {quiet, confirmed} /\ UNCHANGED <<mod, conns>>
        BY <2>1, <2>2, <2>3, HandlerStepReached DEF HandlerStep, HandleTypeOK
    <2>4. CASE OnClose(quiet) /\ UNCHANGED mod
        BY <2>1, <2>2, <2>4, OnCloseStep, HandlerStepReached
    <2>5. CASE OnConfirm(confirmed, h = mod.handle) /\ UNCHANGED conns
        BY <2>1, <2>2, <2>5, SendStep, HandlerStepReached DEF OnConfirm, HandlerStep
    <2>6. CASE OnWrite(quiet, h = mod.handle) /\ UNCHANGED conns
        BY <2>1, <2>2, <2>6, OnWriteStep, HandlerStepReached DEF HandlerStep
    <2> QED BY <1>2, <2>3, <2>4, <2>5, <2>6 DEF SocketOnWrite, quiet, confirmed
<1> QED BY <1>1, <1>2

LEMMA SocketOnCloseStep ==
    ASSUME ReachedInv, NEW h \in Handles, SocketOnClose(h)
    PROVE  ReachedInv'
<1> DEFINE closing == [sock EXCEPT ![h].state = "closing"]
<1>1. HandleTypeOK /\ UNCHANGED <<mod, login>>
    BY DEF ReachedInv, SocketOnClose, opVars
<1>2. CASE ~Open(sock, h)
    BY <1>1, <1>2, ElsewhereReached DEF SocketOnClose
<1>3. CASE Open(sock, h)
    <2>1. Follows(closing)
        <3>1. sock \in [Handles -> Sockets] /\ sock[h] \in Sockets
            BY <1>1 DEF HandleTypeOK
        <3>2. [sock[h] EXCEPT !.state = "closing"] = [state |-> "closing", sets |-> sock[h].sets]
            BY <3>1 DEF Sockets
        <3>3. /\ closing \in [Handles -> Sockets]
              /\ \A g \in Handles : (g # h => closing[g] = sock[g]) /\ closing[g].sets = sock[g].sets
            BY <3>1, <3>2 DEF Sockets
        <3> QED BY <1>3, <3>3, SockFollows DEF Follows, Open
    <2> HIDE DEF closing
    <2>2. CASE OnClose(closing)
        BY <1>1, <2>1, <2>2, OnCloseStep, HandlerStepReached
    <2>3. CASE sock' = closing /\ UNCHANGED conns
        BY <1>1, <2>1, <2>3, HandlerStepReached DEF HandlerStep, HandleTypeOK
    <2> QED BY <1>3, <2>2, <2>3 DEF SocketOnClose, closing
<1> QED BY <1>2, <1>3

-----------------------------------------------------------------------------
(* The operation thread.                                                   *)

LEMMA DoLoginStep ==
    ASSUME ReachedInv, DoLogin
    PROVE  ReachedInv'
<1>1. /\ "handle" \in DOMAIN mod' /\ mod'.handle = mod.handle /\ mod.handle \in Handles \cup {Invalid}
      /\ UNCHANGED conns /\ login.handle = Invalid /\ login'.pc = "connect"
    BY DEF ReachedInv, HandleTypeOK, LoginHolds, DoLogin
<1>2. Open(sock, mod.handle) => mod.handle \in conns
    BY <1>1 DEF ReachedInv, HandleReached, Open
<1>3. ASSUME NEW h \in Handles,
             sock' = [sock EXCEPT ![h] = [state |-> "connecting", sets |-> {"r", "w", "e"}]],
             login' = [pc |-> "connect", handle |-> h]
      PROVE  ReachedInv'
    <2>1. [state |-> "connecting", sets |-> {"r", "w", "e"}] \in Sockets
        BY DEF Sockets
    <2>2. HandleTypeOK'
        BY <1>1, <1>3, <2>1 DEF ReachedInv, HandleTypeOK
    <2>3. /\ sock'[h].sets = {"r", "w", "e"}
          /\ \A g \in Handles : g # h => sock'[g] = sock[g]
        BY <1>3 DEF ReachedInv, HandleTypeOK
    <2>4. Watched'
        BY <2>3 DEF ReachedInv, Watched
    <2>5. LoginHolds'
        BY <1>1 DEF LoginHolds
    <2>6. HandleReached'
        <3> SUFFICES ASSUME Open(sock', mod'.handle)
                     PROVE  mod.handle \in Handles /\ (mod.handle \in conns \/ h = mod.handle)
            BY <1>1, <1>3, <2>4 DEF HandleReached, Open, Watched
        <3> QED BY <1>1, <1>2, <2>3 DEF Open
    <2> QED BY <2>2, <2>4, <2>5, <2>6 DEF ReachedInv
<1>4. ASSUME login' = [pc |-> "connect", handle |-> Invalid], UNCHANGED sock
      PROVE  ReachedInv'
    <2>1. HandleTypeOK' /\ Watched' /\ LoginHolds'
        BY <1>1, <1>4 DEF ReachedInv, HandleTypeOK, Watched, LoginHolds
    <2>2. HandleReached'
        BY <1>1, <1>2, <1>4 DEF ReachedInv, HandleReached, Open
    <2> QED BY <2>1, <2>2 DEF ReachedInv
<1> QED BY <1>3, <1>4 DEF DoLogin

LEMMA DoLoginHandleStep ==
    ASSUME ReachedInv, DoLoginHandle
    PROVE  ReachedInv'
<1>1. /\ "handle" \in DOMAIN mod' /\ mod'.handle = login.handle
      /\ login.handle \in Handles \cup {Invalid} /\ login'.handle = login.handle
      /\ login' \in [pc : {"idle", "connect", "insert"}, handle : Handles \cup {Invalid}]
      /\ login'.pc = (IF login.handle # Invalid THEN "insert" ELSE "idle")
      /\ UNCHANGED <<sock, conns>>
    BY DEF ReachedInv, HandleTypeOK, DoLoginHandle
<1>2. HandleTypeOK' /\ Watched' /\ LoginHolds'
    BY <1>1 DEF ReachedInv, HandleTypeOK, Watched, LoginHolds
<1>3. HandleReached'
    BY <1>1, <1>2 DEF HandleReached, Open, Watched
<1> QED BY <1>2, <1>3 DEF ReachedInv

LEMMA DoLoginInsertStep ==
    ASSUME ReachedInv, DoLoginInsert
    PROVE  ReachedInv'
<1>1. /\ mod.handle = login.handle /\ UNCHANGED <<mod, sock>>
      /\ conns' = conns \cup {login.handle} /\ login' = [pc |-> "idle", handle |-> Invalid]
    BY DEF ReachedInv, LoginHolds, DoLoginInsert
<1>2. HandleTypeOK' /\ Watched' /\ LoginHolds'
    BY <1>1 DEF ReachedInv, HandleTypeOK, Watched, LoginHolds
<1>3. HandleReached'
    BY <1>1 DEF ReachedInv, HandleReached, Open
<1> QED BY <1>2, <1>3 DEF ReachedInv

LEMMA OperateSendStep ==
    ASSUME ReachedInv, OperateSend
    PROVE  ReachedInv'
BY SockFollows, SendStep, HandlerStepReached DEF OperateSend, HandlerStep, ReachedInv

-----------------------------------------------------------------------------

LEMMA ClientInitReached == ClientInit => ReachedInv
BY DEF ClientInit, ReachedInv, HandleTypeOK, Watched, LoginHolds, HandleReached, Open,
       NoSocket, Sockets

LEMMA ClientStepReached == ReachedInv /\ [ClientNext]_clientVars => ReachedInv'
<1> SUFFICES ASSUME ReachedInv, [ClientNext]_clientVars PROVE ReachedInv'
    OBVIOUS
<1>1. CASE UNCHANGED <<mod, login, sock, conns>>
    BY <1>1, ElsewhereReached
<1>2. CASE NetworkThread
    <2>1. CASE Select
        BY <1>1, <2>1 DEF Select, opVars
    <2> QED BY <1>2, <2>1, SocketOnReadStep, SocketOnWriteStep, SocketOnCloseStep DEF NetworkThread
<1>3. CASE OperationThread
    <2>1. CASE OperatePdu
        BY <1>1, <2>1 DEF OperatePdu
    <2> QED BY <1>3, <2>1, DoLoginStep, DoLoginHandleStep, DoLoginInsertStep, OperateSendStep
            DEF OperationThread
<1>4. CASE ClickLogin \/ HttpLogin \/ OnEventTrigger \/ OnSendMsg \/ World
    BY <1>1, <1>4 DEF ClickLogin, HttpLogin, OnEventTrigger, OnSendMsg, World, opVars
<1>5. ASSUME NEW t, OnTimeout(t) PROVE ReachedInv'
    BY <1>1, <1>5 DEF OnTimeout
<1>6. CASE UNCHANGED clientVars
    BY <1>1, <1>6 DEF clientVars, opVars
<1> QED BY <1>2, <1>3, <1>4, <1>5, <1>6 DEF ClientNext

\* TcpClientModule is shared by every connection, and its handle_ is written by one
\* thread while another dispatches on it.  Even so the connection it sends on is one
\* whose events reach it: a retry never leaves the client on a socket nobody watches.
THEOREM ClientHandleReached == ClientSpec => []HandleReached
<1>1. ReachedInv => HandleReached
    BY DEF ReachedInv
<1> QED BY <1>1, ClientInitReached, ClientStepReached, PTL DEF ClientSpec
=============================================================================
