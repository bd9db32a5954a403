------------------------------ MODULE ServInfo ------------------------------
(***************************************************************************)
(* How msg_server keeps its connections to the db_proxy, login and route   *)
(* servers (serv_info.h, db_server_conn.cpp, login_server_conn.cpp,        *)
(* route_server_conn.cpp): each configured server has one slot, serv_conn; *)
(* a connection that closes empties the slot, and the one-second timer     *)
(* fills it again after a number of ticks that doubles with every close.   *)
(*                                                                         *)
(* A tick stands for the three timer callbacks of one second.  Of the      *)
(* route servers, the one that has been connected longest is the master.   *)
(***************************************************************************)
EXTENDS Integers

CONSTANTS
    Servers,            \* the configured servers of all three lists
    KindOf,             \* "db", "login" or "route"
    MIN_RECONNECT_CNT,  \* 4 in serv_info.h
    MAX_RECONNECT_CNT,  \* 64 in serv_info.h
    ServerTimeout,      \* SERVER_TIMEOUT in ticks, 30 in the code
    NoServer            \* "no master": g_master_rs_conn is NULL

ASSUME ServAssumption ==
    /\ KindOf \in [Servers -> {"db", "login", "route"}]
    /\ MIN_RECONNECT_CNT \in Nat /\ MIN_RECONNECT_CNT >= 2
    /\ MAX_RECONNECT_CNT \in Nat /\ MAX_RECONNECT_CNT >= MIN_RECONNECT_CNT
    /\ ServerTimeout \in Nat
    /\ NoServer \notin Servers

VARIABLES
    servConn,      \* what serv_conn of each slot is
    idleCnt,       \* idle_cnt
    reconnectCnt,  \* reconnect_cnt
    silence,       \* ticks since the connection last received something
    master,        \* g_master_rs_conn, by its server
    older,         \* ghost: <<s, t>>: s has the lesser connectTime_ of two open route servers
    wasOpen,       \* ghost: the connection lost last had been confirmed
    away           \* ghost: ticks since the server last had a connection

servVars == <<servConn, idleCnt, reconnectCnt, silence, master, older, wasOpen, away>>

\* "none": NULL; "connecting", "open": in the connection map, opened_ false or
\* true; "failed": netlib_connect returned NETLIB_INVALID_HANDLE, so the slot
\* holds a connection that is in no map.
SlotStates == {"none", "connecting", "open", "failed"}

\* A bound for the ghost away.
AwayBound == MAX_RECONNECT_CNT + 3

ServTypeOK ==
    /\ servConn \in [Servers -> SlotStates]
    /\ idleCnt \in [Servers -> 0..(MAX_RECONNECT_CNT + 2)]
    /\ reconnectCnt \in [Servers -> 1..MAX_RECONNECT_CNT]
    /\ silence \in [Servers -> Nat]
    /\ master \in Servers \cup {NoServer}
    /\ older \subseteq Servers \X Servers
    /\ wasOpen \in [Servers -> BOOLEAN]
    /\ away \in [Servers -> 0..AwayBound]

\* serv_init: every slot gets a connection, whatever netlib_connect returned.
ServInit ==
    /\ servConn \in [Servers -> {"connecting", "failed"}]
    /\ idleCnt = [s \in Servers |-> 0]
    /\ reconnectCnt = [s \in Servers |-> MIN_RECONNECT_CNT \div 2]
    /\ silence = [s \in Servers |-> 0]
    /\ master = NoServer
    /\ older = {}
    /\ wasOpen = [s \in Servers |-> FALSE]
    /\ away = [s \in Servers |-> 0]

-----------------------------------------------------------------------------
Mapped(s) == servConn[s] \in {"connecting", "open"}

\* serv_reset: reconnect_cnt doubles up to MAX_RECONNECT_CNT.
Doubled(n) == IF 2 * n > MAX_RECONNECT_CNT THEN MAX_RECONNECT_CNT ELSE 2 * n

OpenRoutes == {s \in Servers : KindOf[s] = "route" /\ servConn[s] = "open"}

\* update_master_route_serv_conn: of the open connections S the one with the least
\* connectTime_ (connections confirmed in one millisecond are told apart).
Oldest(S, before) ==
    IF S = {} THEN NoServer ELSE CHOOSE s \in S : \A t \in S \ {s} : <<s, t>> \in before

\* What remains of the order when the connections of S are closed.
Without(S) == {p \in older : p[1] \notin S /\ p[2] \notin S}

\* Mutant: Close leaves a dead master in place.
MasterAfterClose_Keeps(S) == master

\* RouteServConn::Close looks for a new master when it closes the master.
MasterAfterClose(S) == IF master \in S THEN Oldest(OpenRoutes \ S, older) ELSE master

\* The peer closed the connection, or the connect failed (OnClose, Close).
OnClose(s) ==
    /\ Mapped(s)
    /\ servConn' = [servConn EXCEPT ![s] = "none"]
    /\ idleCnt' = [idleCnt EXCEPT ![s] = 0]
    /\ reconnectCnt' = [reconnectCnt EXCEPT ![s] = Doubled(@)]
    /\ wasOpen' = [wasOpen EXCEPT ![s] = servConn[s] = "open"]
    /\ older' = Without({s})
    /\ master' = MasterAfterClose({s})
    /\ UNCHANGED <<silence, away>>

\* Mutant: a confirmed connection does not reset the count.
Confirmed_NoReset(s) == reconnectCnt[s]

\* OnConfirm of a login or route connection starts the back-off again; that of
\* a DBServConn does not.
Confirmed(s) == IF KindOf[s] = "db" THEN reconnectCnt[s] ELSE MIN_RECONNECT_CNT \div 2

OnConfirm(s) ==
    /\ servConn[s] = "connecting"
    /\ servConn' = [servConn EXCEPT ![s] = "open"]
    /\ reconnectCnt' = [reconnectCnt EXCEPT ![s] = Confirmed(s)]
    /\ older' = IF KindOf[s] = "route" THEN older \cup (OpenRoutes \X {s}) ELSE older
    /\ master' = IF KindOf[s] = "route" /\ master = NoServer
                 THEN Oldest(OpenRoutes \cup {s}, older') ELSE master
    /\ UNCHANGED <<idleCnt, silence, wasOpen, away>>

\* Anything from the server, a heartbeat at least.
ServOnRead(s) ==
    /\ servConn[s] = "open"
    /\ silence' = [silence EXCEPT ![s] = 0]
    /\ UNCHANGED <<servConn, idleCnt, reconnectCnt, master, older, wasOpen, away>>

-----------------------------------------------------------------------------
\* Mutant: the timeout is never noticed, as for a DBServConn.
TimedOut_Never(s) == FALSE

\* OnTimer closes a connection that was silent for SERVER_TIMEOUT.  The timer
\* of a DBServConn never does: it compares with lastSendTick_, which the
\* heartbeat it has just sent made the current time.
TimedOut(s) == Mapped(s) /\ KindOf[s] # "db" /\ silence[s] >= ServerTimeout

\* if (idle_cnt++ > reconnect_cnt)
Due(s, idle) == servConn[s] = "none" /\ idle > reconnectCnt[s]

\* Mutant: the comparison does not count the tick.
Counted_Never(n) == n

\* The post-increment of that comparison.
Counted(n) == n + 1

\* One second: OnTimer on the connections in the maps, then
\* serv_check_reconnect on every slot.  ok[s] is what netlib_connect returns.
Tick(ok) ==
    LET dropped == {s \in Servers : TimedOut(s)}
        due == {s \in Servers : Due(s, idleCnt[s])}
    IN  /\ servConn' = [s \in Servers |->
               IF s \in dropped THEN "none"
               ELSE IF s \in due THEN (IF ok[s] THEN "connecting" ELSE "failed")
               ELSE servConn[s]]
        /\ idleCnt' = [s \in Servers |->
               IF s \in dropped THEN Counted(0)
               ELSE IF servConn[s] = "none" THEN Counted(idleCnt[s]) ELSE idleCnt[s]]
        /\ reconnectCnt' = [s \in Servers |->
               IF s \in dropped THEN Doubled(reconnectCnt[s]) ELSE reconnectCnt[s]]
        /\ silence' = [s \in Servers |->
               IF Mapped(s) /\ KindOf[s] # "db" /\ s \notin dropped THEN silence[s] + 1 ELSE 0]
        /\ wasOpen' = [s \in Servers |->
               IF s \in dropped THEN servConn[s] = "open" ELSE wasOpen[s]]
        /\ older' = Without(dropped)
        /\ master' = MasterAfterClose(dropped)
        /\ away' = [s \in Servers |->
               IF Mapped(s) \/ (s \in due /\ ok[s]) THEN 0
               ELSE IF away[s] = AwayBound THEN AwayBound ELSE away[s] + 1]

Timer == \E ok \in [Servers -> BOOLEAN] : Tick(ok)

ServNext ==
    \/ \E s \in Servers : OnClose(s) \/ OnConfirm(s) \/ ServOnRead(s)
    \/ Timer

ServSpec == ServInit /\ [][ServNext]_servVars

\* The event loop runs the one-second timers for ever.
ServFairSpec == ServSpec /\ WF_servVars(Timer)

-----------------------------------------------------------------------------
\* g_master_rs_conn is the open route connection that was confirmed first,
\* and NULL exactly when no route connection is open.
MasterIsOldest ==
    /\ master = NoServer <=> OpenRoutes = {}
    /\ master # NoServer =>
           master \in OpenRoutes /\ \A t \in OpenRoutes \ {master} : <<master, t>> \in older

\* A login or route server that was reached is tried again soon after it is
\* lost: the back-off of earlier failures is forgotten.
PromptAfterSuccess ==
    \A s \in Servers : KindOf[s] # "db" /\ wasOpen[s] /\ servConn[s] = "none"
        => away[s] <= MIN_RECONNECT_CNT + 1

\* A login or route connection that hears nothing, confirmed or still being
\* made, is given up after SERVER_TIMEOUT.
SilentPeerDropped ==
    \A s \in Servers : Mapped(s) /\ KindOf[s] # "db" => silence[s] <= ServerTimeout

\* An empty slot is filled again: a lost server is retried for ever.
EmptySlotRetried == \A s \in Servers : servConn[s] = "none" ~> servConn[s] # "none"

\* "reconnect db_proxy_server in 4s, 8s, 16s, 32s, 4s, 8s, ..."
\* (db_server_conn.cpp): a server without a connection is tried again and again.
AlwaysRetried == \A s \in Servers : ~Mapped(s) ~> servConn[s] = "connecting"
=============================================================================
