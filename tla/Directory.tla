----------------------------- MODULE Directory ------------------------------
(***************************************************************************)
(* The directory of msg_servers that LoginConn of login_server keeps:      *)
(* msg_servers connect and report how many users they have.  The wiring is *)
(* that of MsgServerCallback, which main has in a comment (it runs module  *)
(* LoginServer).  A link ends by a close of either side or, when the       *)
(* network goes silent, by the timer of each.                              *)
(* route_server's RouteConn has the same life; as HandleOnlineUserInfo only*)
(* counts and g_user_map is never filled, there is nothing more to it.     *)
(***************************************************************************)
EXTENDS Integers, Sequences, FiniteSets, FiniteSetsExt

CONSTANTS
    MsgServers,   \* the msg_servers
    Handles,      \* handles of login_server's sockets, reused
    Types,        \* what a link goes to: "login" or "route"
    CountMod,     \* 2^32: counts are taken modulo it
    MaxLinks,     \* bound: links that are made
    MaxUsers,     \* bound: users of one msg_server
    MaxChanges    \* bound: users that come or go

Links == 1..MaxLinks
NoServ == 0

\* 2^32 is more than the users that all the sockets of a process can stand for.
ASSUME DirectoryAssumption ==
    /\ Types \subseteq {"login", "route"} /\ NoServ \notin MsgServers
    /\ Handles \subseteq Nat /\ {MaxLinks, MaxUsers, MaxChanges} \subseteq Nat
    /\ CountMod \in Nat /\ MaxUsers < CountMod
    /\ IsFiniteSet(Handles) /\ Cardinality(Handles) * MaxUsers < CountMod

VARIABLES
    users,     \* GetUserConnCnt of every msg_server
    changes,   \* how many users came or went
    link,      \* the links, with both ends: LoginServConn or RouteServConn, and LoginConn or RouteConn
    connMap,   \* g_msg_serv_conn_map and g_route_conn_map
    servInfo,  \* g_msg_serv_info
    totalCnt   \* g_total_online_user_cnt

dirVars == <<users, changes, link, connMap, servInfo, totalCnt>>

NoInfo == [server |-> NoServ, cur |-> 0]

\* near: the msg_server's end is open, far: the other end is; opened_; what is
\* under way; cut: nothing gets through any more.
NoLink == [server |-> NoServ, type |-> "login", handle |-> NoServ, near |-> FALSE, far |-> FALSE,
           opened |-> FALSE, out |-> <<>>, cut |-> FALSE]

DirInit ==
    /\ users = [s \in MsgServers |-> 0] /\ changes = 0
    /\ link = [c \in Links |-> NoLink]
    /\ connMap = [t \in Types |-> [h \in Handles |-> NoServ]]
    /\ servInfo = [h \in Handles |-> NoInfo] /\ totalCnt = 0

-----------------------------------------------------------------------------
\* The msg_server's end.

LinkOf(s, t) == {c \in Links : link[c].server = s /\ link[c].type = t /\ link[c].near}

\* OnConnect of a RouteConn and OnConnect2 of a LoginConn insert the connection;
\* insert keeps an entry that is there.
Insert(t, h, c) ==
    connMap' = IF connMap[t][h] = NoServ THEN [connMap EXCEPT ![t][h] = c] ELSE connMap

\* The descriptors that are open at the other end; accept returns the lowest other one.
OpenAt(t) == {link[d].handle : d \in {d \in Links : link[d].far /\ link[d].type = t}}

\* Connect of a link, and its accept: MsgServerCallback or route_serv_callback.
LinkUp(s, t, h) ==
    LET c == Cardinality({d \in Links : link[d] # NoLink}) + 1 IN
    /\ LinkOf(s, t) = {} /\ c \in Links
    /\ h \notin OpenAt(t) /\ \A g \in Handles : g < h => g \in OpenAt(t)
    /\ link' = [link EXCEPT ![c] = [NoLink EXCEPT !.server = s, !.type = t, !.handle = h,
                                                 !.near = TRUE, !.far = TRUE]]
    /\ Insert(t, h, c)
    /\ UNCHANGED <<users, changes, servInfo, totalCnt>>

SendPdu(l, m) == IF l.cut THEN l ELSE [l EXCEPT !.out = Append(@, m)]

\* OnConfirm reports the users there are now.
LinkConfirm(c) ==
    /\ link[c].near /\ ~link[c].opened
    /\ link' = [link EXCEPT ![c] = SendPdu([@ EXCEPT !.opened = TRUE],
                                           <<"info", users[link[c].server]>>)]
    /\ UNCHANGED <<users, changes, connMap, servInfo, totalCnt>>

\* send_to_all_login_server: only to links that are open.
SendToAll(s, m) ==
    link' = [c \in Links |-> IF c \in LinkOf(s, "login") /\ link[c].opened
                             THEN SendPdu(link[c], m) ELSE link[c]]

\* A user comes or goes, and login_server is told with a UserCntUpdate.
UserChange(s, by) ==
    /\ changes < MaxChanges /\ users[s] + by \in 0..MaxUsers
    /\ changes' = changes + 1
    /\ users' = [users EXCEPT ![s] = @ + by]
    /\ SendToAll(s, <<"update", by>>)
    /\ UNCHANGED <<connMap, servInfo, totalCnt>>

\* LoginServConn::Close: at the msg_server's end the link is closed, by OnTimer
\* when nothing has come for SERVER_TIMEOUT although the other end sends a
\* heartbeat every SERVER_HEARTBEAT_INTERVAL, or by OnClose.
NearClose(c) ==
    /\ link[c].near /\ (link[c].cut \/ ~link[c].far)
    /\ link' = [link EXCEPT ![c].near = FALSE]
    /\ UNCHANGED <<users, changes, connMap, servInfo, totalCnt>>

\* A msg_server goes down.
MsgServerStops(c) ==
    /\ link[c].near /\ link[c].far
    /\ link' = [link EXCEPT ![c].near = FALSE]
    /\ UNCHANGED <<users, changes, connMap, servInfo, totalCnt>>

\* The network drops what is under way and all that follows.
Cut(c) ==
    /\ link[c].far /\ ~link[c].cut
    /\ link' = [link EXCEPT ![c].cut = TRUE, ![c].out = <<>>]
    /\ UNCHANGED <<users, changes, connMap, servInfo, totalCnt>>

-----------------------------------------------------------------------------
\* The end of login_server.

\* ImConnCallback finds the connection by its handle, as do the tables.
Served(c) == connMap[link[c].type][link[c].handle] # NoServ
NextPdu(c, kind) == link[c].far /\ link[c].out # <<>> /\ Head(link[c].out)[1] = kind
TakePdu(c) == link' = [link EXCEPT ![c].out = Tail(@)]

\* HandleMsgServInfo: insert keeps an entry that is there.  A RouteConn only
\* counts the users it is told of.
HandleMsgServInfo(c) ==
    LET h == link[c].handle
        n == Head(link[c].out)[2]
    IN  /\ NextPdu(c, "info")
        /\ TakePdu(c)
        /\ IF ~Served(c) \/ link[c].type = "route" THEN UNCHANGED <<servInfo, totalCnt>>
           ELSE /\ servInfo' = IF servInfo[h] = NoInfo
                               THEN [servInfo EXCEPT ![h] = [server |-> link[c].server, cur |-> n]]
                               ELSE servInfo
                /\ totalCnt' = (totalCnt + n) % CountMod
        /\ UNCHANGED <<users, changes, connMap>>

\* HandleUserCntUpdate: the counts are unsigned.
HandleUserCntUpdate(c) ==
    LET h == link[c].handle
        by == Head(link[c].out)[2]
    IN  /\ NextPdu(c, "update")
        /\ TakePdu(c)
        /\ IF ~Served(c) \/ servInfo[h] = NoInfo THEN UNCHANGED <<servInfo, totalCnt>>
           ELSE /\ servInfo' = [servInfo EXCEPT ![h].cur = (@ + by) % CountMod]
                /\ totalCnt' = (totalCnt + by) % CountMod
        /\ UNCHANGED <<users, changes, connMap>>

\* Mutant: the users of a msg_server that is gone stay in the total.
Forget_KeepsTotal(h) ==
    /\ servInfo' = [servInfo EXCEPT ![h] = NoInfo]
    /\ UNCHANGED totalCnt

\* LoginConn::Close: the users of this msg_server leave the total.
Forget(h) ==
    /\ servInfo' = [servInfo EXCEPT ![h] = NoInfo]
    /\ totalCnt' = (totalCnt - servInfo[h].cur) % CountMod

\* Mutant: a LoginConn is only closed by its peer.
Expired_Never(c) == FALSE

\* LoginConn::OnTimer and RouteConn::OnTimer: nothing was received for SERVER_TIMEOUT.
Expired(c) == link[c].cut

\* OnClose comes after all that was sent; OnTimer when the link is silent.
FarClose(c) ==
    LET h == link[c].handle IN
    /\ link[c].far
    /\ Expired(c) \/ (~link[c].cut /\ ~link[c].near /\ link[c].out = <<>>)
    /\ link' = [link EXCEPT ![c].far = FALSE, ![c].out = <<>>]
    /\ connMap' = [connMap EXCEPT ![link[c].type][h] = NoServ]
    /\ IF link[c].type = "login" THEN Forget(h) ELSE UNCHANGED <<servInfo, totalCnt>>
    /\ UNCHANGED <<users, changes>>

-----------------------------------------------------------------------------
LinkTimers(c) == NearClose(c) \/ FarClose(c) \/ HandleMsgServInfo(c) \/ HandleUserCntUpdate(c)

DirNext ==
    \/ \E s \in MsgServers, h \in Handles, t \in Types : LinkUp(s, t, h)
    \/ \E s \in MsgServers, by \in {1, -1} : UserChange(s, by)
    \/ \E c \in Links : LinkConfirm(c) \/ MsgServerStops(c) \/ Cut(c) \/ LinkTimers(c)

\* The timers run every second in the loop that also reads the sockets.
DirFairness == \A c \in Links : WF_dirVars(LinkTimers(c))

DirSpec == DirInit /\ [][DirNext]_dirVars /\ DirFairness

-----------------------------------------------------------------------------
\* What login_server knows of a msg_server whose link is in order is what that
\* server has, but for the updates under way; and the total is the sum of the
\* counts, so that neither ever wraps below zero.
Owed(c) ==
    LET net[i \in 0..Len(link[c].out)] ==
            IF i = 0 THEN 0
            ELSE net[i - 1] + (IF link[c].out[i][1] = "update" THEN link[c].out[i][2] ELSE 0)
    IN  net[Len(link[c].out)]

CountsSound ==
    /\ \A c \in Links :
           LET h == link[c].handle IN
           link[c].type = "login" /\ link[c].near /\ link[c].far /\ ~link[c].cut =>
               IF servInfo[h] # NoInfo
               THEN servInfo[h].server = link[c].server
                        /\ servInfo[h].cur + Owed(c) = users[link[c].server]
               ELSE link[c].opened => \E i \in DOMAIN link[c].out : link[c].out[i][1] = "info"
    /\ totalCnt = FoldSet(LAMBDA h, sum : servInfo[h].cur + sum, 0, Handles)

\* A msg_server that has stopped, or can not be reached, leaves the directory.
DirectoryCleared ==
    \A c \in Links : (link[c].far /\ (~link[c].near \/ link[c].cut)) ~> ~link[c].far
=============================================================================
