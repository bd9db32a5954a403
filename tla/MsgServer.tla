------------------------------ MODULE MsgServer ------------------------------
(***************************************************************************)
(* msg_server's clients: MsgConn objects, the ImUser and ImUserManager     *)
(* tables, and the answers that come back from db_proxy_server through a   *)
(* DBServConn.  One thread, the event loop, runs every handler, but a      *)
(* login is split by the round trip to the database, and meanwhile the     *)
(* client may go, its MsgConn may be freed and its handle be reused.       *)
(*                                                                         *)
(* g_msg_conn_map owns the MsgConns; ImUser keeps raw MsgConn pointers     *)
(* that nothing removes when a MsgConn is destroyed.  Memory is explicit:  *)
(* a pointer is an address, a freed object keeps its last contents until   *)
(* another MsgConn is allocated there, and following a dangling pointer    *)
(* either reads those contents or crashes the process.                     *)
(***************************************************************************)
EXTENDS Integers, Sequences, FiniteSets, FiniteSetsExt

CONSTANTS
    NumAddrs,    \* addresses MsgConn objects are allocated at
    NumHandles,  \* socket handles
    Names,       \* login names
    Ids,         \* user ids
    IdOf,        \* the id db_proxy_server finds for a name
    MaxAccepts,  \* bound: connections accepted in a behaviour
    MaxReqs      \* bound: requests sent to db_proxy_server in a behaviour

ASSUME MsgAssumption ==
    /\ NumAddrs \in Nat /\ NumHandles \in Nat
    /\ MaxAccepts \in Nat /\ MaxReqs \in Nat
    /\ Ids \subseteq Nat \ {0}
    /\ IdOf \in [Names -> Ids]

Addrs == 1..NumAddrs
Handles == 1..NumHandles
Serials == 1..MaxAccepts
MaxUsers == MaxReqs

VARIABLES
    obj,        \* obj[a]: the MsgConn at address a
    connMap,    \* g_msg_conn_map: address by handle, 0 when absent
    reading,    \* the MsgConn whose OnRead is running, or 0
    users,      \* the ImUser objects, in the order of their creation
    nameMap,    \* userNameMap_: index in users, 0 when absent
    idMap,      \* userIdMap_: index in users, 0 when absent
    requests,   \* requests on their way to db_proxy_server and back
    crashed,    \* a dangling pointer brought the process down
    accepted,   \* ghost: connections accepted so far
    asked,      \* ghost: requests sent so far
    validated,  \* ghost: connections whose own login the database accepted
    reused,     \* ghost: a handle or an address has been used twice
    delivered   \* ghost: user lists and messages, and the connection that got them

tables == <<users, nameMap, idMap>>
ghosts == <<accepted, asked, validated, reused, delivered>>
msgVars == <<obj, connMap, reading, tables, requests, crashed, ghosts>>

\* serial is a ghost: which accepted connection the object was made for.
MsgConns == [alive : BOOLEAN, handle : 0..NumHandles, open : BOOLEAN,
             userId : Ids \cup {0}, serial : 0..MaxAccepts]

NoMsgConn == [alive |-> FALSE, handle |-> 0, open |-> FALSE, userId |-> 0, serial |-> 0]

\* The constructor leaves validate_ uninitialised; FALSE stands for whatever it
\* holds until SetValidate.
NewImUser == [userId |-> 0, validate |-> FALSE, unValidate |-> {}, conns |-> [h \in Handles |-> 0]]

LoginReqs == [type : {"login"}, name : Names, handle : Handles, serial : Serials, n : 1..MaxReqs]
AllUserReqs == [type : {"allUser"}, user : Ids \cup {0}, handle : Handles, serial : Serials, n : 1..MaxReqs]
MsgReqs == [type : {"msg"}, to : Ids, n : 1..MaxReqs]

MsgTypeOK ==
    /\ obj \in [Addrs -> MsgConns]
    /\ connMap \in [Handles -> 0..NumAddrs]
    /\ \A h \in Handles : connMap[h] # 0 => obj[connMap[h]].alive /\ obj[connMap[h]].handle = h
    /\ reading \in 0..NumAddrs
    /\ Len(users) <= MaxUsers
    /\ \A i \in DOMAIN users :
           users[i] \in [userId : Ids \cup {0}, validate : BOOLEAN, unValidate : SUBSET Addrs,
                         conns : [Handles -> 0..NumAddrs]]
    /\ nameMap \in [Names -> 0..Len(users)]
    /\ idMap \in [Ids -> 0..Len(users)]
    /\ requests \subseteq LoginReqs \cup AllUserReqs \cup MsgReqs
    /\ crashed \in BOOLEAN
    /\ accepted \in 0..MaxAccepts /\ asked \in 0..MaxReqs
    /\ validated \subseteq Serials /\ reused \in BOOLEAN
    /\ delivered \subseteq [type : {"allUser", "msg"}, user : Ids \cup {0}, to : Serials]

MsgInit ==
    /\ obj = [a \in Addrs |-> NoMsgConn]
    /\ connMap = [h \in Handles |-> 0]
    /\ reading = 0
    /\ users = <<>>
    /\ nameMap = [n \in Names |-> 0]
    /\ idMap = [i \in Ids |-> 0]
    /\ requests = {}
    /\ crashed = FALSE
    /\ accepted = 0 /\ asked = 0
    /\ validated = {} /\ delivered = {} /\ reused = FALSE

Idle == ~crashed /\ reading = 0

-----------------------------------------------------------------------------
\* Connections: msg_serv_callback, OnConnect, Close and the timer.

\* A new MsgConn at an address that is free, on a handle that is free.
OnConnect(a, h) ==
    /\ Idle
    /\ accepted < MaxAccepts
    /\ ~obj[a].alive /\ connMap[h] = 0
    /\ accepted' = accepted + 1
    /\ obj' = [obj EXCEPT ![a] = [alive |-> TRUE, handle |-> h, open |-> FALSE, userId |-> 0,
                                  serial |-> accepted + 1]]
    /\ connMap' = [connMap EXCEPT ![h] = a]
    /\ reused' = (reused \/ obj[a].serial # 0 \/ \E b \in Addrs : obj[b].handle = h)
    /\ UNCHANGED <<reading, tables, requests, crashed, asked, validated, delivered>>

\* The connection that bytes written to handle h reach, 0 for none.
SerialAt(h) == IF connMap[h] = 0 THEN 0 ELSE obj[connMap[h]].serial

\* netlib_close(h) and g_msg_conn_map.erase(h).  The erased MsgConn is freed,
\* unless its own OnRead is running.
CloseHandle(h) ==
    LET b == connMap[h] IN
    /\ connMap' = [connMap EXCEPT ![h] = 0]
    /\ obj' = IF b = 0 \/ b = reading THEN obj ELSE [obj EXCEPT ![b].alive = FALSE]

IsMapped(a) == obj[a].handle # 0 /\ connMap[obj[a].handle] = a

\* The client closed its connection (OnClose), or nothing came from it for
\* CLIENT_TIMEOUT (OnTimer).
ClientGone(a) ==
    /\ Idle
    /\ IsMapped(a)
    /\ CloseHandle(obj[a].handle)
    /\ UNCHANGED <<reading, tables, requests, crashed, accepted, asked, validated, reused, delivered>>

\* Mutant: the login timeout closes nothing.
LoginTimeout_Never(a) == FALSE /\ UNCHANGED msgVars

\* OnTimer: TIMEOUT_WATI_LOGIN_RESPONSE has passed and the login is not done.
LoginTimeout(a) ==
    /\ Idle
    /\ IsMapped(a)
    /\ ~obj[a].open
    /\ CloseHandle(obj[a].handle)
    /\ UNCHANGED <<reading, tables, requests, crashed, accepted, asked, validated, reused, delivered>>

-----------------------------------------------------------------------------
\* Requests of a client: OnRead handles every PDU in the buffer, even after
\* one of them closed the connection.

StartRead(a) ==
    /\ Idle
    /\ IsMapped(a)
    /\ reading' = a
    /\ UNCHANGED <<obj, connMap, tables, requests, crashed, ghosts>>

EndRead ==
    /\ ~crashed /\ reading # 0
    /\ reading' = 0
    /\ obj' = [obj EXCEPT ![reading].alive = IsMapped(reading)]
    /\ UNCHANGED <<connMap, tables, requests, crashed, ghosts>>

Reads(a) == ~crashed /\ reading = a

\* HandleLoginRequest with no usable db, login or route server: refuse, Close.
RefuseLogin(a) ==
    /\ Reads(a)
    /\ CloseHandle(obj[a].handle)
    /\ UNCHANGED <<reading, tables, requests, crashed, accepted, asked, validated, reused, delivered>>

SendToDb(r) ==
    /\ asked < MaxReqs
    /\ asked' = asked + 1
    /\ requests' = requests \cup {r}

HandleLoginRequest(a, name) ==
    LET known == nameMap[name] # 0
        i == IF known THEN nameMap[name] ELSE Len(users) + 1
        us == IF known THEN users ELSE Append(users, NewImUser)
    IN  /\ Reads(a)
        /\ SendToDb([type |-> "login", name |-> name, handle |-> obj[a].handle,
                     serial |-> obj[a].serial, n |-> asked + 1])
        /\ users' = [us EXCEPT ![i].unValidate = @ \cup {a}]
        /\ nameMap' = [nameMap EXCEPT ![name] = i]
        /\ UNCHANGED <<obj, connMap, reading, idMap, crashed, accepted, validated, reused,
                       delivered>>

HandleBuddyListAllUserRequest(a) ==
    /\ Reads(a)
    /\ SendToDb([type |-> "allUser", user |-> obj[a].userId, handle |-> obj[a].handle,
                 serial |-> obj[a].serial, n |-> asked + 1])
    /\ UNCHANGED <<obj, connMap, reading, tables, crashed, accepted, validated, reused,
                   delivered>>

HandleClientMsgData(a, to) ==
    /\ Reads(a)
    /\ SendToDb([type |-> "msg", to |-> to, n |-> asked + 1])
    /\ UNCHANGED <<obj, connMap, reading, tables, crashed, accepted, validated, reused,
                   delivered>>

-----------------------------------------------------------------------------
\* Answers of db_proxy_server: DBServConn::HandlePdu.

\* GetUnValidateMsgConn: the first pointer of the set, in address order,
\* whose handle_ matches; 0 for none.
GetUnValidateMsgConn(i, h) ==
    LET match == {a \in users[i].unValidate : obj[a].handle = h} IN
    IF match = {} THEN 0 ELSE Min(match)

\* ImUser::GetMsgConn(): the entry of the lowest handle; 0 for none.
GetMsgConn(i) ==
    LET used == {h \in Handles : users[i].conns[h] # 0} IN
    IF used = {} THEN 0 ELSE users[i].conns[Min(used)]

\* The pointers the handler of answer r reads through.
Followed(r) ==
    CASE r.type = "login" /\ nameMap[r.name] # 0 ->
             LET m == GetUnValidateMsgConn(nameMap[r.name], r.handle) IN
             {a \in users[nameMap[r.name]].unValidate : m = 0 \/ a <= m}
      [] r.type = "allUser" /\ r.user # 0 /\ r.user \in {i \in Ids : idMap[i] # 0} ->
             {users[idMap[r.user]].conns[r.handle]} \ {0}
      [] r.type = "msg" /\ idMap[r.to] # 0 -> {GetMsgConn(idMap[r.to])} \ {0}
      [] OTHER -> {}

\* The handler follows a pointer to a freed MsgConn and the process goes down.
\* (An answer that is lost with its DBServConn is one that never comes.)
CrashOnDangling(r) ==
    /\ Idle
    /\ \E a \in Followed(r) : ~obj[a].alive
    /\ crashed' = TRUE
    /\ UNCHANGED <<obj, connMap, reading, tables, requests, ghosts>>

\* OnConfirm of a LoginServConn or RouteServConn counts the open connections of
\* all validated users (GetUserConnCnt, GetOnlineUserInfo) and meets one that
\* was freed; otherwise the report changes nothing here.
CrashOnReport ==
    /\ Idle
    /\ \E i \in {idMap[id] : id \in Ids} \ {0}, h \in Handles :
           users[i].conns[h] # 0 /\ ~obj[users[i].conns[h]].alive
    /\ crashed' = TRUE
    /\ UNCHANGED <<obj, connMap, reading, tables, requests, ghosts>>

Write(type, user, a) ==
    IF SerialAt(obj[a].handle) = 0 THEN delivered
    ELSE delivered \cup {[type |-> type, user |-> user, to |-> SerialAt(obj[a].handle)]}

\* The MsgConn a login answer is for: 0 when there is no such conn any more.
Unvalidated(r) ==
    IF nameMap[r.name] = 0 THEN 0 ELSE GetUnValidateMsgConn(nameMap[r.name], r.handle)

\* Mutant: the answer is applied to a connection that is open already.
MayValidate_Open(a) == a # 0

\* "no such conn is validated"
MayValidate(a) == a # 0 /\ ~obj[a].open

IgnoreLoginAnswer(r) ==
    /\ Idle
    /\ r.type = "login"
    /\ ~MayValidate(Unvalidated(r))
    /\ requests' = requests \ {r}
    /\ UNCHANGED <<obj, connMap, reading, tables, crashed, ghosts>>

\* A refusal: it is sent and the MsgConn closed; the pointer stays in
\* unValidateConnSet_.
LoginRefused(r) ==
    LET a == Unvalidated(r) IN
    /\ Idle
    /\ r.type = "login"
    /\ MayValidate(a)
    /\ requests' = requests \ {r}
    /\ CloseHandle(obj[a].handle)
    /\ UNCHANGED <<reading, tables, crashed, accepted, asked, validated, reused, delivered>>

\* AddImUserById: an id that is there already keeps its ImUser.
RegisterId(id, i) == IF idMap[id] = 0 THEN [idMap EXCEPT ![id] = i] ELSE idMap

\* Mutant: AddMsgConn is forgotten.
AddMsgConn_Forgets(u, h, a) == u

AddMsgConn(u, h, a) == [u EXCEPT !.conns[h] = a]

\* HandleLoginValidResponse with result_code 0: i is the ImUser of the name,
\* j the one that already has the id, if any.
LoginAccepted(r) ==
    LET a == Unvalidated(r)
        h == obj[a].handle
        id == IdOf[r.name]
        i == nameMap[r.name]
        j == IF idMap[id] = 0 THEN i ELSE idMap[id]
        Drop(u) == [u EXCEPT !.unValidate = @ \ {a}]
        us == [k \in DOMAIN users |-> IF k \in {i, j} THEN Drop(users[k]) ELSE users[k]]
    IN  /\ Idle
        /\ r.type = "login"
        /\ MayValidate(a)
        /\ requests' = requests \ {r}
        /\ users' = [us EXCEPT ![j] = AddMsgConn([@ EXCEPT !.userId = id, !.validate = TRUE], h, a)]
        /\ nameMap' = IF idMap[id] # 0 /\ GetMsgConn(i) = 0 THEN [nameMap EXCEPT ![r.name] = 0]
                      ELSE nameMap
        /\ idMap' = RegisterId(id, j)
        /\ obj' = [obj EXCEPT ![a].userId = id, ![a].open = TRUE]
        /\ validated' = validated \cup {r.serial}
        /\ UNCHANGED <<connMap, reading, crashed, accepted, asked, reused, delivered>>

HandleBuddyListAllUserResponse(r) ==
    /\ Idle
    /\ r.type = "allUser"
    /\ LET i == IF r.user = 0 THEN 0 ELSE idMap[r.user]
           a == IF i = 0 THEN 0 ELSE users[i].conns[r.handle]
       IN  delivered' = IF a # 0 /\ obj[a].open THEN Write("allUser", r.user, a) ELSE delivered
    /\ requests' = requests \ {r}
    /\ UNCHANGED <<obj, connMap, reading, tables, crashed, accepted, asked, validated, reused>>

\* Mutant: the message goes to the first user's connection, whoever it is for.
MsgTarget_AnyUser(to) == IF users = <<>> THEN 0 ELSE GetMsgConn(1)

\* The MsgConn a message for user id "to" is written to, 0 when offline.
MsgTarget(to) == IF idMap[to] = 0 THEN 0 ELSE GetMsgConn(idMap[to])

HandleSessionMsg(r) ==
    /\ Idle
    /\ r.type = "msg"
    /\ LET a == MsgTarget(r.to) IN
       delivered' = IF a # 0 /\ obj[a].open THEN Write("msg", r.to, a) ELSE delivered
    /\ requests' = requests \ {r}
    /\ UNCHANGED <<obj, connMap, reading, tables, crashed, accepted, asked, validated, reused>>

-----------------------------------------------------------------------------
Client(a) ==
    \/ StartRead(a)
    \/ RefuseLogin(a)
    \/ \E name \in Names : HandleLoginRequest(a, name)
    \/ HandleBuddyListAllUserRequest(a)
    \/ \E to \in Ids : HandleClientMsgData(a, to)

Answer(r) ==
    \/ CrashOnDangling(r)
    \/ IgnoreLoginAnswer(r)
    \/ LoginRefused(r)
    \/ LoginAccepted(r)
    \/ HandleBuddyListAllUserResponse(r)
    \/ HandleSessionMsg(r)

MsgNext ==
    \/ \E a \in Addrs, h \in Handles : OnConnect(a, h)
    \/ \E a \in Addrs : ClientGone(a) \/ LoginTimeout(a) \/ Client(a)
    \/ EndRead
    \/ CrashOnReport
    \/ \E r \in requests : Answer(r)

MsgSpec == MsgInit /\ [][MsgNext]_msgVars

\* A handler returns, and the event loop runs CheckTimer in every round, so
\* the reads of clients cannot keep msg_conn_timer_callback, which visits every
\* connection, from running again and again.
MsgFairSpec ==
    /\ MsgSpec
    /\ WF_msgVars(EndRead)
    /\ \A a \in Addrs : SF_msgVars(LoginTimeout(a))

-----------------------------------------------------------------------------
\* ImUserManager's id table is sound: the ImUser filed under an id is
\* validated, has that id, and every connection in its connMap_ that is still
\* open was opened as that user.
UserIdMapSound ==
    \A id \in Ids : idMap[id] # 0 =>
        LET u == users[idMap[id]] IN
        /\ u.userId = id /\ u.validate
        /\ ~reused => \A h \in Handles : u.conns[h] # 0 =>
               obj[u.conns[h]].open /\ obj[u.conns[h]].userId = id /\ obj[u.conns[h]].handle = h

\* An open connection can be found: its user's connMap_ has it under its
\* handle, so messages and user lists reach it (until a handle is reused).
OpenConnFound ==
    ~reused => \A a \in Addrs :
        IsMapped(a) /\ obj[a].open =>
            /\ idMap[obj[a].userId] # 0
            /\ users[idMap[obj[a].userId]].conns[obj[a].handle] = a

\* What is written for a user goes to a connection that user logged in on (until
\* a handle or the memory of a MsgConn is reused).
DeliveredToOwner ==
    ~reused => \A m \in delivered :
        \E a \in Addrs : obj[a].serial = m.to /\ obj[a].open /\ obj[a].userId = m.user

\* A connection keeps the identity it was opened with, whatever logins are
\* sent on it afterwards.
IdentityStable ==
    [][\A a \in Addrs : IsMapped(a) /\ obj[a].open /\ obj'[a].serial = obj[a].serial
           => obj'[a].open /\ obj'[a].userId = obj[a].userId]_msgVars

HalfOpen(s) == \E a \in Addrs : IsMapped(a) /\ obj[a].serial = s /\ ~obj[a].open

\* No connection stays half-open: it is validated or closed.
EveryConnSettles ==
    \A s \in Serials : HalfOpen(s) ~> ~HalfOpen(s) \/ crashed

\* "only db validate passed will be set to true" (open_ in msg_conn.h): a
\* connection is open only when the database accepted a login it sent.
OpenOnlyValidated ==
    \A a \in Addrs : IsMapped(a) /\ obj[a].open => obj[a].serial \in validated
=============================================================================
