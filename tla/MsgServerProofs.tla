--------------------------- MODULE MsgServerProofs ---------------------------
(***************************************************************************)
(* msg_server's tables, for any number of connections, names, users and    *)
(* requests: an id finds its own ImUser, an open connection is found and   *)
(* keeps its user, and what is written for a user goes to that user.       *)
(***************************************************************************)
EXTENDS MsgServer, WellFoundedInduction, TLAPS

-----------------------------------------------------------------------------
\* The inductive invariant.

ImUsers == [userId : Ids \cup {0}, validate : BOOLEAN, unValidate : SUBSET Addrs,
            conns : [Handles -> 0..NumAddrs]]

TablesTypeOK ==
    /\ obj \in [Addrs -> MsgConns]
    /\ connMap \in [Handles -> 0..NumAddrs]
    /\ reading \in 0..NumAddrs
    /\ users \in Seq(ImUsers)
    /\ nameMap \in [Names -> 0..Len(users)]
    /\ idMap \in [Ids -> 0..Len(users)]
    /\ requests \subseteq LoginReqs \cup AllUserReqs \cup MsgReqs
    /\ accepted \in 0..MaxAccepts /\ asked \in 0..MaxReqs

\* g_msg_conn_map owns its MsgConns, and OnRead runs on one that is there.
MapOwns ==
    /\ \A h \in Handles : connMap[h] # 0 => obj[connMap[h]].alive /\ obj[connMap[h]].handle = h
    /\ reading # 0 => obj[reading].alive /\ obj[reading].handle # 0

\* An address has been used if and only if a connection was accepted there; as
\* long as nothing is used twice, a handle stands for one MsgConn.
FirstUse ==
    /\ \A a \in Addrs :
           /\ obj[a].serial = 0 <=> obj[a].handle = 0
           /\ obj[a].serial = 0 => ~obj[a].open
           /\ obj[a].serial <= accepted
    /\ ~reused => \A a, b \in Addrs : obj[a].handle = obj[b].handle /\ obj[a].handle # 0 => a = b

\* Each name has an ImUser of its own, which is filed under no id but the one
\* the database finds for that name.
NamesApart ==
    /\ \A n, m \in Names : nameMap[n] = nameMap[m] /\ nameMap[n] # 0 => n = m
    /\ \A n \in Names, id \in Ids : nameMap[n] = idMap[id] /\ nameMap[n] # 0 => IdOf[n] = id

\* An ImUser has connections only once it is filed under its id, and they were
\* opened as that user.
ConnsOfUser ==
    \A k \in DOMAIN users, h \in Handles : users[k].conns[h] # 0 =>
        /\ users[k].userId \in Ids /\ idMap[users[k].userId] = k
        /\ ~reused => LET o == obj[users[k].conns[h]] IN
                      o.open /\ o.userId = users[k].userId /\ o.handle = h

\* An open connection is in the connMap_ of the user it was opened as, also
\* after it has gone.
OpenFiled ==
    ~reused => \A a \in Addrs : obj[a].open =>
        /\ obj[a].userId \in Ids /\ idMap[obj[a].userId] # 0
        /\ users[idMap[obj[a].userId]].conns[obj[a].handle] = a

IdsFiled ==
    \A id \in Ids : idMap[id] # 0 => users[idMap[id]].userId = id /\ users[idMap[id]].validate

MsgInv ==
    /\ TablesTypeOK /\ MapOwns /\ FirstUse /\ NamesApart /\ IdsFiled /\ ConnsOfUser
    /\ OpenFiled /\ DeliveredToOwner

-----------------------------------------------------------------------------
\* The constants and the types, one by one.
LEMMA MsgConstants ==
    /\ NumAddrs \in Nat /\ NumHandles \in Nat /\ MaxAccepts \in Nat /\ MaxReqs \in Nat
    /\ Ids \subseteq Nat \ {0} /\ \A n \in Names : IdOf[n] \in Ids
BY MsgAssumption

LEMMA ConnFields ==
    ASSUME TablesTypeOK, NEW a \in Addrs
    PROVE  /\ obj[a] \in MsgConns
           /\ obj[a].handle \in Nat /\ (obj[a].handle # 0 => obj[a].handle \in Handles)
           /\ obj[a].userId \in Ids \cup {0} /\ obj[a].serial \in Nat
BY MsgConstants DEF TablesTypeOK, MsgConns, Handles

LEMMA UserFields ==
    ASSUME TablesTypeOK, NEW k \in 1..Len(users)
    PROVE  /\ users[k] \in ImUsers
           /\ users[k].userId \in Ids \cup {0} /\ users[k].unValidate \subseteq Addrs
           /\ users[k].conns \in [Handles -> 0..NumAddrs]
           /\ \A h \in Handles : users[k].conns[h] # 0 => users[k].conns[h] \in Addrs
<1>1. users[k] \in ImUsers
  BY DEF TablesTypeOK
<1>2. users[k].userId \in Ids \cup {0} /\ users[k].unValidate \subseteq Addrs
      /\ users[k].conns \in [Handles -> 0..NumAddrs]
  BY <1>1 DEF ImUsers
<1>3. \A h \in Handles : users[k].conns[h] # 0 => users[k].conns[h] \in Addrs
  BY <1>2, MsgConstants DEF Addrs
<1>. QED
  BY <1>1, <1>2, <1>3

LEMMA MapValues ==
    ASSUME TablesTypeOK
    PROVE  /\ Len(users) \in Nat /\ DOMAIN users = 1..Len(users)
           /\ \A h \in Handles : connMap[h] # 0 => connMap[h] \in Addrs
           /\ \A n \in Names : nameMap[n] # 0 => nameMap[n] \in 1..Len(users)
           /\ \A id \in Ids : idMap[id] # 0 => idMap[id] \in 1..Len(users)
BY MsgConstants DEF TablesTypeOK, Addrs

\* A new ImUser has no connection.
LEMMA NewUserIs == NewImUser \in ImUsers /\ \A h \in Handles : NewImUser.conns[h] = 0
<1>. DEFINE c == [h \in Handles |-> 0]
<1>1. c \in [Handles -> 0..NumAddrs] /\ \A h \in Handles : c[h] = 0
  BY MsgConstants
<1>2. NewImUser = [userId |-> 0, validate |-> FALSE, unValidate |-> {}, conns |-> c]
  BY DEF NewImUser
<1>. HIDE DEF c
<1>. QED
  BY <1>1, <1>2 DEF ImUsers

\* One element of a sequence is replaced.
LEMMA SeqExcept ==
    ASSUME NEW S, NEW q \in Seq(S), NEW i \in 1..Len(q), NEW x \in S,
           NEW p, p = [q EXCEPT ![i] = x]
    PROVE  /\ p \in Seq(S) /\ Len(p) = Len(q) /\ p[i] = x
           /\ \A k \in 1..Len(q) : k # i => p[k] = q[k]
<1>1. q \in [1..Len(q) -> S] /\ Len(q) \in Nat
  OBVIOUS
<1>2. p \in [1..Len(q) -> S] /\ p[i] = x /\ \A k \in 1..Len(q) : k # i => p[k] = q[k]
  BY <1>1
<1>3. p \in Seq(S) /\ Len(p) = Len(q)
  BY <1>1, <1>2
<1>. QED
  BY <1>2, <1>3

\* The first of a set that is not empty: begin() of a std::set or std::map.
LEMMA MinIsIn ==
    ASSUME NEW S, S \subseteq Nat, S # {}
    PROVE  Min(S) \in S
<1>1. PICK x \in S : \A y \in S : ~(<<y, x>> \in OpToRel(<, Nat))
  BY NatLessThanWellFounded, WFMin
<1>2. ASSUME NEW y \in S, y < x PROVE FALSE
  <2>1. <<y, x>> \in OpToRel(<, Nat)
    BY <1>2 DEF OpToRel
  <2>. QED
    BY <1>1, <2>1
<1>3. \A y \in S : x <= y
  BY <1>2
<1>. QED
  BY <1>3 DEF Min

\* A pointer that GetUnValidateMsgConn returns is to a MsgConn with that handle.
LEMMA UnvalidatedIs ==
    ASSUME TablesTypeOK, NEW r \in requests, r.type = "login", Unvalidated(r) # 0
    PROVE  /\ Unvalidated(r) \in Addrs /\ r.name \in Names /\ nameMap[r.name] \in 1..Len(users)
           /\ r.handle \in Handles /\ obj[Unvalidated(r)].handle = r.handle
<1>1. r \in LoginReqs
  BY DEF TablesTypeOK, LoginReqs, AllUserReqs, MsgReqs
<1>2. r.name \in Names /\ r.handle \in Handles
  BY <1>1 DEF LoginReqs
<1>3. nameMap[r.name] \in 1..Len(users)
  BY <1>2, MapValues DEF Unvalidated
<1>. DEFINE match == {a \in users[nameMap[r.name]].unValidate : obj[a].handle = r.handle}
<1>4. Unvalidated(r) = Min(match) /\ match # {}
  BY DEF Unvalidated, GetUnValidateMsgConn
<1>5. match \subseteq Addrs
  BY <1>3, UserFields
<1>6. Min(match) \in match
  <2>1. match \subseteq Nat
    BY <1>5, MsgConstants DEF Addrs
  <2>. HIDE DEF match
  <2>. QED
    BY <2>1, <1>4, MinIsIn
<1>. QED
  BY <1>2, <1>3, <1>4, <1>5, <1>6

\* A pointer that GetMsgConn returns is one of the user's connections.
LEMMA GetMsgConnIs ==
    ASSUME TablesTypeOK, NEW k \in 1..Len(users), GetMsgConn(k) # 0
    PROVE  \E h \in Handles : users[k].conns[h] = GetMsgConn(k)
<1>. DEFINE used == {h \in Handles : users[k].conns[h] # 0}
<1>1. GetMsgConn(k) = users[k].conns[Min(used)] /\ used # {}
  BY DEF GetMsgConn
<1>2. used \subseteq Nat
  BY MsgConstants DEF Handles
<1>3. Min(used) \in used
  <2>. HIDE DEF used
  <2>. QED
    BY <1>1, <1>2, MinIsIn
<1>. QED
  BY <1>1, <1>3

-----------------------------------------------------------------------------
\* A step that leaves the tables alone and keeps whose every MsgConn is keeps
\* all of the invariant but who owns what.
SameConns ==
    \A a \in Addrs : /\ obj'[a].handle = obj[a].handle /\ obj'[a].open = obj[a].open
                     /\ obj'[a].userId = obj[a].userId /\ obj'[a].serial = obj[a].serial

LEMMA TablesFrame ==
    ASSUME MsgInv, SameConns, TablesTypeOK', MapOwns',
           UNCHANGED <<tables, accepted, reused, delivered>>
    PROVE  MsgInv'
<1>. USE DEF tables
<1>1. FirstUse'
  BY DEF MsgInv, FirstUse, SameConns
<1>2. NamesApart' /\ IdsFiled'
  BY DEF MsgInv, NamesApart, IdsFiled
<1>3. ConnsOfUser'
  <2>. SUFFICES ASSUME NEW k \in DOMAIN users, NEW h \in Handles, users[k].conns[h] # 0
                PROVE  /\ users[k].userId \in Ids /\ idMap[users[k].userId] = k
                       /\ ~reused => /\ obj'[users[k].conns[h]].open
                                     /\ obj'[users[k].conns[h]].userId = users[k].userId
                                     /\ obj'[users[k].conns[h]].handle = h
    BY DEF ConnsOfUser
  <2>1. users[k].conns[h] \in Addrs
    BY UserFields, MapValues DEF MsgInv
  <2>. QED
    BY <2>1 DEF MsgInv, ConnsOfUser, SameConns
<1>4. OpenFiled'
  BY DEF MsgInv, OpenFiled, SameConns
<1>5. DeliveredToOwner'
  BY DEF MsgInv, DeliveredToOwner, SameConns
<1>. QED
  BY <1>1, <1>2, <1>3, <1>4, <1>5 DEF MsgInv

\* Close: the handle is free, its MsgConn too unless its OnRead is running.
LEMMA CloseFacts ==
    ASSUME MsgInv, NEW h \in Handles, CloseHandle(h), UNCHANGED reading
    PROVE  SameConns /\ MapOwns' /\ obj' \in [Addrs -> MsgConns] /\ connMap' \in [Handles -> 0..NumAddrs]
<1>. DEFINE b == connMap[h]
<1>1. obj \in [Addrs -> MsgConns] /\ connMap \in [Handles -> 0..NumAddrs]
  BY DEF MsgInv, TablesTypeOK
<1>2. connMap' = [connMap EXCEPT ![h] = 0] /\ connMap' \in [Handles -> 0..NumAddrs]
  BY <1>1, MsgConstants DEF CloseHandle
<1>3. CASE b = 0 \/ b = reading
  <2>1. obj' = obj
    BY <1>3 DEF CloseHandle
  <2>. QED
    BY <1>1, <1>2, <2>1 DEF MsgInv, MapOwns, SameConns
<1>4. CASE b # 0 /\ b # reading
  <2>1. b \in Addrs /\ obj' = [obj EXCEPT ![b].alive = FALSE]
    BY <1>4, MapValues DEF CloseHandle, MsgInv
  <2>. HIDE DEF b
  <2>2. SameConns /\ obj' \in [Addrs -> MsgConns]
    BY <1>1, <2>1 DEF SameConns, MsgConns
  <2>3. \A a \in Addrs \ {b} : obj'[a] = obj[a]
    BY <1>1, <2>1
  <2>4. \A g \in Handles \ {h} : connMap[g] # 0 => connMap[g] \in Addrs \ {b}
    BY MapValues DEF b, MsgInv, MapOwns
  <2>5. reading # 0 => reading \in Addrs \ {b}
    BY <1>4, MsgConstants DEF MsgInv, TablesTypeOK, Addrs
  <2>. QED
    BY <1>1, <1>2, <2>2, <2>3, <2>4, <2>5 DEF MsgInv, MapOwns
<1>. QED
  BY <1>3, <1>4

LEMMA CloseInv ==
    ASSUME MsgInv, NEW h \in Handles, CloseHandle(h), requests' \subseteq requests,
           UNCHANGED <<reading, tables, accepted, asked, reused, delivered>>
    PROVE  MsgInv'
<1>1. SameConns /\ MapOwns' /\ obj' \in [Addrs -> MsgConns] /\ connMap' \in [Handles -> 0..NumAddrs]
  BY CloseFacts
<1>2. TablesTypeOK'
  BY <1>1 DEF MsgInv, TablesTypeOK, tables
<1>. QED
  BY <1>1, <1>2, TablesFrame

\* The client goes, or its login takes too long.
LEMMA GoneInv ==
    ASSUME MsgInv, NEW a \in Addrs, ClientGone(a) \/ LoginTimeout(a)
    PROVE  MsgInv'
<1>1. obj[a].handle \in Handles
  BY ConnFields DEF MsgInv, ClientGone, LoginTimeout, IsMapped
<1>. QED
  BY <1>1, CloseInv DEF ClientGone, LoginTimeout

\* OnRead begins and ends.
LEMMA StartReadInv ==
    ASSUME MsgInv, NEW a \in Addrs, StartRead(a)
    PROVE  MsgInv'
<1>1. TablesTypeOK' /\ SameConns
  BY MsgConstants DEF MsgInv, TablesTypeOK, StartRead, SameConns, tables, ghosts, Addrs
<1>2. MapOwns'
  BY ConnFields DEF MsgInv, MapOwns, StartRead, IsMapped
<1>. QED
  BY <1>1, <1>2, TablesFrame DEF StartRead, ghosts

LEMMA EndReadInv ==
    ASSUME MsgInv, EndRead
    PROVE  MsgInv'
<1>1. obj \in [Addrs -> MsgConns] /\ reading \in Addrs
  BY MsgConstants DEF MsgInv, TablesTypeOK, EndRead, Addrs
<1>. DEFINE m == IsMapped(reading)
<1>2. obj' = [obj EXCEPT ![reading].alive = m] /\ m \in BOOLEAN
  BY DEF EndRead, IsMapped
<1>3. m <=> IsMapped(reading)
  OBVIOUS
<1>. HIDE DEF m
<1>4. obj' \in [Addrs -> MsgConns] /\ SameConns
  BY <1>1, <1>2 DEF SameConns, MsgConns
<1>5. TablesTypeOK'
  BY <1>4, MsgConstants DEF MsgInv, TablesTypeOK, EndRead, tables, ghosts
<1>6. \A b \in Addrs \ {reading} : obj'[b] = obj[b]
  BY <1>1, <1>2
<1>7. MapOwns'
  <2>. SUFFICES ASSUME NEW h \in Handles, connMap[h] # 0
                PROVE  obj'[connMap[h]].alive /\ obj'[connMap[h]].handle = h
    BY DEF MapOwns, EndRead
  <2>1. connMap[h] \in Addrs /\ obj[connMap[h]].alive /\ obj[connMap[h]].handle = h
    BY MapValues DEF MsgInv, MapOwns
  <2>2. CASE connMap[h] = reading
    <3>1. m
      BY <1>3, <2>1, <2>2, MsgConstants DEF IsMapped, Handles
    <3>. QED
      BY <1>1, <1>2, <1>4, <2>1, <2>2, <3>1 DEF SameConns
  <2>3. CASE connMap[h] # reading
    BY <1>6, <2>1, <2>3
  <2>. QED
    BY <2>2, <2>3
<1>. QED
  BY <1>4, <1>5, <1>7, TablesFrame DEF EndRead, ghosts

\* A login is refused, by msg_server or by the database.
LEMMA RefuseLoginInv ==
    ASSUME MsgInv, NEW a \in Addrs, RefuseLogin(a)
    PROVE  MsgInv'
<1>1. obj[a].handle \in Handles
  BY ConnFields, MsgConstants DEF MsgInv, MapOwns, RefuseLogin, Reads, Addrs
<1>. QED
  BY <1>1, CloseInv DEF RefuseLogin

LEMMA LoginRefusedInv ==
    ASSUME MsgInv, NEW r \in requests, LoginRefused(r)
    PROVE  MsgInv'
<1>. DEFINE a == Unvalidated(r)
<1>1. a # 0 /\ r.type = "login"
  BY DEF LoginRefused, MayValidate
<1>2. obj[a].handle \in Handles
  BY <1>1, UnvalidatedIs DEF MsgInv
<1>3. CloseHandle(obj[a].handle) /\ requests' \subseteq requests
  BY DEF LoginRefused
<1>. QED
  BY <1>2, <1>3, CloseInv DEF LoginRefused

\* A step that changes nothing but the requests.
LEMMA RequestsInv ==
    ASSUME MsgInv, requests' \subseteq LoginReqs \cup AllUserReqs \cup MsgReqs, asked' \in 0..MaxReqs,
           UNCHANGED <<obj, connMap, reading, tables, accepted, reused, delivered>>
    PROVE  MsgInv'
<1>1. TablesTypeOK' /\ SameConns /\ MapOwns'
  BY DEF MsgInv, TablesTypeOK, SameConns, MapOwns, tables
<1>. QED
  BY <1>1, TablesFrame

LEMMA SendInv ==
    ASSUME MsgInv, NEW r \in AllUserReqs \cup MsgReqs, SendToDb(r),
           UNCHANGED <<obj, connMap, reading, tables, accepted, reused, delivered>>
    PROVE  MsgInv'
<1>1. asked' \in 0..MaxReqs /\ requests' \subseteq LoginReqs \cup AllUserReqs \cup MsgReqs
  BY MsgConstants DEF MsgInv, TablesTypeOK, SendToDb
<1>. QED
  BY <1>1, RequestsInv

\* The connection whose OnRead is running has a handle and a serial.
LEMMA ReadsFacts ==
    ASSUME MsgInv, NEW a \in Addrs, Reads(a), asked < MaxReqs
    PROVE  obj[a].handle \in Handles /\ obj[a].serial \in Serials /\ asked + 1 \in 1..MaxReqs
<1>1. reading # 0 /\ obj[a].handle \in Handles /\ obj[a].handle # 0
  BY ConnFields, MsgConstants DEF MsgInv, MapOwns, Reads, Addrs
<1>2. obj[a].serial # 0 /\ obj[a].serial <= accepted /\ obj[a].serial \in Nat /\ accepted <= MaxAccepts
  BY <1>1, ConnFields DEF MsgInv, FirstUse, TablesTypeOK
<1>3. asked + 1 \in 1..MaxReqs
  BY MsgConstants DEF MsgInv, TablesTypeOK
<1>. QED
  BY <1>1, <1>2, <1>3, MsgConstants DEF Serials, MsgInv, TablesTypeOK

LEMMA BuddyListRequestInv ==
    ASSUME MsgInv, NEW a \in Addrs, HandleBuddyListAllUserRequest(a)
    PROVE  MsgInv'
<1>. DEFINE r == [type |-> "allUser", user |-> obj[a].userId, handle |-> obj[a].handle,
                  serial |-> obj[a].serial, n |-> asked + 1]
<1>1. Reads(a) /\ SendToDb(r) /\ asked < MaxReqs
  BY DEF HandleBuddyListAllUserRequest, SendToDb
<1>2. r \in AllUserReqs
  BY <1>1, ReadsFacts, ConnFields DEF MsgInv, AllUserReqs
<1>. HIDE DEF r
<1>. QED
  BY <1>1, <1>2, SendInv DEF HandleBuddyListAllUserRequest

LEMMA ClientMsgDataInv ==
    ASSUME MsgInv, NEW a \in Addrs, NEW to \in Ids, HandleClientMsgData(a, to)
    PROVE  MsgInv'
<1>. DEFINE r == [type |-> "msg", to |-> to, n |-> asked + 1]
<1>1. Reads(a) /\ SendToDb(r) /\ asked < MaxReqs
  BY DEF HandleClientMsgData, SendToDb
<1>2. r \in MsgReqs
  BY <1>1, ReadsFacts DEF MsgReqs
<1>. HIDE DEF r
<1>. QED
  BY <1>1, <1>2, SendInv DEF HandleClientMsgData

LEMMA IgnoreLoginAnswerInv ==
    ASSUME MsgInv, NEW r \in requests, IgnoreLoginAnswer(r)
    PROVE  MsgInv'
<1>1. requests' \subseteq LoginReqs \cup AllUserReqs \cup MsgReqs /\ asked' \in 0..MaxReqs
  BY DEF MsgInv, TablesTypeOK, IgnoreLoginAnswer, ghosts
<1>. QED
  BY <1>1, RequestsInv DEF IgnoreLoginAnswer, ghosts

-----------------------------------------------------------------------------
\* What is written.

\* Bytes for a connection of user id, filed under id, reach that connection: its
\* handle stands for no other.
LEMMA WriteInv ==
    ASSUME MsgInv, NEW type, NEW id \in Ids, idMap[id] # 0, NEW h \in Handles,
           NEW a, a = users[idMap[id]].conns[h], a # 0,
           delivered' \in {delivered, Write(type, id, a)},
           requests' \subseteq requests,
           UNCHANGED <<obj, connMap, reading, tables, accepted, asked, reused>>
    PROVE  MsgInv'
<1>1. idMap[id] \in 1..Len(users) /\ idMap[id] \in DOMAIN users
  BY MapValues DEF MsgInv
<1>2. a \in Addrs /\ users[idMap[id]].userId = id
  BY <1>1, UserFields DEF MsgInv, IdsFiled
<1>3. ~reused => obj[a].open /\ obj[a].userId = id /\ obj[a].handle = h
  BY <1>1, <1>2 DEF MsgInv, ConnsOfUser
<1>4. ~reused /\ connMap[h] # 0 => connMap[h] = a
  <2>1. connMap[h] # 0 => connMap[h] \in Addrs /\ obj[connMap[h]].handle = h
    BY MapValues DEF MsgInv, MapOwns
  <2>2. h # 0
    BY MsgConstants DEF Handles
  <2>. QED
    BY <1>2, <1>3, <2>1, <2>2 DEF MsgInv, FirstUse
<1>5. DeliveredToOwner'
  <2>. SUFFICES ASSUME ~reused, NEW m \in delivered'
                PROVE  \E b \in Addrs : obj[b].serial = m.to /\ obj[b].open /\ obj[b].userId = m.user
    BY DEF DeliveredToOwner
  <2>1. CASE m \in delivered
    BY <2>1 DEF MsgInv, DeliveredToOwner
  <2>2. CASE m \notin delivered
    <3>1. m = [type |-> type, user |-> id, to |-> SerialAt(obj[a].handle)] /\ SerialAt(obj[a].handle) # 0
      BY <2>2 DEF Write
    <3>2. SerialAt(obj[a].handle) = obj[a].serial
      BY <1>3, <1>4, <3>1 DEF SerialAt
    <3>. QED
      BY <1>2, <1>3, <3>1, <3>2
  <2>. QED
    BY <2>1, <2>2
<1>6. TablesTypeOK' /\ MapOwns' /\ FirstUse' /\ NamesApart' /\ IdsFiled' /\ ConnsOfUser' /\ OpenFiled'
  BY DEF MsgInv, TablesTypeOK, MapOwns, FirstUse, NamesApart, IdsFiled, ConnsOfUser, OpenFiled, tables
<1>. QED
  BY <1>5, <1>6 DEF MsgInv

LEMMA AllUserResponseInv ==
    ASSUME MsgInv, NEW r \in requests, HandleBuddyListAllUserResponse(r)
    PROVE  MsgInv'
<1>1. r \in AllUserReqs
  BY DEF MsgInv, TablesTypeOK, LoginReqs, AllUserReqs, MsgReqs, HandleBuddyListAllUserResponse
<1>2. r.user \in Ids \cup {0} /\ r.handle \in Handles
  BY <1>1 DEF AllUserReqs
<1>3. /\ requests' \subseteq LoginReqs \cup AllUserReqs \cup MsgReqs /\ asked' \in 0..MaxReqs
      /\ requests' \subseteq requests
      /\ UNCHANGED <<obj, connMap, reading, tables, accepted, asked, reused>>
  BY DEF MsgInv, TablesTypeOK, HandleBuddyListAllUserResponse
<1>4. CASE delivered' = delivered
  BY <1>3, <1>4, RequestsInv
<1>5. CASE delivered' # delivered
  <2>. DEFINE a == users[idMap[r.user]].conns[r.handle]
  <2>1. r.user \in Ids /\ idMap[r.user] # 0 /\ a # 0 /\ delivered' = Write("allUser", r.user, a)
    BY <1>2, <1>5 DEF HandleBuddyListAllUserResponse
  <2>. QED
    BY <1>2, <1>3, <2>1, WriteInv
<1>. QED
  BY <1>4, <1>5

LEMMA SessionMsgInv ==
    ASSUME MsgInv, NEW r \in requests, HandleSessionMsg(r)
    PROVE  MsgInv'
<1>1. r \in MsgReqs
  BY DEF MsgInv, TablesTypeOK, LoginReqs, AllUserReqs, MsgReqs, HandleSessionMsg
<1>2. r.to \in Ids
  BY <1>1 DEF MsgReqs
<1>3. /\ requests' \subseteq LoginReqs \cup AllUserReqs \cup MsgReqs /\ asked' \in 0..MaxReqs
      /\ requests' \subseteq requests
      /\ UNCHANGED <<obj, connMap, reading, tables, accepted, asked, reused>>
  BY DEF MsgInv, TablesTypeOK, HandleSessionMsg
<1>4. CASE delivered' = delivered
  BY <1>3, <1>4, RequestsInv
<1>5. CASE delivered' # delivered
  <2>. DEFINE a == GetMsgConn(idMap[r.to])
  <2>1. idMap[r.to] # 0 /\ a # 0 /\ delivered' = Write("msg", r.to, a)
    BY <1>2, <1>5 DEF HandleSessionMsg, MsgTarget
  <2>2. PICK h \in Handles : users[idMap[r.to]].conns[h] = a
    BY <1>2, <2>1, MapValues, GetMsgConnIs DEF MsgInv
  <2>. QED
    BY <1>2, <1>3, <2>1, <2>2, WriteInv
<1>. QED
  BY <1>4, <1>5

-----------------------------------------------------------------------------
\* A new MsgConn: while nothing is used twice, no table points to its address.
LEMMA OnConnectInv ==
    ASSUME MsgInv, NEW a \in Addrs, NEW h \in Handles, OnConnect(a, h)
    PROVE  MsgInv'
<1>. DEFINE new == [alive |-> TRUE, handle |-> h, open |-> FALSE, userId |-> 0, serial |-> accepted + 1]
<1>1. obj \in [Addrs -> MsgConns] /\ accepted \in Nat /\ accepted + 1 \in 0..MaxAccepts /\ h \in Nat \ {0}
  BY MsgConstants DEF MsgInv, TablesTypeOK, OnConnect, Handles
<1>2. obj' = [obj EXCEPT ![a] = new] /\ new \in MsgConns
  BY <1>1 DEF OnConnect, MsgConns, Handles
<1>3. obj' \in [Addrs -> MsgConns] /\ obj'[a] = new /\ \A b \in Addrs \ {a} : obj'[b] = obj[b]
  BY <1>1, <1>2
<1>4. new.alive /\ new.handle = h /\ ~new.open /\ new.serial = accepted + 1
  OBVIOUS
<1>. HIDE DEF new
<1>5. /\ accepted' = accepted + 1 /\ connMap' = [connMap EXCEPT ![h] = a]
      /\ UNCHANGED <<reading, users, nameMap, idMap, requests, asked, delivered>>
      /\ reading = 0 /\ ~obj[a].alive
  BY DEF OnConnect, Idle, tables
<1>6. ~reused' => ~reused /\ obj[a].serial = 0 /\ ~obj[a].open /\ \A b \in Addrs : obj[b].handle # h
  BY DEF OnConnect, MsgInv, FirstUse
<1>7. TablesTypeOK'
  BY <1>1, <1>3, <1>5, MsgConstants DEF MsgInv, TablesTypeOK, Addrs
<1>8. MapOwns'
  <2>1. \A g \in Handles \ {h} : connMap'[g] = connMap[g] /\ (connMap[g] # 0 => connMap[g] \in Addrs \ {a})
    BY <1>5, MapValues DEF MsgInv, MapOwns, TablesTypeOK
  <2>2. connMap'[h] = a
    BY <1>5 DEF MsgInv, TablesTypeOK
  <2>. QED
    BY <1>3, <1>4, <1>5, <2>1, <2>2 DEF MsgInv, MapOwns
<1>9. FirstUse'
  <2>1. \A b \in Addrs : /\ obj'[b].serial = 0 <=> obj'[b].handle = 0
                         /\ obj'[b].serial = 0 => ~obj'[b].open
                         /\ obj'[b].serial <= accepted'
    <3>. TAKE b \in Addrs
    <3>1. CASE b = a
      BY <1>1, <1>3, <1>4, <1>5, <3>1
    <3>2. CASE b # a
      BY <1>1, <1>3, <1>5, <3>2, ConnFields DEF MsgInv, FirstUse
    <3>. QED
      BY <3>1, <3>2
  <2>2. ASSUME ~reused', NEW b \in Addrs, NEW c \in Addrs, obj'[b].handle = obj'[c].handle, obj'[b].handle # 0
        PROVE  b = c
    BY <1>3, <1>4, <1>6, <2>2 DEF MsgInv, FirstUse
  <2>. QED
    BY <2>1, <2>2 DEF FirstUse
<1>10. NamesApart' /\ IdsFiled'
  BY <1>5 DEF MsgInv, NamesApart, IdsFiled
<1>11. ConnsOfUser'
  <2>. SUFFICES ASSUME NEW k \in DOMAIN users, NEW g \in Handles, users[k].conns[g] # 0
                PROVE  /\ users[k].userId \in Ids /\ idMap[users[k].userId] = k
                       /\ ~reused' => /\ obj'[users[k].conns[g]].open
                                      /\ obj'[users[k].conns[g]].userId = users[k].userId
                                      /\ obj'[users[k].conns[g]].handle = g
    BY <1>5 DEF ConnsOfUser
  <2>1. users[k].conns[g] \in Addrs
    BY UserFields, MapValues DEF MsgInv
  <2>2. ~reused' => users[k].conns[g] # a
    BY <1>6 DEF MsgInv, ConnsOfUser
  <2>. QED
    BY <1>3, <1>6, <2>1, <2>2 DEF MsgInv, ConnsOfUser
<1>12. OpenFiled'
  BY <1>3, <1>4, <1>5, <1>6 DEF MsgInv, OpenFiled
<1>13. DeliveredToOwner'
  <2>. SUFFICES ASSUME ~reused', NEW m \in delivered
                PROVE  \E b \in Addrs : obj'[b].serial = m.to /\ obj'[b].open /\ obj'[b].userId = m.user
    BY <1>5 DEF DeliveredToOwner
  <2>1. PICK b \in Addrs : obj[b].serial = m.to /\ obj[b].open /\ obj[b].userId = m.user
    BY <1>6 DEF MsgInv, DeliveredToOwner
  <2>. QED
    BY <1>3, <1>6, <2>1
<1>. QED
  BY <1>7, <1>8, <1>9, <1>10, <1>11, <1>12, <1>13 DEF MsgInv

-----------------------------------------------------------------------------
\* A step leaves the identity and the connections of the k-th ImUser alone.
SameUser(k) ==
    /\ users'[k].userId = users[k].userId /\ users'[k].validate = users[k].validate
    /\ users'[k].conns = users[k].conns

\* A login is sent: the name's ImUser, made now or there already, gets one more
\* connection that is not validated.
LEMMA LoginRequestUsers ==
    ASSUME MsgInv, NEW a \in Addrs, NEW name \in Names, HandleLoginRequest(a, name)
    PROVE  /\ users' \in Seq(ImUsers) /\ Len(users') >= Len(users)
           /\ \A k \in 1..Len(users) : SameUser(k)
           /\ \A k \in 1..Len(users'), h \in Handles :
                  users'[k].conns[h] # 0 => k \in 1..Len(users)
           /\ nameMap'[name] \in 1..Len(users')
           /\ nameMap'[name] = nameMap[name] \/ nameMap'[name] > Len(users)
<1>0. users \in Seq(ImUsers) /\ nameMap \in [Names -> 0..Len(users)]
  BY DEF MsgInv, TablesTypeOK
<1>. DEFINE i == nameMap[name]
<1>1. CASE i # 0
  <2>1. i \in 1..Len(users) /\ users' = [users EXCEPT ![i].unValidate = @ \cup {a}] /\ nameMap' = [nameMap EXCEPT ![name] = i]
    BY <1>1, MapValues DEF HandleLoginRequest, MsgInv
  <2>. HIDE DEF i
  <2>2. users[i] \in ImUsers
    BY <1>0, <2>1
  <2>. DEFINE u == [users[i] EXCEPT !.unValidate = @ \cup {a}]
  <2>3. /\ u \in ImUsers /\ u.userId = users[i].userId /\ u.validate = users[i].validate
        /\ u.conns = users[i].conns
    BY <2>2 DEF ImUsers
  <2>4. users' = [users EXCEPT ![i] = u]
    BY <2>1
  <2>. HIDE DEF u
  <2>5. /\ users' \in Seq(ImUsers) /\ Len(users') = Len(users) /\ users'[i] = u
        /\ \A k \in 1..Len(users) : k # i => users'[k] = users[k]
    <3>1. u \in ImUsers /\ i \in 1..Len(users)
      BY <2>1, <2>3
    <3>. QED
      BY <1>0, <2>4, <3>1, SeqExcept
  <2>6. nameMap'[name] = nameMap[name] /\ nameMap'[name] = i
    BY <1>0, <2>1 DEF i
  <2>. QED
    BY <1>0, <2>1, <2>3, <2>5, <2>6 DEF SameUser
<1>2. CASE i = 0
  <2>. DEFINE n == Len(users) + 1
  <2>. DEFINE u == [NewImUser EXCEPT !.unValidate = @ \cup {a}]
  <2>1. users' = [Append(users, NewImUser) EXCEPT ![n].unValidate = @ \cup {a}] /\ nameMap' = [nameMap EXCEPT ![name] = n]
    BY <1>2 DEF HandleLoginRequest
  <2>2. u \in ImUsers /\ \A h \in Handles : u.conns[h] = 0
    BY NewUserIs DEF ImUsers
  <2>3. Append(users, NewImUser)[n] = NewImUser /\ DOMAIN Append(users, NewImUser) = 1..n
    BY <1>0
  <2>4. users' = [Append(users, NewImUser) EXCEPT ![n] = u]
    BY <2>1, <2>3
  <2>. HIDE DEF u
  <2>. DEFINE us == Append(users, NewImUser)
  <2>5. us \in Seq(ImUsers) /\ Len(us) = n /\ n \in 1..n /\ \A k \in 1..Len(users) : us[k] = users[k]
    BY <1>0, NewUserIs
  <2>6. /\ users' \in Seq(ImUsers) /\ Len(users') = n /\ users'[n] = u /\ Len(users) \in Nat
        /\ \A k \in 1..Len(users) : users'[k] = users[k]
    <3>1. u \in ImUsers
      BY <2>2
    <3>2. users' = [us EXCEPT ![n] = u] /\ Len(users) \in Nat /\ n = Len(users) + 1
      BY <1>0, <2>4
    <3>. HIDE DEF us, n
    <3>. QED
      BY <2>5, <3>1, <3>2, SeqExcept
  <2>7. nameMap'[name] = n
    BY <1>0, <2>1
  <2>. QED
    BY <2>2, <2>6, <2>7 DEF SameUser
<1>. QED
  BY <1>1, <1>2

LEMMA LoginRequestInv ==
    ASSUME MsgInv, NEW a \in Addrs, NEW name \in Names, HandleLoginRequest(a, name)
    PROVE  MsgInv'
<1>0. Len(users) \in Nat /\ DOMAIN users = 1..Len(users)
  BY MapValues DEF MsgInv
<1>1. /\ users' \in Seq(ImUsers) /\ Len(users') >= Len(users)
      /\ Len(users') \in Nat /\ DOMAIN users' = 1..Len(users')
  BY LoginRequestUsers
<1>2. \A k \in 1..Len(users) : SameUser(k)
  BY LoginRequestUsers
<1>3. \A k \in 1..Len(users'), h \in Handles : users'[k].conns[h] # 0 => k \in 1..Len(users)
  BY LoginRequestUsers
<1>4. /\ nameMap' \in [Names -> 0..Len(users')]
      /\ \A n \in Names \ {name} : nameMap'[n] = nameMap[n]
      /\ nameMap'[name] = nameMap[name] \/ nameMap'[name] > Len(users)
  <2>1. nameMap \in [Names -> 0..Len(users)]
    BY DEF MsgInv, TablesTypeOK
  <2>2. PICK v : nameMap' = [nameMap EXCEPT ![name] = v]
    BY DEF HandleLoginRequest
  <2>. QED
    BY <1>0, <1>1, <2>1, <2>2, LoginRequestUsers
<1>5. UNCHANGED <<obj, connMap, reading, idMap, accepted, reused, delivered>>
  BY DEF HandleLoginRequest
<1>6. TablesTypeOK'
  <2>. DEFINE r == [type |-> "login", name |-> name, handle |-> obj[a].handle,
                    serial |-> obj[a].serial, n |-> asked + 1]
  <2>1. Reads(a) /\ asked < MaxReqs /\ asked' = asked + 1 /\ requests' = requests \cup {r}
    BY DEF HandleLoginRequest, SendToDb
  <2>2. r \in LoginReqs /\ asked' \in 0..MaxReqs
    BY <2>1, ReadsFacts, MsgConstants DEF LoginReqs
  <2>. HIDE DEF r
  <2>3. idMap' \in [Ids -> 0..Len(users')]
    BY <1>0, <1>1, <1>5 DEF MsgInv, TablesTypeOK
  <2>. QED
    BY <1>1, <1>4, <1>5, <2>1, <2>2, <2>3 DEF MsgInv, TablesTypeOK
<1>7. MapOwns' /\ FirstUse' /\ DeliveredToOwner'
  BY <1>5 DEF MsgInv, MapOwns, FirstUse, DeliveredToOwner
<1>8. \A id \in Ids : idMap[id] # 0 => idMap[id] \in 1..Len(users)
  BY MapValues DEF MsgInv
<1>9. NamesApart'
  <2>1. \A n \in Names : nameMap[n] \in 0..Len(users)
    BY DEF MsgInv, TablesTypeOK
  <2>2. \A id \in Ids : idMap[id] \in 0..Len(users)
    BY DEF MsgInv, TablesTypeOK
  <2>. QED
    BY <1>0, <1>4, <1>5, <2>1, <2>2 DEF MsgInv, NamesApart
<1>10. IdsFiled'
  BY <1>2, <1>5, <1>8 DEF MsgInv, IdsFiled, SameUser
<1>11. ConnsOfUser'
  BY <1>0, <1>1, <1>2, <1>3, <1>5 DEF MsgInv, ConnsOfUser, SameUser
<1>12. OpenFiled'
  BY <1>2, <1>5, <1>8 DEF MsgInv, OpenFiled, SameUser
<1>. QED
  BY <1>6, <1>7, <1>9, <1>10, <1>11, <1>12 DEF MsgInv

-----------------------------------------------------------------------------
\* The ImUser an accepted login goes to: the one that has the id, or the name's.
AcceptedUser(r) == IF idMap[IdOf[r.name]] = 0 THEN nameMap[r.name] ELSE idMap[IdOf[r.name]]

\* A login is accepted: that ImUser gets the connection.
LEMMA LoginAcceptedIs ==
    ASSUME MsgInv, NEW r \in requests, LoginAccepted(r)
    PROVE  /\ users' \in Seq(ImUsers) /\ Len(users') = Len(users)
           /\ \A k \in 1..Len(users) : k # AcceptedUser(r) =>
                  /\ users'[k].userId = users[k].userId /\ users'[k].validate = users[k].validate
                  /\ users'[k].conns = users[k].conns
           /\ users'[AcceptedUser(r)].userId = IdOf[r.name] /\ users'[AcceptedUser(r)].validate
           /\ users'[AcceptedUser(r)].conns = [users[AcceptedUser(r)].conns EXCEPT ![r.handle] = Unvalidated(r)]
<1>. DEFINE a == Unvalidated(r)
<1>. DEFINE h == r.handle
<1>. DEFINE id == IdOf[r.name]
<1>. DEFINE j == AcceptedUser(r)
<1>1. r.type = "login" /\ a # 0 /\ ~obj[a].open
  BY DEF LoginAccepted, MayValidate
<1>2. a \in Addrs /\ r.name \in Names /\ nameMap[r.name] \in 1..Len(users) /\ h \in Handles /\ obj[a].handle = h
  BY <1>1, UnvalidatedIs DEF MsgInv
<1>3. id \in Ids /\ j \in 1..Len(users)
  BY <1>2, MsgConstants, MapValues DEF MsgInv, AcceptedUser
<1>. DEFINE i == nameMap[r.name]
<1>. DEFINE us == [k \in 1..Len(users) |->
                      IF k \in {i, j} THEN [users[k] EXCEPT !.unValidate = @ \ {a}] ELSE users[k]]
<1>. DEFINE u == [us[j] EXCEPT !.userId = id, !.validate = TRUE]
<1>. DEFINE v == [u EXCEPT !.conns[h] = a]
<1>4. users' = [us EXCEPT ![j] = v]
  <2>1. DOMAIN users = 1..Len(users)
    BY MapValues DEF MsgInv
  <2>. QED
    BY <1>2, <2>1 DEF LoginAccepted, AddMsgConn, AcceptedUser
<1>5. \A k \in 1..Len(users) : /\ us[k] \in ImUsers
                               /\ us[k].userId = users[k].userId /\ us[k].validate = users[k].validate
                               /\ us[k].conns = users[k].conns
  <2>. TAKE k \in 1..Len(users)
  <2>1. users[k] \in ImUsers
    BY UserFields DEF MsgInv
  <2>2. CASE k \in {i, j}
    <3>1. us[k] = [users[k] EXCEPT !.unValidate = @ \ {a}]
      BY <2>2
    <3>. HIDE DEF us
    <3>. QED
      BY <2>1, <3>1 DEF ImUsers
  <2>3. CASE k \notin {i, j}
    BY <2>1, <2>3
  <2>. QED
    BY <2>2, <2>3
<1>6. us \in Seq(ImUsers) /\ Len(us) = Len(users)
  <2>1. us \in [1..Len(users) -> ImUsers] /\ Len(users) \in Nat
    BY <1>5, MapValues DEF MsgInv
  <2>. HIDE DEF us
  <2>. QED
    BY <2>1
<1>. HIDE DEF us, a, h, id, j
<1>7. u \in ImUsers /\ u.userId = id /\ u.validate /\ u.conns = users[j].conns
  BY <1>3, <1>5 DEF ImUsers
<1>. HIDE DEF u
<1>8. v \in ImUsers /\ v.userId = id /\ v.validate /\ v.conns = [users[j].conns EXCEPT ![h] = a]
  <2>1. u.conns \in [Handles -> 0..NumAddrs] /\ a \in 0..NumAddrs
    BY <1>2, <1>7, MsgConstants DEF ImUsers, Addrs
  <2>. DEFINE c == [u.conns EXCEPT ![h] = a]
  <2>2. v = [u EXCEPT !.conns = c] /\ c \in [Handles -> 0..NumAddrs]
    BY <1>2, <2>1
  <2>3. c = [users[j].conns EXCEPT ![h] = a]
    BY <1>7
  <2>. HIDE DEF c, v
  <2>. QED
    BY <1>7, <2>2, <2>3 DEF ImUsers
<1>. HIDE DEF v
<1>9. /\ users' \in Seq(ImUsers) /\ Len(users') = Len(us) /\ users'[j] = v
      /\ \A k \in 1..Len(us) : k # j => users'[k] = us[k]
  <2>1. j \in 1..Len(us) /\ v \in ImUsers
    BY <1>3, <1>6, <1>8
  <2>. QED
    BY <1>4, <1>6, <2>1, SeqExcept
<1>10. \A k \in 1..Len(users) : k # j =>
          /\ users'[k].userId = users[k].userId /\ users'[k].validate = users[k].validate
          /\ users'[k].conns = users[k].conns
  BY <1>5, <1>6, <1>9
<1>11. users' \in Seq(ImUsers) /\ Len(users') = Len(users)
  BY <1>6, <1>9
<1>12. users'[j].userId = id /\ users'[j].validate /\ users'[j].conns = [users[j].conns EXCEPT ![h] = a]
  BY <1>8, <1>9
<1>. QED
  BY <1>10, <1>11, <1>12 DEF a, h, id, j

LEMMA LoginAcceptedInv ==
    ASSUME MsgInv, NEW r \in requests, LoginAccepted(r)
    PROVE  MsgInv'
<1>. DEFINE a == Unvalidated(r)
<1>. DEFINE h == r.handle
<1>. DEFINE id == IdOf[r.name]
<1>. DEFINE i == nameMap[r.name]
<1>. DEFINE j == AcceptedUser(r)
<1>. DEFINE Same(k) == /\ users'[k].userId = users[k].userId /\ users'[k].validate = users[k].validate
                       /\ users'[k].conns = users[k].conns
<1>0. j = IF idMap[id] = 0 THEN i ELSE idMap[id]
  BY DEF AcceptedUser
<1>1. /\ a \in Addrs /\ h \in Handles /\ id \in Ids /\ r.name \in Names
      /\ i \in 1..Len(users) /\ j \in 1..Len(users) /\ obj[a].handle = h /\ ~obj[a].open
  <2>1. r.type = "login" /\ a # 0 /\ ~obj[a].open
    BY <1>0 DEF LoginAccepted, MayValidate
  <2>2. a \in Addrs /\ h \in Handles /\ r.name \in Names /\ i \in 1..Len(users) /\ obj[a].handle = h
    BY <1>0, <2>1, UnvalidatedIs DEF MsgInv
  <2>3. id \in Ids /\ j \in 1..Len(users)
    BY <1>0, <2>2, MsgConstants, MapValues DEF MsgInv
  <2>. QED
    BY <2>1, <2>2, <2>3
<1>2. users' \in Seq(ImUsers) /\ Len(users') = Len(users)
  BY LoginAcceptedIs
<1>3. \A k \in 1..Len(users) : k # j => Same(k)
  BY LoginAcceptedIs
<1>4. /\ users'[j].userId = id /\ users'[j].validate
      /\ users'[j].conns = [users[j].conns EXCEPT ![h] = a]
  BY LoginAcceptedIs
<1>5. /\ idMap' \in [Ids -> 0..Len(users)] /\ idMap'[id] = j /\ idMap[id] \in {0, j}
      /\ \A d \in Ids \ {id} : idMap'[d] = idMap[d]
  <2>1. idMap' = IF idMap[id] = 0 THEN [idMap EXCEPT ![id] = j] ELSE idMap
    BY <1>0 DEF LoginAccepted, RegisterId
  <2>2. idMap \in [Ids -> 0..Len(users)]
    BY DEF MsgInv, TablesTypeOK
  <2>. QED
    BY <1>0, <1>1, <2>1, <2>2
<1>6. nameMap' \in [Names -> 0..Len(users)] /\ \A n \in Names : nameMap'[n] \in {nameMap[n], 0}
  <2>1. nameMap' = [nameMap EXCEPT ![r.name] = 0] \/ nameMap' = nameMap
    BY DEF LoginAccepted
  <2>2. nameMap \in [Names -> 0..Len(users)] /\ Len(users) \in Nat
    BY MapValues DEF MsgInv, TablesTypeOK
  <2>. QED
    BY <1>1, <2>1, <2>2
<1>7. /\ obj' \in [Addrs -> MsgConns] /\ \A b \in Addrs \ {a} : obj'[b] = obj[b]
      /\ obj'[a].alive = obj[a].alive /\ obj'[a].handle = obj[a].handle
      /\ obj'[a].serial = obj[a].serial /\ obj'[a].open /\ obj'[a].userId = id
  <2>1. obj' = [obj EXCEPT ![a].userId = id, ![a].open = TRUE] /\ obj \in [Addrs -> MsgConns]
    BY <1>0 DEF LoginAccepted, MsgInv, TablesTypeOK
  <2>2. obj[a] \in MsgConns
    BY <1>1, <2>1
  <2>. DEFINE o == [[obj[a] EXCEPT !.userId = id] EXCEPT !.open = TRUE]
  <2>3. obj' = [obj EXCEPT ![a] = o]
    BY <1>1, <2>1
  <2>4. /\ o \in MsgConns /\ o.alive = obj[a].alive /\ o.handle = obj[a].handle
        /\ o.serial = obj[a].serial /\ o.open /\ o.userId = id
    BY <1>1, <2>2 DEF MsgConns
  <2>. HIDE DEF o
  <2>. QED
    BY <1>1, <2>1, <2>3, <2>4
<1>8. /\ UNCHANGED <<connMap, reading, accepted, asked, reused, delivered>>
      /\ requests' \subseteq requests
  BY DEF LoginAccepted
<1>. HIDE DEF a, h, id, j
<1>9. Len(users) \in Nat /\ DOMAIN users = 1..Len(users) /\ DOMAIN users' = 1..Len(users)
  BY <1>2, MapValues DEF MsgInv
<1>10. TablesTypeOK'
  BY <1>2, <1>5, <1>6, <1>7, <1>8 DEF MsgInv, TablesTypeOK
<1>11. MapOwns'
  <2>1. \A b \in Addrs : obj'[b].alive = obj[b].alive /\ obj'[b].handle = obj[b].handle
    BY <1>7
  <2>2. \A g \in Handles : connMap[g] # 0 => connMap[g] \in Addrs
    BY MapValues DEF MsgInv
  <2>3. reading # 0 => reading \in Addrs
    BY MsgConstants DEF MsgInv, TablesTypeOK, Addrs
  <2>. QED
    BY <1>8, <2>1, <2>2, <2>3 DEF MsgInv, MapOwns
<1>12. FirstUse'
  <2>1. obj[a].serial # 0
    BY <1>1, MsgConstants DEF MsgInv, FirstUse, Handles
  <2>. QED
    BY <1>1, <1>7, <1>8, <2>1 DEF MsgInv, FirstUse
<1>13. NamesApart'
  <2>1. \A n, m \in Names : nameMap'[n] = nameMap'[m] /\ nameMap'[n] # 0 => n = m
    BY <1>6 DEF MsgInv, NamesApart
  <2>2. ASSUME NEW n \in Names, NEW d \in Ids, nameMap'[n] = idMap'[d], nameMap'[n] # 0
        PROVE  IdOf[n] = d
    <3>1. nameMap[n] = nameMap'[n] /\ nameMap[n] # 0
      BY <1>6, <2>2
    <3>2. CASE d # id \/ idMap[id] # 0
      BY <1>5, <2>2, <3>1, <3>2 DEF MsgInv, NamesApart
    <3>3. CASE d = id /\ idMap[id] = 0
      <4>1. nameMap[n] = nameMap[r.name]
        BY <1>5, <2>2, <1>0, <3>1, <3>3
      <4>2. n = r.name
        BY <1>1, <3>1, <4>1 DEF MsgInv, NamesApart
      <4>. QED
        BY <3>3, <4>2 DEF id
    <3>. QED
      BY <3>2, <3>3
  <2>. QED
    BY <2>1, <2>2 DEF NamesApart
\* An ImUser that gets the id now has no connection yet.
<1>14. idMap[id] = 0 => \A g \in Handles : users[j].conns[g] = 0
  <2>. SUFFICES ASSUME idMap[id] = 0, NEW g \in Handles, users[j].conns[g] # 0 PROVE FALSE
    OBVIOUS
  <2>1. j = i /\ users[j].userId \in Ids /\ idMap[users[j].userId] = j
    BY <1>0, <1>1, <1>9 DEF MsgInv, ConnsOfUser
  <2>2. j # 0
    BY <1>1, <1>9
  <2>3. IdOf[r.name] = users[j].userId
    BY <1>0, <1>1, <2>1, <2>2 DEF MsgInv, NamesApart
  <2>. QED
    BY <2>1, <2>2, <2>3 DEF id
<1>15. idMap[id] # 0 => users[j].userId = id
  BY <1>0, <1>1 DEF MsgInv, IdsFiled
\* No other id leads to it.
<1>16. \A d \in Ids : d # id /\ idMap[d] # 0 => idMap[d] # j /\ idMap[d] \in 1..Len(users)
  <2>. SUFFICES ASSUME NEW d \in Ids, d # id, idMap[d] # 0
                PROVE  idMap[d] # j /\ idMap[d] \in 1..Len(users)
    OBVIOUS
  <2>1. idMap[d] \in 1..Len(users) /\ users[idMap[d]].userId = d
    BY MapValues DEF MsgInv, IdsFiled
  <2>2. CASE idMap[id] # 0
    BY <1>15, <2>1, <2>2
  <2>3. CASE idMap[id] = 0
    BY <1>0, <1>1, <2>1, <2>3 DEF MsgInv, NamesApart, id
  <2>. QED
    BY <2>1, <2>2, <2>3
<1>17. IdsFiled'
  <2>1. idMap'[id] # 0 => users'[idMap'[id]].userId = id /\ users'[idMap'[id]].validate
    BY <1>4, <1>5
  <2>2. ASSUME NEW d \in Ids \ {id}, idMap'[d] # 0
        PROVE  users'[idMap'[d]].userId = d /\ users'[idMap'[d]].validate
    <3>1. idMap'[d] = idMap[d] /\ idMap[d] # j /\ idMap[d] \in 1..Len(users)
      BY <1>5, <1>16, <2>2
    <3>. QED
      BY <1>3, <2>2, <3>1 DEF MsgInv, IdsFiled
  <2>. QED
    BY <2>1, <2>2 DEF IdsFiled
<1>18. ConnsOfUser'
  <2>. SUFFICES ASSUME NEW k \in 1..Len(users), NEW g \in Handles, users'[k].conns[g] # 0
                PROVE  /\ users'[k].userId \in Ids /\ idMap'[users'[k].userId] = k
                       /\ ~reused => /\ obj'[users'[k].conns[g]].open
                                     /\ obj'[users'[k].conns[g]].userId = users'[k].userId
                                     /\ obj'[users'[k].conns[g]].handle = g
    BY <1>8, <1>9 DEF ConnsOfUser
  <2>1. users[j].conns \in [Handles -> 0..NumAddrs]
    BY <1>1, UserFields DEF MsgInv
  <2>2. CASE k = j /\ g = h
    <3>1. users'[k].conns[g] = a
      BY <1>4, <2>1, <2>2
    <3>. QED
      BY <1>1, <1>4, <1>5, <1>7, <2>2, <3>1
  <2>3. CASE k # j \/ g # h
    <3>1. users'[k].conns[g] = users[k].conns[g]
      BY <1>3, <1>4, <2>1, <2>3
    <3>2. users[k].conns[g] \in Addrs /\ users[k].conns[g] # 0
      BY <3>1, UserFields DEF MsgInv
    <3>3. /\ users[k].userId \in Ids /\ idMap[users[k].userId] = k
          /\ ~reused => /\ obj[users[k].conns[g]].open
                        /\ obj[users[k].conns[g]].userId = users[k].userId
                        /\ obj[users[k].conns[g]].handle = g
      BY <1>9, <3>2 DEF MsgInv, ConnsOfUser
    <3>4. users'[k].userId = users[k].userId
      BY <1>3, <1>4, <1>14, <1>15, <3>2
    <3>5. idMap'[users[k].userId] = k
      BY <1>5, <3>3, <1>9
    <3>6. ~reused => users[k].conns[g] # a
      BY <1>1, <3>3
    <3>. QED
      BY <1>7, <3>1, <3>2, <3>3, <3>4, <3>5, <3>6
  <2>. QED
    BY <2>2, <2>3
<1>19. OpenFiled'
  <2>. SUFFICES ASSUME ~reused, NEW b \in Addrs, obj'[b].open
                PROVE  /\ obj'[b].userId \in Ids /\ idMap'[obj'[b].userId] # 0
                       /\ users'[idMap'[obj'[b].userId]].conns[obj'[b].handle] = b
    BY <1>8 DEF OpenFiled
  <2>1. users[j].conns \in [Handles -> 0..NumAddrs]
    BY <1>1, UserFields DEF MsgInv
  <2>2. CASE b = a
    BY <1>1, <1>4, <1>5, <1>7, <1>9, <2>1, <2>2
  <2>3. CASE b # a
    <3>1. obj'[b] = obj[b]
      BY <1>7, <2>3
    <3>2. /\ obj[b].userId \in Ids /\ idMap[obj[b].userId] # 0
          /\ users[idMap[obj[b].userId]].conns[obj[b].handle] = b
      BY <3>1 DEF MsgInv, OpenFiled
    <3>3. obj[b].handle # h /\ obj[b].handle \in Handles
      BY <1>1, <2>3, <3>1, ConnFields, MsgConstants DEF MsgInv, FirstUse, Handles
    <3>4. CASE obj[b].userId = id
      BY <1>4, <1>5, <2>1, <3>1, <3>2, <3>3, <3>4
    <3>5. CASE obj[b].userId # id
      <4>1. idMap'[obj[b].userId] = idMap[obj[b].userId]
        BY <1>5, <3>2, <3>5
      <4>2. idMap[obj[b].userId] # j /\ idMap[obj[b].userId] \in 1..Len(users)
        BY <1>16, <3>2, <3>5
      <4>. QED
        BY <1>3, <3>1, <3>2, <4>1, <4>2
    <3>. QED
      BY <3>4, <3>5
  <2>. QED
    BY <2>2, <2>3
<1>20. DeliveredToOwner'
  <2>. SUFFICES ASSUME ~reused, NEW m \in delivered
                PROVE  \E b \in Addrs : obj'[b].serial = m.to /\ obj'[b].open /\ obj'[b].userId = m.user
    BY <1>8 DEF DeliveredToOwner
  <2>1. PICK b \in Addrs : obj[b].serial = m.to /\ obj[b].open /\ obj[b].userId = m.user
    BY DEF MsgInv, DeliveredToOwner
  <2>. QED
    BY <1>1, <1>7, <2>1
<1>. QED
  BY <1>10, <1>11, <1>12, <1>13, <1>17, <1>18, <1>19, <1>20 DEF MsgInv

-----------------------------------------------------------------------------
\* The process goes down, or nothing happens.
LEMMA CrashInv ==
    ASSUME MsgInv, UNCHANGED <<obj, connMap, reading, tables, requests, ghosts>>
    PROVE  MsgInv'
<1>1. requests' \subseteq LoginReqs \cup AllUserReqs \cup MsgReqs /\ asked' \in 0..MaxReqs
  BY DEF MsgInv, TablesTypeOK, ghosts
<1>. QED
  BY <1>1, RequestsInv DEF ghosts

LEMMA MsgInitInv == MsgInit => MsgInv
<1>. SUFFICES ASSUME MsgInit PROVE MsgInv
  OBVIOUS
<1>. USE MsgConstants DEF MsgInit
<1>1. obj \in [Addrs -> MsgConns] /\ \A a \in Addrs : obj[a] = NoMsgConn
  <2>1. NoMsgConn \in MsgConns
    BY DEF NoMsgConn, MsgConns
  <2>. QED
    BY <2>1
<1>2. NoMsgConn.handle = 0 /\ NoMsgConn.serial = 0 /\ ~NoMsgConn.open
  BY DEF NoMsgConn
<1>3. TablesTypeOK
  <2>1. users \in Seq(ImUsers) /\ Len(users) = 0
    OBVIOUS
  <2>. QED
    BY <1>1, <2>1 DEF TablesTypeOK
<1>4. MapOwns /\ FirstUse
  BY <1>1, <1>2 DEF MapOwns, FirstUse
<1>5. NamesApart /\ IdsFiled /\ ConnsOfUser
  BY DEF NamesApart, IdsFiled, ConnsOfUser
<1>6. OpenFiled /\ DeliveredToOwner
  BY <1>1, <1>2 DEF OpenFiled, DeliveredToOwner
<1>. QED
  BY <1>3, <1>4, <1>5, <1>6 DEF MsgInv

LEMMA MsgStepInv == MsgInv /\ [MsgNext]_msgVars => MsgInv'
<1>. SUFFICES ASSUME MsgInv, [MsgNext]_msgVars PROVE MsgInv'
  OBVIOUS
<1>1. ASSUME NEW a \in Addrs, NEW h \in Handles, OnConnect(a, h) PROVE MsgInv'
  BY <1>1, OnConnectInv
<1>2. ASSUME NEW a \in Addrs, ClientGone(a) \/ LoginTimeout(a) PROVE MsgInv'
  BY <1>2, GoneInv
<1>3. ASSUME NEW a \in Addrs, Client(a) PROVE MsgInv'
  BY <1>3, StartReadInv, RefuseLoginInv, LoginRequestInv, BuddyListRequestInv, ClientMsgDataInv DEF Client
<1>4. CASE EndRead
  BY <1>4, EndReadInv
<1>5. CASE CrashOnReport
  BY <1>5, CrashInv DEF CrashOnReport
<1>6. ASSUME NEW r \in requests, Answer(r) PROVE MsgInv'
  <2>1. CASE CrashOnDangling(r)
    BY <2>1, CrashInv DEF CrashOnDangling
  <2>. QED
    BY <1>6, <2>1, IgnoreLoginAnswerInv, LoginRefusedInv, LoginAcceptedInv, AllUserResponseInv,
       SessionMsgInv DEF Answer
<1>7. CASE UNCHANGED msgVars
  BY <1>7, CrashInv DEF msgVars
<1>. QED
  BY <1>1, <1>2, <1>3, <1>4, <1>5, <1>6, <1>7 DEF MsgNext

\* The inductive invariant holds at every step of msg_server.
THEOREM MsgInvariant == MsgSpec => []MsgInv
  BY MsgInitInv, MsgStepInv, PTL DEF MsgSpec

\* userIdMap_ leads from an id to the ImUser that was validated as that id, and
\* from there to MsgConns that were opened as it.
THEOREM IdTableSound == MsgSpec => []UserIdMapSound
<1>1. MsgInv => UserIdMapSound
  BY MapValues DEF MsgInv, UserIdMapSound, IdsFiled, ConnsOfUser
<1>. QED
  BY <1>1, MsgInvariant, PTL

\* A connection that the database accepted is found through its user's id.
THEOREM OpenConnsFound == MsgSpec => []OpenConnFound
<1>1. MsgInv => OpenConnFound
  BY DEF MsgInv, OpenConnFound, OpenFiled
<1>. QED
  BY <1>1, MsgInvariant, PTL

\* No user list and no message is written to a connection of another user.
THEOREM DeliveryCorrect == MsgSpec => []DeliveredToOwner
<1>1. MsgInv => DeliveredToOwner
  BY DEF MsgInv
<1>. QED
  BY <1>1, MsgInvariant, PTL

\* A second login on an open connection, or the answer to an older one, never
\* changes whose the connection is; here handles and memory may be reused.
THEOREM IdentityKept == MsgSpec => IdentityStable
<1>. DEFINE Kept == \A a \in Addrs : IsMapped(a) /\ obj[a].open /\ obj'[a].serial = obj[a].serial
                        => obj'[a].open /\ obj'[a].userId = obj[a].userId
<1>1. MsgInv /\ [MsgNext]_msgVars => [Kept]_msgVars
  <2>. SUFFICES ASSUME MsgInv, MsgNext, NEW a \in Addrs, IsMapped(a), obj[a].open
                PROVE  obj'[a].open /\ obj'[a].userId = obj[a].userId
    OBVIOUS
  <2>1. obj \in [Addrs -> MsgConns] /\ obj[a].alive
    <3>1. obj[a].handle \in Handles /\ connMap[obj[a].handle] = a /\ a # 0
      BY ConnFields, MsgConstants DEF MsgInv, IsMapped, Addrs
    <3>2. obj[a].alive
      BY <3>1 DEF MsgInv, MapOwns
    <3>. QED
      BY <3>2 DEF MsgInv, TablesTypeOK
  <2>2. ASSUME NEW b \in Addrs, NEW h \in Handles, OnConnect(b, h)
        PROVE  obj'[a].open /\ obj'[a].userId = obj[a].userId
    BY <2>1, <2>2 DEF OnConnect
  <2>3. SameConns => obj'[a].open /\ obj'[a].userId = obj[a].userId
    BY DEF SameConns
  <2>4. ASSUME NEW h \in Handles, CloseHandle(h), UNCHANGED reading PROVE SameConns
    BY <2>4, CloseFacts
  <2>5. ASSUME NEW b \in Addrs, ClientGone(b) \/ LoginTimeout(b) PROVE SameConns
    <3>1. obj[b].handle \in Handles
      BY <2>5, ConnFields DEF MsgInv, ClientGone, LoginTimeout, IsMapped
    <3>. QED
      BY <2>4, <2>5, <3>1 DEF ClientGone, LoginTimeout
  <2>6. ASSUME NEW b \in Addrs, Client(b) PROVE SameConns
    <3>1. CASE RefuseLogin(b)
      <4>1. obj[b].handle \in Handles
        BY <3>1, ConnFields, MsgConstants DEF MsgInv, MapOwns, RefuseLogin, Reads, Addrs
      <4>. QED
        BY <2>4, <3>1, <4>1 DEF RefuseLogin
    <3>2. CASE ~RefuseLogin(b)
      <4>1. obj' = obj
        BY <2>6, <3>2 DEF Client, StartRead, HandleLoginRequest, HandleBuddyListAllUserRequest,
                          HandleClientMsgData
      <4>. QED
        BY <4>1 DEF SameConns
    <3>. QED
      BY <3>1, <3>2
  <2>7. CASE EndRead
    <3>1. reading \in Addrs
      BY <2>7, MsgConstants DEF MsgInv, TablesTypeOK, EndRead, Addrs
    <3>. QED
      BY <2>1, <2>7, <3>1 DEF EndRead, MsgConns
  <2>8. CASE CrashOnReport
    BY <2>8 DEF CrashOnReport
  <2>9. ASSUME NEW r \in requests, Answer(r)
        PROVE  obj'[a].open /\ obj'[a].userId = obj[a].userId
    <3>1. CASE LoginAccepted(r)
      <4>. DEFINE b == Unvalidated(r)
      <4>1. /\ r.type = "login" /\ b # 0 /\ ~obj[b].open
            /\ obj' = [obj EXCEPT ![b].userId = IdOf[r.name], ![b].open = TRUE]
        BY <3>1 DEF LoginAccepted, MayValidate
      <4>2. a # b
        BY <4>1
      <4>. HIDE DEF b
      <4>. QED
        BY <2>1, <4>1, <4>2
    <3>2. CASE LoginRefused(r)
      <4>. DEFINE b == Unvalidated(r)
      <4>1. r.type = "login" /\ b # 0 /\ CloseHandle(obj[b].handle) /\ UNCHANGED reading
        BY <3>2 DEF LoginRefused, MayValidate
      <4>2. obj[b].handle \in Handles
        BY <4>1, UnvalidatedIs DEF MsgInv
      <4>. QED
        BY <2>3, <2>4, <4>1, <4>2
    <3>3. CASE ~LoginAccepted(r) /\ ~LoginRefused(r)
      BY <2>9, <3>3 DEF Answer, CrashOnDangling, IgnoreLoginAnswer, HandleBuddyListAllUserResponse,
                        HandleSessionMsg
    <3>. QED
      BY <3>1, <3>2, <3>3
  <2>. QED
    BY <2>2, <2>3, <2>5, <2>6, <2>7, <2>8, <2>9 DEF MsgNext
<1>. QED
  BY <1>1, MsgInvariant, PTL DEF MsgSpec, IdentityStable
=============================================================================
