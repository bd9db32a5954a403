---------------------------- MODULE LinksProofs -----------------------------
(***************************************************************************)
(* The links between the servers, at both ends.  Of msg_server, with any   *)
(* number of servers of the three kinds, any back-off and any timeout: the *)
(* master among the route servers, the reconnect after a loss and the end  *)
(* of silent connections.  Of login_server, with any number of             *)
(* msg_servers, sockets and users: the directory and its counts, and what  *)
(* an HTTP client is told of it.                                           *)
(***************************************************************************)
EXTENDS ServInfo, Directory, HttpConn, WellFoundedInduction, FiniteSetTheorems, SequenceTheorems, TLAPS

-----------------------------------------------------------------------------
\* The inductive invariant, beside ServTypeOK.

\* Of any open route connections one was confirmed before all the others: what
\* update_master_route_serv_conn looks for is there, however many are closed.
WellOrdered ==
    \A T \in SUBSET OpenRoutes :
        T # {} => \E s \in T : \A t \in T \ {s} : <<s, t>> \in older

\* The ticks a slot has been empty are counted in idle_cnt, which the comparison
\* with reconnect_cnt bounds.
IdleCounted ==
    \A s \in Servers :
        /\ Mapped(s) => away[s] = 0
        /\ servConn[s] = "none" => away[s] <= idleCnt[s] /\ idleCnt[s] <= reconnectCnt[s] + 1

\* The back-off of a login or route server starts anew with a confirmed
\* connection, and when that is lost it has doubled once.
BackOffReset ==
    \A s \in Servers : KindOf[s] # "db" =>
        /\ servConn[s] = "open" => reconnectCnt[s] = MIN_RECONNECT_CNT \div 2
        /\ wasOpen[s] /\ servConn[s] = "none" => reconnectCnt[s] <= MIN_RECONNECT_CNT

ServInv ==
    ServTypeOK /\ MasterIsOldest /\ WellOrdered /\ IdleCounted /\ BackOffReset /\ SilentPeerDropped

-----------------------------------------------------------------------------
\* The constants: the back-off starts at half of MIN_RECONNECT_CNT.
LEMMA BackOff ==
    /\ MIN_RECONNECT_CNT \div 2 \in 1..MAX_RECONNECT_CNT
    /\ 2 * (MIN_RECONNECT_CNT \div 2) <= MIN_RECONNECT_CNT
    /\ MIN_RECONNECT_CNT \in Nat /\ MAX_RECONNECT_CNT \in Nat
    /\ MIN_RECONNECT_CNT <= MAX_RECONNECT_CNT
BY ServAssumption

\* serv_reset keeps reconnect_cnt between 1 and its maximum.
LEMMA DoubledIs ==
    ASSUME NEW n \in 1..MAX_RECONNECT_CNT
    PROVE  /\ Doubled(n) \in 1..MAX_RECONNECT_CNT
           /\ Doubled(n) <= 2 * n
BY BackOff DEF Doubled

\* What update_master_route_serv_conn finds when there is a first.
LEMMA OldestIs ==
    ASSUME NEW S, NEW before, \E s \in S : \A t \in S \ {s} : <<s, t>> \in before
    PROVE  /\ Oldest(S, before) \in S
           /\ \A t \in S \ {Oldest(S, before)} : <<Oldest(S, before), t>> \in before
<1>1. S # {}
  OBVIOUS
<1>2. Oldest(S, before) = CHOOSE s \in S : \A t \in S \ {s} : <<s, t>> \in before
  BY <1>1 DEF Oldest
<1>. QED
  BY <1>2, Zenon

-----------------------------------------------------------------------------
\* Connections that are closed leave an order and, if one of them was the
\* master, a new master.
LEMMA ClosedInOrder ==
    ASSUME ServInv, NEW S \in SUBSET Servers,
           OpenRoutes' = OpenRoutes \ S, older' = Without(S), master' = MasterAfterClose(S)
    PROVE  MasterIsOldest' /\ WellOrdered'
<1>0. OpenRoutes \subseteq Servers /\ NoServer \notin Servers
  BY ServAssumption DEF OpenRoutes
<1>1. WellOrdered'
  <2>. SUFFICES ASSUME NEW T \in SUBSET OpenRoutes', T # {}
                PROVE  \E s \in T : \A t \in T \ {s} : <<s, t>> \in older'
    BY DEF WellOrdered
  <2>1. T \in SUBSET OpenRoutes /\ T \cap S = {}
    OBVIOUS
  <2>2. PICK s \in T : \A t \in T \ {s} : <<s, t>> \in older
    BY <2>1 DEF ServInv, WellOrdered
  <2>3. \A t \in T \ {s} : <<s, t>> \in Without(S)
    BY <2>1, <2>2 DEF Without
  <2>. QED
    BY <2>3
<1>2. CASE master \in S
  <2>1. master' = Oldest(OpenRoutes \ S, older)
    BY <1>2 DEF MasterAfterClose
  <2>2. CASE OpenRoutes \ S = {}
    <3>1. master' = NoServer
      BY <2>1, <2>2 DEF Oldest
    <3>. QED
      BY <2>2, <3>1, <1>1 DEF MasterIsOldest
  <2>3. CASE OpenRoutes \ S # {}
    <3>1. \E s \in OpenRoutes \ S : \A t \in (OpenRoutes \ S) \ {s} : <<s, t>> \in older
      BY <2>3 DEF ServInv, WellOrdered
    <3>2. /\ master' \in OpenRoutes \ S
          /\ \A t \in (OpenRoutes \ S) \ {master'} : <<master', t>> \in older
      <4>. DEFINE R == OpenRoutes \ S
      <4>1. \E s \in R : \A t \in R \ {s} : <<s, t>> \in older
        BY <3>1
      <4>. HIDE DEF R
      <4>2. Oldest(R, older) \in R /\ \A t \in R \ {Oldest(R, older)} : <<Oldest(R, older), t>> \in older
        BY <4>1, OldestIs
      <4>. QED
        BY <2>1, <4>2 DEF R
    <3>3. \A t \in OpenRoutes' \ {master'} : <<master', t>> \in older'
      BY <3>2 DEF Without
    <3>4. master' # NoServer
      BY <1>0, <3>2
    <3>. QED
      BY <2>3, <3>2, <3>3, <3>4, <1>1 DEF MasterIsOldest
  <2>. QED
    BY <2>2, <2>3
<1>3. CASE master \notin S
  <2>1. master' = master
    BY <1>3 DEF MasterAfterClose
  <2>2. CASE master = NoServer
    <3>1. OpenRoutes = {}
      BY <2>2 DEF ServInv, MasterIsOldest
    <3>. QED
      BY <2>1, <2>2, <3>1, <1>1 DEF MasterIsOldest
  <2>3. CASE master # NoServer
    <3>1. master \in OpenRoutes /\ \A t \in OpenRoutes \ {master} : <<master, t>> \in older
      BY <2>3 DEF ServInv, MasterIsOldest
    <3>2. \A t \in OpenRoutes' \ {master'} : <<master', t>> \in older'
      BY <1>3, <2>1, <3>1 DEF Without
    <3>. QED
      BY <1>3, <2>1, <2>3, <3>1, <3>2, <1>1 DEF MasterIsOldest
  <2>. QED
    BY <2>2, <2>3
<1>. QED
  BY <1>2, <1>3

\* A connection that is confirmed is the youngest of all.
LEMMA ConfirmedInOrder ==
    ASSUME ServInv, NEW s \in Servers, OnConfirm(s)
    PROVE  MasterIsOldest' /\ WellOrdered'
<1>0. OpenRoutes \subseteq Servers /\ NoServer \notin Servers /\ s \notin OpenRoutes
  BY ServAssumption DEF OpenRoutes, OnConfirm
<1>1. CASE KindOf[s] # "route"
  <2>1. OpenRoutes' = OpenRoutes /\ older' = older /\ master' = master
    BY <1>1 DEF OnConfirm, OpenRoutes, ServInv, ServTypeOK
  <2>2. MasterIsOldest /\ WellOrdered
    BY DEF ServInv
  <2>. QED
    BY <2>1, <2>2 DEF MasterIsOldest, WellOrdered
<1>2. CASE KindOf[s] = "route"
  <2>1. OpenRoutes' = OpenRoutes \cup {s}
    BY <1>2 DEF OnConfirm, OpenRoutes, ServInv, ServTypeOK
  <2>2. older' = older \cup (OpenRoutes \X {s})
    BY <1>2 DEF OnConfirm
  <2>3. WellOrdered'
    <3>. SUFFICES ASSUME NEW T \in SUBSET OpenRoutes', T # {}
                  PROVE  \E q \in T : \A t \in T \ {q} : <<q, t>> \in older'
      BY DEF WellOrdered
    <3>1. CASE T \ {s} = {}
      <4>1. s \in T /\ T \ {s} = {}
        BY <3>1
      <4>. QED
        BY <4>1
    <3>2. CASE T \ {s} # {}
      <4>1. T \ {s} \in SUBSET OpenRoutes
        BY <2>1
      <4>2. PICK q \in T \ {s} : \A t \in (T \ {s}) \ {q} : <<q, t>> \in older
        BY <3>2, <4>1 DEF ServInv, WellOrdered
      <4>3. <<q, s>> \in OpenRoutes \X {s}
        BY <4>1, <4>2
      <4>4. \A t \in T \ {q} : <<q, t>> \in older'
        BY <2>2, <4>2, <4>3
      <4>. QED
        BY <4>2, <4>4
    <3>. QED
      BY <3>1, <3>2
  <2>4. CASE master = NoServer
    <3>1. master' = Oldest(OpenRoutes \cup {s}, older')
      BY <1>2, <2>4 DEF OnConfirm
    <3>2. \E q \in OpenRoutes' : \A t \in OpenRoutes' \ {q} : <<q, t>> \in older'
      BY <2>1, <2>3 DEF WellOrdered
    <3>3. master' \in OpenRoutes' /\ \A t \in OpenRoutes' \ {master'} : <<master', t>> \in older'
      BY <2>1, <3>1, <3>2, OldestIs
    <3>4. master' # NoServer
      BY <1>0, <2>1, <3>3
    <3>. QED
      BY <2>3, <3>3, <3>4 DEF MasterIsOldest
  <2>5. CASE master # NoServer
    <3>1. master' = master
      BY <2>5 DEF OnConfirm
    <3>2. master \in OpenRoutes /\ \A t \in OpenRoutes \ {master} : <<master, t>> \in older
      BY <2>5 DEF ServInv, MasterIsOldest
    <3>3. <<master, s>> \in OpenRoutes \X {s}
      BY <3>2
    <3>4. \A t \in OpenRoutes' \ {master'} : <<master', t>> \in older'
      BY <2>1, <2>2, <3>1, <3>2, <3>3
    <3>. QED
      BY <2>1, <2>3, <2>5, <3>1, <3>2, <3>4 DEF MasterIsOldest
  <2>. QED
    BY <2>4, <2>5
<1>. QED
  BY <1>1, <1>2

-----------------------------------------------------------------------------
\* One lemma per action.

\* serv_init.
LEMMA InitOrder == ServInit => ServInv
<1>. SUFFICES ASSUME ServInit PROVE ServInv
  OBVIOUS
<1>1. ServTypeOK
  BY BackOff, ServAssumption DEF ServInit, ServTypeOK, SlotStates, AwayBound
<1>2. OpenRoutes = {}
  BY DEF ServInit, OpenRoutes
<1>3. MasterIsOldest /\ WellOrdered
  BY <1>2 DEF ServInit, MasterIsOldest, WellOrdered
<1>4. IdleCounted /\ BackOffReset
  BY DEF ServInit, IdleCounted, BackOffReset, Mapped
<1>5. SilentPeerDropped
  BY ServAssumption DEF ServInit, SilentPeerDropped, Mapped
<1>. QED
  BY <1>1, <1>3, <1>4, <1>5 DEF ServInv

\* Close: one slot becomes empty and its back-off doubles.
LEMMA OnCloseOrder ==
    ASSUME ServInv, NEW s \in Servers, OnClose(s)
    PROVE  ServInv'
<1>0. reconnectCnt[s] \in 1..MAX_RECONNECT_CNT /\ idleCnt[s] \in Nat /\ servConn \in [Servers -> SlotStates]
  BY BackOff DEF ServInv, ServTypeOK
<1>1. MasterIsOldest' /\ WellOrdered'
  <2>1. OpenRoutes' = OpenRoutes \ {s}
    BY <1>0 DEF OnClose, OpenRoutes
  <2>. QED
    BY <2>1, ClosedInOrder DEF OnClose
<1>2. ServTypeOK'
  <2>1. master' \in Servers \cup {NoServer}
    <3>1. OpenRoutes' \subseteq Servers
      BY DEF OpenRoutes
    <3>. QED
      BY <1>1, <3>1 DEF MasterIsOldest
  <2>2. older' \subseteq Servers \X Servers
    BY DEF ServInv, ServTypeOK, OnClose, Without
  <2>3. Doubled(reconnectCnt[s]) \in 1..MAX_RECONNECT_CNT
    BY <1>0, DoubledIs
  <2>4. /\ servConn' \in [Servers -> SlotStates]
        /\ idleCnt' \in [Servers -> 0..(MAX_RECONNECT_CNT + 2)]
        /\ reconnectCnt' \in [Servers -> 1..MAX_RECONNECT_CNT]
        /\ wasOpen' \in [Servers -> BOOLEAN]
    BY <2>3, BackOff DEF ServInv, ServTypeOK, OnClose, SlotStates
  <2>. QED
    BY <2>1, <2>2, <2>4 DEF ServInv, ServTypeOK, OnClose
<1>3. IdleCounted'
  BY <1>0, <1>2, BackOff DEF ServInv, ServTypeOK, IdleCounted, OnClose, Mapped
<1>4. BackOffReset'
  <2>. SUFFICES ASSUME NEW q \in Servers, KindOf[q] # "db"
                PROVE  /\ servConn'[q] = "open" => reconnectCnt'[q] = MIN_RECONNECT_CNT \div 2
                       /\ wasOpen'[q] /\ servConn'[q] = "none" => reconnectCnt'[q] <= MIN_RECONNECT_CNT
    BY DEF BackOffReset
  <2>1. CASE q # s
    BY <2>1 DEF ServInv, ServTypeOK, BackOffReset, OnClose
  <2>2. CASE q = s
    <3>1. servConn'[s] = "none" /\ reconnectCnt'[s] = Doubled(reconnectCnt[s])
          /\ wasOpen'[s] = (servConn[s] = "open")
      BY DEF ServInv, ServTypeOK, OnClose
    <3>2. servConn[s] = "open" => Doubled(reconnectCnt[s]) <= MIN_RECONNECT_CNT
      BY <1>0, <2>2, DoubledIs, BackOff DEF ServInv, BackOffReset
    <3>. QED
      BY <2>2, <3>1, <3>2
  <2>. QED
    BY <2>1, <2>2
<1>5. SilentPeerDropped'
  BY <1>0 DEF ServInv, SilentPeerDropped, OnClose, Mapped
<1>. QED
  BY <1>1, <1>2, <1>3, <1>4, <1>5 DEF ServInv

\* OnConfirm.
LEMMA OnConfirmOrder ==
    ASSUME ServInv, NEW s \in Servers, OnConfirm(s)
    PROVE  ServInv'
<1>0. reconnectCnt \in [Servers -> 1..MAX_RECONNECT_CNT] /\ servConn \in [Servers -> SlotStates]
  BY DEF ServInv, ServTypeOK
<1>1. MasterIsOldest' /\ WellOrdered'
  BY ConfirmedInOrder
<1>2. ServTypeOK'
  <2>1. master' \in Servers \cup {NoServer}
    <3>1. OpenRoutes' \subseteq Servers
      BY DEF OpenRoutes
    <3>. QED
      BY <1>1, <3>1 DEF MasterIsOldest
  <2>2. older' \subseteq Servers \X Servers
    BY DEF ServInv, ServTypeOK, OnConfirm, OpenRoutes
  <2>3. Confirmed(s) \in 1..MAX_RECONNECT_CNT
    BY <1>0, BackOff DEF Confirmed
  <2>4. /\ servConn' \in [Servers -> SlotStates]
        /\ reconnectCnt' \in [Servers -> 1..MAX_RECONNECT_CNT]
    BY <1>0, <2>3 DEF OnConfirm, SlotStates
  <2>. QED
    BY <2>1, <2>2, <2>4 DEF ServInv, ServTypeOK, OnConfirm
<1>3. IdleCounted'
  BY <1>0 DEF ServInv, IdleCounted, OnConfirm, Mapped
<1>4. BackOffReset'
  <2>. SUFFICES ASSUME NEW q \in Servers, KindOf[q] # "db"
                PROVE  /\ servConn'[q] = "open" => reconnectCnt'[q] = MIN_RECONNECT_CNT \div 2
                       /\ wasOpen'[q] /\ servConn'[q] = "none" => reconnectCnt'[q] <= MIN_RECONNECT_CNT
    BY DEF BackOffReset
  <2>1. CASE q # s
    BY <1>0, <2>1 DEF ServInv, BackOffReset, OnConfirm
  <2>2. CASE q = s
    BY <1>0, <2>2 DEF OnConfirm, Confirmed
  <2>. QED
    BY <2>1, <2>2
<1>5. SilentPeerDropped'
  BY <1>0 DEF ServInv, SilentPeerDropped, OnConfirm, Mapped
<1>. QED
  BY <1>1, <1>2, <1>3, <1>4, <1>5 DEF ServInv

\* ServOnRead ends a silence.
LEMMA ServOnReadOrder ==
    ASSUME ServInv, NEW s \in Servers, ServOnRead(s)
    PROVE  ServInv'
<1>1. MasterIsOldest' /\ WellOrdered'
  BY DEF ServInv, ServOnRead, MasterIsOldest, WellOrdered, OpenRoutes
<1>2. ServTypeOK'
  BY DEF ServInv, ServTypeOK, ServOnRead
<1>3. IdleCounted' /\ BackOffReset'
  BY DEF ServInv, ServOnRead, IdleCounted, BackOffReset, Mapped
<1>4. SilentPeerDropped'
  BY ServAssumption DEF ServInv, ServTypeOK, SilentPeerDropped, ServOnRead, Mapped
<1>. QED
  BY <1>1, <1>2, <1>3, <1>4 DEF ServInv

\* One second: the silent connections are dropped and the slots whose time has
\* come are filled.
LEMMA TickOrder ==
    ASSUME ServInv, NEW ok \in [Servers -> BOOLEAN], Tick(ok)
    PROVE  ServInv'
<1>. DEFINE dropped == {s \in Servers : TimedOut(s)}
            due == {s \in Servers : Due(s, idleCnt[s])}
<1>0. /\ servConn \in [Servers -> SlotStates]
      /\ reconnectCnt \in [Servers -> 1..MAX_RECONNECT_CNT]
      /\ idleCnt \in [Servers -> 0..(MAX_RECONNECT_CNT + 2)]
      /\ silence \in [Servers -> Nat]
      /\ away \in [Servers -> 0..AwayBound]
      /\ wasOpen \in [Servers -> BOOLEAN]
  BY DEF ServInv, ServTypeOK
<1>1. \A s \in Servers :
          /\ servConn'[s] = IF s \in dropped THEN "none"
                            ELSE IF s \in due THEN (IF ok[s] THEN "connecting" ELSE "failed")
                            ELSE servConn[s]
          /\ idleCnt'[s] = IF s \in dropped THEN 1
                           ELSE IF servConn[s] = "none" THEN idleCnt[s] + 1 ELSE idleCnt[s]
          /\ reconnectCnt'[s] = IF s \in dropped THEN Doubled(reconnectCnt[s]) ELSE reconnectCnt[s]
          /\ silence'[s] = IF Mapped(s) /\ KindOf[s] # "db" /\ s \notin dropped THEN silence[s] + 1 ELSE 0
          /\ wasOpen'[s] = IF s \in dropped THEN servConn[s] = "open" ELSE wasOpen[s]
          /\ away'[s] = IF Mapped(s) \/ (s \in due /\ ok[s]) THEN 0
                        ELSE IF away[s] = AwayBound THEN AwayBound ELSE away[s] + 1
  BY DEF Tick, Counted
<1>2. /\ servConn' = [s \in Servers |-> servConn'[s]] /\ idleCnt' = [s \in Servers |-> idleCnt'[s]]
      /\ reconnectCnt' = [s \in Servers |-> reconnectCnt'[s]] /\ silence' = [s \in Servers |-> silence'[s]]
      /\ wasOpen' = [s \in Servers |-> wasOpen'[s]] /\ away' = [s \in Servers |-> away'[s]]
  BY DEF Tick
<1>3. \A s \in Servers :
          /\ s \in dropped <=> Mapped(s) /\ KindOf[s] # "db" /\ silence[s] >= ServerTimeout
          /\ s \in due <=> servConn[s] = "none" /\ idleCnt[s] > reconnectCnt[s]
  BY DEF TimedOut, Due
<1>4. MasterIsOldest' /\ WellOrdered'
  <2>1. OpenRoutes' = OpenRoutes \ dropped
    <3>. HIDE DEF dropped, due
    <3>. QED
      BY <1>1, <1>3 DEF OpenRoutes
  <2>2. older' = Without(dropped) /\ master' = MasterAfterClose(dropped)
    BY DEF Tick
  <2>3. dropped \in SUBSET Servers
    OBVIOUS
  <2>. HIDE DEF dropped
  <2>. QED
    BY <2>1, <2>2, <2>3, ClosedInOrder
<1>. HIDE DEF dropped, due
<1>5. ServTypeOK'
  <2>1. master' \in Servers \cup {NoServer}
    <3>1. OpenRoutes' \subseteq Servers
      BY DEF OpenRoutes
    <3>. QED
      BY <1>4, <3>1 DEF MasterIsOldest
  <2>2. older' \subseteq Servers \X Servers
    BY DEF ServInv, ServTypeOK, Tick, Without
  <2>3. ASSUME NEW s \in Servers
        PROVE  servConn'[s] \in SlotStates /\ silence'[s] \in Nat /\ wasOpen'[s] \in BOOLEAN
    <3>1. servConn'[s] \in SlotStates /\ silence'[s] \in Nat
      BY <1>0, <1>1 DEF SlotStates
    <3>2. wasOpen'[s] \in BOOLEAN
      BY <1>0, <1>1
    <3>. QED
      BY <3>1, <3>2
  <2>4. ASSUME NEW s \in Servers
        PROVE  idleCnt'[s] \in 0..(MAX_RECONNECT_CNT + 2)
    <3>1. servConn[s] = "none" => idleCnt[s] <= reconnectCnt[s] + 1
      BY DEF ServInv, IdleCounted
    <3>. QED
      BY <1>0, <1>1, <3>1, BackOff
  <2>5. ASSUME NEW s \in Servers
        PROVE  reconnectCnt'[s] \in 1..MAX_RECONNECT_CNT
    BY <1>0, <1>1, DoubledIs
  <2>6. ASSUME NEW s \in Servers
        PROVE  away'[s] \in 0..AwayBound
    BY <1>0, <1>1, BackOff DEF AwayBound
  <2>. QED
    BY <1>2, <2>1, <2>2, <2>3, <2>4, <2>5, <2>6 DEF ServTypeOK
<1>6. IdleCounted'
  <2>. SUFFICES ASSUME NEW s \in Servers
                PROVE  /\ Mapped(s)' => away'[s] = 0
                       /\ servConn'[s] = "none" => away'[s] <= idleCnt'[s] /\ idleCnt'[s] <= reconnectCnt'[s] + 1
    BY DEF IdleCounted
  <2>1. Mapped(s)' => away'[s] = 0
    BY <1>0, <1>1, <1>3 DEF Mapped
  <2>2. CASE s \in dropped
    <3>1. away'[s] = 0 /\ idleCnt'[s] = 1 /\ reconnectCnt'[s] \in 1..MAX_RECONNECT_CNT
      BY <1>1, <1>3, <1>5, <2>2 DEF ServTypeOK
    <3>. QED
      BY <2>1, <3>1, BackOff
  <2>3. CASE s \notin dropped /\ servConn'[s] = "none"
    <3>1. servConn[s] = "none" /\ s \notin due
      BY <1>1, <2>3
    <3>2. away[s] <= idleCnt[s] /\ ~(idleCnt[s] > reconnectCnt[s])
      BY <1>3, <3>1 DEF ServInv, IdleCounted
    <3>3. away'[s] = IF away[s] = AwayBound THEN AwayBound ELSE away[s] + 1
      BY <1>1, <3>1 DEF Mapped
    <3>4. idleCnt'[s] = idleCnt[s] + 1 /\ reconnectCnt'[s] = reconnectCnt[s]
      BY <1>1, <2>3, <3>1
    <3>5. away[s] \in Nat /\ idleCnt[s] \in Nat /\ reconnectCnt[s] \in Nat /\ AwayBound \in Nat
      BY <1>0, BackOff DEF AwayBound
    <3>. QED
      BY <2>1, <3>2, <3>3, <3>4, <3>5
  <2>. QED
    BY <2>1, <2>2, <2>3
<1>7. BackOffReset'
  <2>. SUFFICES ASSUME NEW s \in Servers, KindOf[s] # "db"
                PROVE  /\ servConn'[s] = "open" => reconnectCnt'[s] = MIN_RECONNECT_CNT \div 2
                       /\ wasOpen'[s] /\ servConn'[s] = "none" => reconnectCnt'[s] <= MIN_RECONNECT_CNT
    BY DEF BackOffReset
  <2>1. CASE s \in dropped
    <3>1. servConn'[s] = "none" /\ wasOpen'[s] = (servConn[s] = "open")
          /\ reconnectCnt'[s] = Doubled(reconnectCnt[s])
      BY <1>1, <2>1
    <3>2. servConn[s] = "open" => Doubled(reconnectCnt[s]) <= MIN_RECONNECT_CNT
      BY <1>0, DoubledIs, BackOff DEF ServInv, BackOffReset
    <3>. QED
      BY <3>1, <3>2
  <2>2. CASE s \notin dropped
    BY <1>1, <2>2 DEF ServInv, BackOffReset
  <2>. QED
    BY <2>1, <2>2
<1>8. SilentPeerDropped'
  <2>. SUFFICES ASSUME NEW s \in Servers, Mapped(s)', KindOf[s] # "db"
                PROVE  silence'[s] <= ServerTimeout
    BY DEF SilentPeerDropped
  <2>1. s \notin dropped
    BY <1>1 DEF Mapped
  <2>. QED
    BY <1>0, <1>1, <1>3, <2>1, ServAssumption
<1>. QED
  BY <1>4, <1>5, <1>6, <1>7, <1>8 DEF ServInv

\* What a step that changes nothing keeps.
LEMMA IdleOrder == ServInv /\ UNCHANGED servVars => ServInv'
BY DEF ServInv, ServTypeOK, MasterIsOldest, WellOrdered, IdleCounted, BackOffReset, SilentPeerDropped,
       OpenRoutes, Mapped, servVars

-----------------------------------------------------------------------------
\* The invariant holds in every state of every behaviour.
THEOREM ServInvariant == ServSpec => []ServInv
<1>1. ServInit => ServInv
  BY InitOrder
<1>2. ServInv /\ [ServNext]_servVars => ServInv'
  <2>. SUFFICES ASSUME ServInv, [ServNext]_servVars PROVE ServInv'
    OBVIOUS
  <2>1. ASSUME NEW s \in Servers, OnClose(s) PROVE ServInv'
    BY <2>1, OnCloseOrder
  <2>2. ASSUME NEW s \in Servers, OnConfirm(s) PROVE ServInv'
    BY <2>2, OnConfirmOrder
  <2>3. ASSUME NEW s \in Servers, ServOnRead(s) PROVE ServInv'
    BY <2>3, ServOnReadOrder
  <2>4. ASSUME NEW ok \in [Servers -> BOOLEAN], Tick(ok) PROVE ServInv'
    BY <2>4, TickOrder
  <2>5. CASE UNCHANGED servVars
    BY <2>5, IdleOrder
  <2>. QED
    BY <2>1, <2>2, <2>3, <2>4, <2>5 DEF ServNext, Timer
<1>. QED
  BY <1>1, <1>2, PTL DEF ServSpec

\* g_master_rs_conn is the open route connection that was confirmed first, for
\* any number of route servers, however they come and go.
THEOREM MasterCorrect == ServSpec => []MasterIsOldest
<1>1. ServInv => MasterIsOldest
  BY DEF ServInv
<1>. QED
  BY <1>1, ServInvariant, PTL

\* A login or route server that had been reached is tried again at most
\* MIN_RECONNECT_CNT + 1 seconds after it was lost.
THEOREM PromptReconnect == ServSpec => []PromptAfterSuccess
<1>1. ServInv => PromptAfterSuccess
  <2>. SUFFICES ASSUME ServInv, NEW s \in Servers, KindOf[s] # "db", wasOpen[s], servConn[s] = "none"
                PROVE  away[s] <= MIN_RECONNECT_CNT + 1
    BY DEF PromptAfterSuccess
  <2>1. away[s] <= idleCnt[s] /\ idleCnt[s] <= reconnectCnt[s] + 1 /\ reconnectCnt[s] <= MIN_RECONNECT_CNT
    BY DEF ServInv, IdleCounted, BackOffReset
  <2>2. away[s] \in Int /\ idleCnt[s] \in Int /\ reconnectCnt[s] \in Int /\ MIN_RECONNECT_CNT \in Int
    BY BackOff DEF ServInv, ServTypeOK, AwayBound
  <2>. QED
    BY <2>1, <2>2
<1>. QED
  BY <1>1, ServInvariant, PTL

\* No login or route connection is silent for longer than SERVER_TIMEOUT.
THEOREM SilenceEnds == ServSpec => []SilentPeerDropped
<1>1. ServInv => SilentPeerDropped
  BY DEF ServInv
<1>. QED
  BY <1>1, ServInvariant, PTL

-----------------------------------------------------------------------------
(* Induction, in the form the sums need: a least counterexample.           *)

\* A set of naturals that is not empty has a least element.
LEMMA LeastNat ==
    ASSUME NEW S, S \subseteq Nat, S # {}
    PROVE  \E x \in S : \A y \in S : x <= y
<1>1. PICK x \in S : \A y \in S : ~(<<y, x>> \in OpToRel(<, Nat))
    BY NatLessThanWellFounded, WFMin
<1>2. ASSUME NEW y \in S, y < x PROVE FALSE
    <2>1. <<y, x>> \in OpToRel(<, Nat)
        BY <1>2 DEF OpToRel
    <2> QED BY <1>1, <2>1
<1> QED BY <1>2

\* A set of subsets of Handles that is not empty has a least one.
LEMMA LeastSubset ==
    ASSUME NEW T, T \subseteq SUBSET Handles, T # {}
    PROVE  \E x \in T : \A y \in T : ~(y \subseteq x /\ y # x)
<1>1. IsWellFoundedOn(StrictSubsetOrdering(Handles), SUBSET Handles)
    BY FS_StrictSubsetOrderingWellFounded, FS_FiniteSubsetsOfFinite, DirectoryAssumption
<1>2. PICK x \in T : \A y \in T : ~(<<y, x>> \in StrictSubsetOrdering(Handles))
    BY <1>1, WFMin
<1>3. ASSUME NEW y \in T PROVE ~(y \subseteq x /\ y # x)
    BY <1>2 DEF StrictSubsetOrdering
<1> QED BY <1>3

-----------------------------------------------------------------------------
(* The sum over Handles.                                                   *)

Pick(s) == CHOOSE x \in s : TRUE

\* it has the sum of the counts n[h] over every set of handles.
Sums(it, n) ==
    /\ it \in [SUBSET Handles -> Int]
    /\ \A s \in SUBSET Handles : it[s] = IF s = {} THEN 0 ELSE n[Pick(s)] + it[s \ {Pick(s)}]

\* Only one function has.
LEMMA SumsUnique ==
    ASSUME NEW it, NEW jt, NEW n,
           DOMAIN it = SUBSET Handles, DOMAIN jt = SUBSET Handles,
           \A s \in SUBSET Handles : it[s] = IF s = {} THEN 0 ELSE n[Pick(s)] + it[s \ {Pick(s)}],
           \A s \in SUBSET Handles : jt[s] = IF s = {} THEN 0 ELSE n[Pick(s)] + jt[s \ {Pick(s)}]
    PROVE  it[Handles] = jt[Handles]
<1> DEFINE T == {s \in SUBSET Handles : it[s] # jt[s]}
<1>1. CASE T # {}
    <2>0. T \subseteq SUBSET Handles
        OBVIOUS
    <2>1. PICK x \in T : \A y \in T : ~(y \subseteq x /\ y # x)
        <3> HIDE DEF T
        <3> QED BY <1>1, <2>0, LeastSubset
    <2>2. x # {}
        BY <2>1
    <2>3. Pick(x) \in x
        BY <2>2 DEF Pick
    <2>4. x \ {Pick(x)} \in SUBSET Handles /\ x \ {Pick(x)} \subseteq x /\ x \ {Pick(x)} # x
        BY <2>3
    <2>5. it[x \ {Pick(x)}] = jt[x \ {Pick(x)}]
        BY <2>1, <2>4
    <2> QED BY <2>1, <2>2, <2>5
<1> QED BY <1>1

\* FoldSet computes it.
LEMMA FoldIsSum ==
    ASSUME NEW it, Sums(it, [h \in Handles |-> servInfo[h].cur])
    PROVE  FoldSet(LAMBDA h, sum : servInfo[h].cur + sum, 0, Handles) = it[Handles]
<1> DEFINE n == [h \in Handles |-> servInfo[h].cur]
           Eq(f) == f = [s \in SUBSET Handles |->
                            IF s = {} THEN 0 ELSE servInfo[Pick(s)].cur + f[s \ {Pick(s)}]]
           jt == CHOOSE f : Eq(f)
<1>1. FoldSet(LAMBDA h, sum : servInfo[h].cur + sum, 0, Handles) = jt[Handles]
    BY Zenon DEF FoldSet, MapThenFoldSet, Pick
<1>2. \A s \in SUBSET Handles : s # {} => Pick(s) \in Handles
    BY DEF Pick
<1>3. Eq(it)
    BY <1>2 DEF Sums
<1>4. Eq(jt)
    BY <1>3
<1> HIDE DEF jt
<1>5. \A s \in SUBSET Handles : jt[s] = IF s = {} THEN 0 ELSE n[Pick(s)] + jt[s \ {Pick(s)}]
    BY <1>2, <1>4
<1> HIDE DEF n
<1>6. DOMAIN it = SUBSET Handles /\ DOMAIN jt = SUBSET Handles
    BY <1>4 DEF Sums
<1>7. \A s \in SUBSET Handles : it[s] = IF s = {} THEN 0 ELSE n[Pick(s)] + it[s \ {Pick(s)}]
    BY DEF Sums, n
<1>8. it[Handles] = jt[Handles]
    BY <1>5, <1>6, <1>7, SumsUnique
<1> QED BY <1>1, <1>8, Zenon

\* Where no count is, the sum is zero.
LEMMA SumsOfNone ==
    Sums([s \in SUBSET Handles |-> 0], [h \in Handles |-> 0])
<1> DEFINE it == [s \in SUBSET Handles |-> 0]
           n == [h \in Handles |-> 0]
<1>1. ASSUME NEW s \in SUBSET Handles, s # {}
      PROVE  Pick(s) \in Handles /\ s \ {Pick(s)} \in SUBSET Handles
    BY <1>1 DEF Pick
<1>2. \A s \in SUBSET Handles : it[s] = IF s = {} THEN 0 ELSE n[Pick(s)] + it[s \ {Pick(s)}]
    BY <1>1
<1>3. it \in [SUBSET Handles -> Int]
    OBVIOUS
<1> QED BY <1>2, <1>3 DEF Sums

\* When one count changes, the sum of all changes by as much.
LEMMA SumsChange ==
    ASSUME NEW it, NEW n \in [Handles -> Int], Sums(it, n), NEW h \in Handles, NEW by \in Int
    PROVE  \E jt : Sums(jt, [n EXCEPT ![h] = @ + by]) /\ jt[Handles] = it[Handles] + by
<1> DEFINE p == [n EXCEPT ![h] = @ + by]
           jt == [s \in SUBSET Handles |-> it[s] + (IF h \in s THEN by ELSE 0)]
<1>0. it \in [SUBSET Handles -> Int]
    BY DEF Sums
<1>1. jt \in [SUBSET Handles -> Int] /\ jt[Handles] = it[Handles] + by
    BY <1>0
<1>2. ASSUME NEW s \in SUBSET Handles
      PROVE  jt[s] = IF s = {} THEN 0 ELSE p[Pick(s)] + jt[s \ {Pick(s)}]
    <2>1. it[s] = IF s = {} THEN 0 ELSE n[Pick(s)] + it[s \ {Pick(s)}]
        BY DEF Sums
    <2>2. CASE s = {}
        BY <2>1, <2>2
    <2>3. CASE s # {}
        <3> DEFINE x == Pick(s)
                   r == s \ {x}
        <3>1. x \in s
            BY <2>3 DEF Pick
        <3> HIDE DEF x
        <3>2. x \in Handles /\ r \in SUBSET Handles
            BY <3>1
        <3>3. it[s] = n[x] + it[r] /\ n[x] \in Int /\ it[r] \in Int
            BY <2>1, <2>3, <3>2, <1>0 DEF x
        <3>4. CASE x = h
            <4>1. h \in s /\ h \notin r /\ p[x] = n[x] + by
                BY <3>1, <3>2, <3>4
            <4>2. jt[s] = it[s] + by /\ jt[r] = it[r]
                BY <4>1, <3>2, <3>3
            <4> QED BY <2>3, <3>3, <4>1, <4>2 DEF x
        <3>5. CASE x # h
            <4>1. (h \in s <=> h \in r) /\ p[x] = n[x]
                BY <3>1, <3>2, <3>5
            <4>2. jt[s] = it[s] + (IF h \in r THEN by ELSE 0) /\ jt[r] = it[r] + (IF h \in r THEN by ELSE 0)
                BY <4>1, <3>2, <3>3
            <4> QED BY <2>3, <3>3, <4>1, <4>2 DEF x
        <3> QED BY <3>4, <3>5
    <2> QED BY <2>2, <2>3
<1>3. Sums(jt, p)
    BY <1>1, <1>2 DEF Sums
<1> QED BY <1>1, <1>3

\* A sum of counts is never more than all the users there can be.
LEMMA SumsBound ==
    ASSUME NEW it, NEW n \in [Handles -> 0..MaxUsers], Sums(it, n)
    PROVE  it[Handles] \in Nat /\ it[Handles] <= Cardinality(Handles) * MaxUsers
<1> DEFINE Within(s) == it[s] \in Nat /\ it[s] <= Cardinality(s) * MaxUsers
           T == {s \in SUBSET Handles : ~Within(s)}
<1>0. MaxUsers \in Nat /\ IsFiniteSet(Handles)
    BY DirectoryAssumption
<1>1. ASSUME T # {} PROVE FALSE
    <2>0. T \subseteq SUBSET Handles
        OBVIOUS
    <2>1. PICK x \in T : \A y \in T : ~(y \subseteq x /\ y # x)
        <3> HIDE DEF T
        <3> QED BY <1>1, <2>0, LeastSubset
    <2>2. it[x] = IF x = {} THEN 0 ELSE n[Pick(x)] + it[x \ {Pick(x)}]
        BY DEF Sums
    <2>3. x # {}
        <3>1. Cardinality({}) = 0
            BY FS_EmptySet
        <3>2. 0 * MaxUsers = 0
            BY <1>0
        <3>3. Within({}) \/ it[{}] # 0
            BY <3>1, <3>2
        <3> QED BY <2>1, <2>2, <3>3
    <2> DEFINE p == Pick(x)
               r == x \ {p}
    <2>4. p \in x
        BY <2>3 DEF Pick
    <2> HIDE DEF p
    <2>5. r \in SUBSET Handles /\ r \subseteq x /\ r # x /\ IsFiniteSet(x) /\ x \in SUBSET Handles
        BY <2>1, <2>4, <1>0, FS_Subset
    <2>6. Within(r)
        BY <2>1, <2>5
    <2>7. Cardinality(x) \in Nat /\ Cardinality(r) \in Nat /\ Cardinality(x) = Cardinality(r) + 1
        <3>1. IsFiniteSet(r) /\ Cardinality(r) = Cardinality(x) - 1
            BY <2>4, <2>5, FS_RemoveElement
        <3> QED BY <2>5, <3>1, FS_CardinalityType
    <2>8. it[x] = n[p] + it[r] /\ n[p] \in 0..MaxUsers
        BY <2>2, <2>3, <2>4, <2>5 DEF p
    <2>9. Cardinality(x) * MaxUsers = Cardinality(r) * MaxUsers + MaxUsers
        BY <1>0, <2>7
    <2>10. Cardinality(r) * MaxUsers \in Nat
        BY <1>0, <2>7
    <2>11. Within(x)
        <3> HIDE DEF r
        <3> QED BY <1>0, <2>6, <2>8, <2>9, <2>10
    <2> QED BY <2>1, <2>11
<1>2. Within(Handles)
    BY <1>1
<1> QED BY <1>2

-----------------------------------------------------------------------------
(* The counts that the updates under way stand for.                        *)

Pdus == {"info", "update"} \X Int

\* v has the count of the receiver before any PDU of out, v[0], and after each;
\* all but the first k are updates.
Follows(out, v, k) ==
    /\ v \in [0..Len(out) -> 0..MaxUsers]
    /\ \A i \in 1..Len(out) : k < i => out[i][1] = "update" /\ v[i] = v[i - 1] + out[i][2]

\* An update that is sent adds a count.
Updated(q, out, by) == out \in Seq(Pdus) /\ by \in Int /\ q = Append(out, <<"update", by>>)
Grown(v, n, by) == [i \in 0..n + 1 |-> IF i = n + 1 THEN v[n] + by ELSE v[i]]

LEMMA FollowsAppend ==
    ASSUME NEW q, NEW out, NEW by, Updated(q, out, by), NEW v, NEW k, Follows(out, v, k),
           v[Len(out)] + by \in 0..MaxUsers
    PROVE  /\ Follows(q, Grown(v, Len(out), by), k)
           /\ Grown(v, Len(out), by)[Len(q)] = v[Len(out)] + by
           /\ \A i \in 0..Len(out) : Grown(v, Len(out), by)[i] = v[i]
<1> DEFINE e == <<"update", by>>
           w == Grown(v, Len(out), by)
<1>0. out \in Seq(Pdus) /\ by \in Int /\ q = Append(out, e)
    BY DEF Updated
<1>9. e \in Pdus /\ e[1] = "update" /\ e[2] = by
    BY <1>0 DEF Pdus
<1> HIDE DEF e
<1>1. q \in Seq(Pdus) /\ Len(q) = Len(out) + 1 /\ Len(out) \in Nat /\ q[Len(q)] = e
      /\ \A i \in 1..Len(out) : q[i] = out[i]
    BY <1>0, <1>9
<1>2. MaxUsers \in Nat
    BY DirectoryAssumption
<1>3. v \in [0..Len(out) -> 0..MaxUsers]
    BY DEF Follows
<1>4. \A i \in 0..Len(out) : w[i] = v[i]
    BY <1>1 DEF Grown
<1>5. w[Len(q)] = v[Len(out)] + by
    BY <1>1 DEF Grown
<1>6. w \in [0..Len(q) -> 0..MaxUsers]
    BY <1>1, <1>3 DEF Grown
<1>7. ASSUME NEW i \in 1..Len(q), k < i
      PROVE  q[i][1] = "update" /\ w[i] = w[i - 1] + q[i][2]
    <2>1. CASE i = Len(q)
        <3>1. w[i - 1] = v[Len(out)]
            BY <1>1, <1>4, <2>1
        <3> QED BY <1>9, <1>1, <1>5, <2>1, <3>1
    <2>2. CASE i # Len(q)
        <3>1. i \in 1..Len(out) /\ i - 1 \in 0..Len(out) /\ i \in 0..Len(out)
            BY <1>1, <2>2
        <3>2. out[i][1] = "update" /\ v[i] = v[i - 1] + out[i][2]
            BY <3>1, <1>7 DEF Follows
        <3> QED BY <1>1, <1>4, <3>1, <3>2
    <2> QED BY <2>1, <2>2
<1>8. Follows(q, w, k)
    BY <1>6, <1>7 DEF Follows
<1> HIDE DEF w
<1> QED BY <1>4, <1>5, <1>8 DEF w

\* A PDU that is read takes the first count away.
LEMMA FollowsTail ==
    ASSUME NEW out \in Seq(Pdus), out # <<>>, NEW v, Follows(out, v, 1)
    PROVE  \E w : /\ Follows(Tail(out), w, 0)
                  /\ w[0] = v[1] /\ w[Len(Tail(out))] = v[Len(out)]
<1> DEFINE q == Tail(out)
           w == [i \in 0..Len(q) |-> v[i + 1]]
<1>1. q \in Seq(Pdus) /\ Len(q) = Len(out) - 1 /\ Len(out) \in Nat /\ Len(q) \in Nat
      /\ \A i \in 1..Len(q) : q[i] = out[i + 1]
    OBVIOUS
<1> HIDE DEF q
<1>3. v \in [0..Len(out) -> 0..MaxUsers]
    BY DEF Follows
<1>4. w[0] = v[1] /\ w[Len(q)] = v[Len(out)]
    BY <1>1
<1>6. w \in [0..Len(q) -> 0..MaxUsers]
    BY <1>1, <1>3
<1>7. ASSUME NEW i \in 1..Len(q)
      PROVE  q[i][1] = "update" /\ w[i] = w[i - 1] + q[i][2]
    <2>1. i + 1 \in 1..Len(out) /\ 1 < i + 1 /\ (i + 1) - 1 = i /\ i \in 0..Len(q)
          /\ i - 1 \in 0..Len(q) /\ (i - 1) + 1 = i
        BY <1>1
    <2>2. out[i + 1][1] = "update" /\ v[i + 1] = v[i] + out[i + 1][2]
        BY <2>1 DEF Follows
    <2>3. w[i] = v[i + 1] /\ w[i - 1] = v[i]
        BY <2>1
    <2> QED BY <1>1, <2>2, <2>3
<1>8. Follows(q, w, 0)
    BY <1>6, <1>7 DEF Follows
<1> HIDE DEF w
<1> QED BY <1>4, <1>8 DEF q

\* What is owed is what those counts differ by.
LEMMA OwedIs ==
    ASSUME NEW c \in Links, link[c].out \in Seq(Pdus), NEW v, Follows(link[c].out, v, 0)
    PROVE  Owed(c) = v[Len(link[c].out)] - v[0]
<1> DEFINE out == link[c].out
           N == Len(out)
           by(i) == IF out[i][1] = "update" THEN out[i][2] ELSE 0
           Eq(f) == f = [i \in 0..N |-> IF i = 0 THEN 0 ELSE f[i - 1] + by(i)]
           net == CHOOSE f : Eq(f)
           d == [i \in 0..N |-> v[i] - v[0]]
<1>1. Owed(c) = net[N]
    BY Zenon DEF Owed
<1>2. N \in Nat /\ v \in [0..N -> 0..MaxUsers] /\ MaxUsers \in Nat
    BY DirectoryAssumption DEF Follows
<1>3. ASSUME NEW i \in 1..N
      PROVE  by(i) = out[i][2] /\ v[i] = v[i - 1] + out[i][2] /\ out[i][2] \in Int
    <2>1. out[i] \in Pdus
        OBVIOUS
    <2>2. out[i][2] \in Int
        BY <2>1 DEF Pdus
    <2>3. 0 < i
        BY <1>2
    <2> QED BY <1>2, <2>2, <2>3 DEF Follows
<1> HIDE DEF out, by, N
<1>4. ASSUME NEW i \in 0..N
      PROVE  d[i] = IF i = 0 THEN 0 ELSE d[i - 1] + by(i)
    <2>1. CASE i = 0
        BY <1>2, <2>1
    <2>2. CASE i # 0
        <3>1. i \in 1..N /\ i - 1 \in 0..N /\ 0 \in 0..N
            BY <1>2, <2>2
        <3>2. v[i] \in Int /\ v[i - 1] \in Int /\ v[0] \in Int
            BY <1>2, <3>1
        <3>3. d[i] = v[i] - v[0] /\ d[i - 1] = v[i - 1] - v[0]
            BY <3>1
        <3>4. by(i) = out[i][2] /\ v[i] = v[i - 1] + out[i][2] /\ out[i][2] \in Int
            BY <1>3, <3>1
        <3>5. d[i] = d[i - 1] + by(i)
            <4> HIDE DEF d
            <4> QED BY ONLY <3>2, <3>3, <3>4
        <3> QED BY <2>2, <3>5
    <2> QED BY <2>1, <2>2
<1>5. Eq(d)
    BY <1>4
<1>6. Eq(net)
    <2> HIDE DEF d
    <2> QED BY <1>5, Zenon
<1> HIDE DEF net
<1> DEFINE T == {i \in 0..N : net[i] # d[i]}
<1>7. ASSUME T # {} PROVE FALSE
    <2>1. T \subseteq Nat
        BY <1>2
    <2>2. PICK x \in T : \A y \in T : x <= y
        <3> HIDE DEF T
        <3> QED BY <2>1, <1>7, LeastNat
    <2> HIDE DEF d
    <2>3. x \in 0..N /\ net[x] # d[x]
        BY <2>2
    <2>4. net[x] = IF x = 0 THEN 0 ELSE net[x - 1] + by(x)
        BY <1>6, <2>3
    <2>5. d[x] = IF x = 0 THEN 0 ELSE d[x - 1] + by(x)
        BY <1>4, <2>3
    <2>6. x # 0
        BY <2>3, <2>4, <2>5
    <2>7. x - 1 \in 0..N /\ ~(x <= x - 1)
        BY <2>3, <2>6, <1>2
    <2>8. net[x - 1] = d[x - 1]
        BY <2>2, <2>7
    <2> QED BY <2>3, <2>4, <2>5, <2>6, <2>8
<1>8. net[N] = d[N]
    <2> HIDE DEF d
    <2>1. N \in 0..N
        BY <1>2
    <2>2. N \notin T
        BY <1>7, Zenon
    <2> QED BY <2>1, <2>2
<1>9. d[N] = v[N] - v[0]
    BY <1>2
<1> QED BY <1>1, <1>8, <1>9 DEF N, out

-----------------------------------------------------------------------------
(* The inductive invariant.                                                *)

LinkRecords ==
    [server : MsgServers \cup {NoServ}, type : {"login", "route"}, handle : Handles \cup {NoServ},
     near : BOOLEAN, far : BOOLEAN, opened : BOOLEAN, out : Seq(Pdus), cut : BOOLEAN]

Infos == {NoInfo} \cup [server : MsgServers, cur : 0..MaxUsers]

DirTypeOK ==
    /\ users \in [MsgServers -> 0..MaxUsers]
    /\ link \in [Links -> LinkRecords]
    /\ connMap \in [Types -> [Handles -> Nat]]
    /\ servInfo \in [Handles -> Infos] /\ totalCnt \in Nat

\* The links that were made are the first ones, and each has its two ends.
MadeInOrder ==
    /\ \E k \in 0..MaxLinks : {d \in Links : link[d] # NoLink} = 1..k
    /\ \A c \in Links : link[c] # NoLink =>
           link[c].server \in MsgServers /\ link[c].type \in Types /\ link[c].handle \in Handles

\* A handle is of one open socket.
HandlesOwned ==
    \A c, d \in Links :
        link[c].far /\ link[d].far /\ link[c].type = link[d].type
            /\ link[c].handle = link[d].handle => c = d

\* The connection of an open socket is found by its handle.
ConnsFound == \A c \in Links : link[c].far => Served(c)

\* What is kept of a msg_server is of one whose link is open.
InfoOfLink ==
    \A h \in Handles : servInfo[h] # NoInfo =>
        \E c \in Links : link[c].far /\ link[c].type = "login" /\ link[c].handle = h

\* Only a login_server is sent updates.
RoutesGetInfo ==
    \A c \in Links : link[c].type = "route" =>
        \A i \in 1..Len(link[c].out) : link[c].out[i][1] = "info"

\* A login link l of which si is kept, to a msg_server with u users: first the
\* info is under way, then updates from what is kept to what that server has.
CountsFollow(l, si, u) ==
    /\ l.cut \/ ~l.opened => l.out = <<>>
    /\ si = NoInfo /\ l.opened /\ ~l.cut =>
           /\ l.out # <<>> /\ l.out[1][1] = "info"
           /\ \E v : Follows(l.out, v, 1) /\ v[1] = l.out[1][2] /\ (l.near => v[Len(l.out)] = u)
    /\ si # NoInfo =>
           /\ l.opened /\ si.server = l.server
           /\ \E v : /\ Follows(l.out, v, 0) /\ v[0] = si.cur
                     /\ l.near /\ ~l.cut => v[Len(l.out)] = u

Far(c) == link[c].far /\ link[c].type = "login"

LinksFollow ==
    \A c \in Links : Far(c) =>
        CountsFollow(link[c], servInfo[link[c].handle], users[link[c].server])

Curs == [h \in Handles |-> servInfo[h].cur]

TotalIsSum == \E it : Sums(it, Curs) /\ totalCnt = it[Handles]

DirInv ==
    /\ DirTypeOK /\ MadeInOrder /\ HandlesOwned /\ ConnsFound
    /\ InfoOfLink /\ RoutesGetInfo /\ LinksFollow /\ TotalIsSum

-----------------------------------------------------------------------------
(* What happens on one link.                                               *)

\* A PDU that is sent on a link that is not cut is the last under way.
LEMMA SendPduIs ==
    ASSUME NEW l \in LinkRecords, NEW m \in Pdus
    PROVE  LET k == SendPdu(l, m) IN
           /\ k \in LinkRecords
           /\ k.server = l.server /\ k.type = l.type /\ k.handle = l.handle
           /\ k.near = l.near /\ k.far = l.far /\ k.opened = l.opened /\ k.cut = l.cut
           /\ k.out = IF l.cut THEN l.out ELSE Append(l.out, m)
BY DEF SendPdu, LinkRecords

\* OnConfirm: the info is the first PDU of the link.
LEMMA ConfirmFollows ==
    ASSUME NEW l \in LinkRecords, NEW si, NEW u \in 0..MaxUsers, CountsFollow(l, si, u), ~l.opened,
           NEW k \in LinkRecords, k.opened, k.cut = l.cut, k.near = l.near,
           k.out = IF l.cut THEN l.out ELSE Append(l.out, <<"info", u>>)
    PROVE  CountsFollow(k, si, u)
<1>0. MaxUsers \in Nat
    BY DirectoryAssumption
<1>1. l.out = <<>> /\ si = NoInfo
    BY DEF CountsFollow
<1>2. CASE l.cut
    BY <1>1, <1>2 DEF CountsFollow
<1>3. CASE ~l.cut
    <2> DEFINE e == <<"info", u>>
               v == [i \in 0..Len(k.out) |-> u]
    <2>0. e \in Pdus /\ e[1] = "info" /\ e[2] = u
        BY <1>0 DEF Pdus
    <2>1. k.out = Append(l.out, e) /\ l.out \in Seq(Pdus) /\ Len(l.out) = 0
        BY <1>1, <1>3 DEF LinkRecords
    <2> HIDE DEF e
    <2>2. k.out # <<>> /\ Len(k.out) = 1 /\ k.out[1] = e
        <3>1. k.out \in Seq(Pdus) /\ Len(k.out) = Len(l.out) + 1 /\ k.out[Len(l.out) + 1] = e
            BY ONLY <2>0, <2>1, AppendProperties
        <3>2. Len(k.out) = 1 /\ k.out[1] = e
            BY ONLY <2>1, <3>1
        <3>3. k.out # <<>>
            BY ONLY <3>2
        <3> QED BY <3>2, <3>3
    <2>3. v \in [0..Len(k.out) -> 0..MaxUsers] /\ v[1] = u /\ v[Len(k.out)] = u
        BY <2>2
    <2> HIDE DEF v
    <2>4. Follows(k.out, v, 1)
        BY <2>2, <2>3 DEF Follows
    <2> QED BY <1>1, <1>3, <2>0, <2>2, <2>3, <2>4 DEF CountsFollow
<1> QED BY <1>2, <1>3

\* A user comes or goes at an open link: the update is the last PDU.
LEMMA UpdateFollows ==
    ASSUME NEW l \in LinkRecords, NEW si, NEW u \in 0..MaxUsers, CountsFollow(l, si, u),
           l.opened, l.near, NEW by \in Int, u + by \in 0..MaxUsers,
           NEW k \in LinkRecords, k.opened, k.cut = l.cut, k.near = l.near, k.server = l.server,
           k.out = IF l.cut THEN l.out ELSE Append(l.out, <<"update", by>>)
    PROVE  CountsFollow(k, si, u + by)
<1>0. l.out \in Seq(Pdus) /\ Len(l.out) \in Nat
    BY DEF LinkRecords
<1>1. CASE l.cut
    BY <1>1 DEF CountsFollow
<1>2. CASE ~l.cut
    <2> DEFINE q == Append(l.out, <<"update", by>>)
    <2>0. Len(q) = Len(l.out) + 1 /\ q # <<>> /\ \A i \in 1..Len(l.out) : q[i] = l.out[i]
        BY <1>0
    <2>1. k.out = q /\ Updated(q, l.out, by)
        BY <1>0, <1>2 DEF Updated
    <2> HIDE DEF q
    <2>2. CASE si = NoInfo
        <3>1. l.out # <<>> /\ l.out[1][1] = "info"
            BY <1>2, <2>2 DEF CountsFollow
        <3>2. PICK v : Follows(l.out, v, 1) /\ v[1] = l.out[1][2] /\ v[Len(l.out)] = u
            BY <1>2, <2>2 DEF CountsFollow
        <3>3. 1 \in Nat /\ 1 \in 0..Len(l.out) /\ v[Len(l.out)] + by \in 0..MaxUsers
            BY <1>0, <3>1, <3>2
        <3> DEFINE w == Grown(v, Len(l.out), by)
        <3>4. /\ Follows(q, w, 1) /\ w[Len(q)] = v[Len(l.out)] + by
              /\ \A i \in 0..Len(l.out) : w[i] = v[i]
            <4>1. Follows(l.out, v, 1) /\ Updated(q, l.out, by) /\ v[Len(l.out)] + by \in 0..MaxUsers
                BY ONLY <2>1, <3>2, <3>3
            <4> QED BY ONLY <4>1, FollowsAppend
        <3> HIDE DEF w
        <3>5. q[1] = l.out[1] /\ w[1] = v[1]
            BY <1>0, <2>0, <3>3, <3>4
        <3> QED BY <1>2, <2>0, <2>1, <2>2, <3>1, <3>2, <3>4, <3>5 DEF CountsFollow
    <2>3. CASE si # NoInfo
        <3>1. si.server = l.server
            BY <2>3 DEF CountsFollow
        <3>2. PICK v : Follows(l.out, v, 0) /\ v[0] = si.cur /\ v[Len(l.out)] = u
            BY <1>2, <2>3 DEF CountsFollow
        <3>3. 0 \in Nat /\ 0 \in 0..Len(l.out) /\ v[Len(l.out)] + by \in 0..MaxUsers
            BY <1>0, <3>2
        <3> DEFINE w == Grown(v, Len(l.out), by)
        <3>4. /\ Follows(q, w, 0) /\ w[Len(q)] = v[Len(l.out)] + by
              /\ \A i \in 0..Len(l.out) : w[i] = v[i]
            <4>1. Follows(l.out, v, 0) /\ Updated(q, l.out, by) /\ v[Len(l.out)] + by \in 0..MaxUsers
                BY ONLY <2>1, <3>2, <3>3
            <4> QED BY ONLY <4>1, FollowsAppend
        <3> HIDE DEF w
        <3>5. w[0] = v[0]
            BY <1>0, <3>3, <3>4
        <3> QED BY <1>2, <2>1, <2>3, <3>1, <3>2, <3>4, <3>5 DEF CountsFollow
    <2> QED BY <2>2, <2>3
<1> QED BY <1>1, <1>2

\* A link that its msg_server has closed owes nothing more.
LEMMA CloseFollows ==
    ASSUME NEW l \in LinkRecords, NEW si, NEW u, CountsFollow(l, si, u),
           NEW k, ~k.near, k.opened = l.opened, k.cut = l.cut, k.server = l.server, k.out = l.out
    PROVE  CountsFollow(k, si, u)
BY DEF CountsFollow

\* A link that is cut keeps the count that was last received.
LEMMA CutFollows ==
    ASSUME NEW l \in LinkRecords, NEW si, NEW u, CountsFollow(l, si, u),
           NEW k, k.cut, k.opened = l.opened, k.server = l.server, k.out = <<>>
    PROVE  CountsFollow(k, si, u)
<1>1. CASE si = NoInfo
    BY <1>1 DEF CountsFollow
<1>2. CASE si # NoInfo
    <2>1. l.opened /\ si.server = l.server
        BY <1>2 DEF CountsFollow
    <2>2. PICK v : Follows(l.out, v, 0) /\ v[0] = si.cur
        BY <1>2 DEF CountsFollow
    <2>3. Len(l.out) \in Nat
        BY DEF LinkRecords
    <2>4. v[0] \in 0..MaxUsers
        BY <2>2, <2>3 DEF Follows
    <2> DEFINE w == [i \in 0..Len(k.out) |-> v[0]]
    <2>5. Len(k.out) = 0
        OBVIOUS
    <2>6. Follows(k.out, w, 0) /\ w[0] = si.cur
        BY <2>2, <2>4, <2>5 DEF Follows
    <2> HIDE DEF w
    <2> QED BY <1>2, <2>1, <2>6 DEF CountsFollow
<1> QED BY <1>1, <1>2

\* HandleMsgServInfo: the count of the info is the one the updates start from.
LEMMA InfoFollows ==
    ASSUME NEW l \in LinkRecords, NEW si, NEW u, CountsFollow(l, si, u),
           l.out # <<>>, Head(l.out)[1] = "info",
           NEW k, k.near = l.near, k.cut = l.cut, k.opened = l.opened, k.server = l.server,
           k.out = Tail(l.out)
    PROVE  /\ si = NoInfo /\ Head(l.out)[2] \in 0..MaxUsers
           /\ l.server # NoServ =>
                  CountsFollow(k, [server |-> l.server, cur |-> Head(l.out)[2]], u)
<1>0. l.out \in Seq(Pdus) /\ Len(l.out) \in Nat /\ 1 \in 1..Len(l.out) /\ Head(l.out) = l.out[1]
    BY DEF LinkRecords
<1>1. si = NoInfo
    <2>1. ASSUME si # NoInfo PROVE FALSE
        <3>1. PICK v : Follows(l.out, v, 0)
            BY <2>1 DEF CountsFollow
        <3>2. l.out[1][1] = "update"
            BY <1>0, <3>1 DEF Follows
        <3> QED BY <1>0, <3>2
    <2> QED BY <2>1
<1>2. l.opened /\ ~l.cut
    BY DEF CountsFollow
<1>3. PICK v : Follows(l.out, v, 1) /\ v[1] = l.out[1][2] /\ (l.near => v[Len(l.out)] = u)
    BY <1>1, <1>2 DEF CountsFollow
<1>4. PICK w : Follows(Tail(l.out), w, 0) /\ w[0] = v[1] /\ w[Len(Tail(l.out))] = v[Len(l.out)]
    BY <1>0, <1>3, FollowsTail
<1>5. v[1] \in 0..MaxUsers
    BY <1>0, <1>3 DEF Follows
<1>6. ASSUME l.server # NoServ
      PROVE  CountsFollow(k, [server |-> l.server, cur |-> Head(l.out)[2]], u)
    <2> DEFINE ti == [server |-> l.server, cur |-> Head(l.out)[2]]
    <2>1. ti # NoInfo /\ ti.server = l.server /\ ti.cur = l.out[1][2]
        BY <1>0, <1>6 DEF NoInfo
    <2> HIDE DEF ti
    <2>2. CountsFollow(k, ti, u)
        BY <1>2, <1>3, <1>4, <2>1 DEF CountsFollow
    <2> QED BY <2>2 DEF ti
<1> QED BY <1>0, <1>1, <1>3, <1>5, <1>6

\* HandleUserCntUpdate: the count moves on to the next; it does not wrap.
LEMMA CntFollows ==
    ASSUME NEW l \in LinkRecords, NEW si, NEW u, CountsFollow(l, si, u),
           l.out # <<>>, Head(l.out)[1] = "update",
           NEW k, k.near = l.near, k.cut = l.cut, k.opened = l.opened, k.server = l.server,
           k.out = Tail(l.out)
    PROVE  /\ si # NoInfo /\ Head(l.out)[2] \in Int
           /\ si.cur + Head(l.out)[2] \in 0..MaxUsers
           /\ l.server # NoServ => CountsFollow(k, [server |-> l.server, cur |-> si.cur + Head(l.out)[2]], u)
<1>0. l.out \in Seq(Pdus) /\ Len(l.out) \in Nat /\ 1 \in 1..Len(l.out) /\ Head(l.out) = l.out[1]
    BY DEF LinkRecords
<1>1. l.opened /\ ~l.cut
    BY DEF CountsFollow
<1>2. si # NoInfo
    <2>1. ASSUME si = NoInfo PROVE FALSE
        <3>1. l.out[1][1] = "info"
            BY <1>1, <2>1 DEF CountsFollow
        <3> QED BY <1>0, <3>1
    <2> QED BY <2>1
<1>3. PICK v : Follows(l.out, v, 0) /\ v[0] = si.cur /\ (l.near => v[Len(l.out)] = u)
    BY <1>1, <1>2 DEF CountsFollow
<1>4. Follows(l.out, v, 1)
    BY <1>0, <1>3 DEF Follows
<1>5. PICK w : Follows(Tail(l.out), w, 0) /\ w[0] = v[1] /\ w[Len(Tail(l.out))] = v[Len(l.out)]
    BY <1>0, <1>4, FollowsTail
<1>6. v[1] = v[0] + l.out[1][2] /\ v[1] \in 0..MaxUsers
    BY <1>0, <1>3 DEF Follows
<1>7. l.out[1][2] \in Int
    <2>1. l.out[1] \in Pdus
        BY <1>0
    <2> QED BY <2>1 DEF Pdus
<1>8. ASSUME l.server # NoServ
      PROVE  CountsFollow(k, [server |-> l.server, cur |-> si.cur + Head(l.out)[2]], u)
    <2> DEFINE ti == [server |-> l.server, cur |-> si.cur + Head(l.out)[2]]
    <2>1. ti # NoInfo /\ ti.server = l.server /\ ti.cur = v[1]
        BY <1>0, <1>3, <1>6, <1>8 DEF NoInfo
    <2> HIDE DEF ti
    <2>2. CountsFollow(k, ti, u)
        BY <1>1, <1>3, <1>5, <2>1 DEF CountsFollow
    <2> QED BY <2>2 DEF ti
<1> QED BY <1>0, <1>2, <1>3, <1>6, <1>7, <1>8

-----------------------------------------------------------------------------
(* The invariant holds at first and says what is wanted.                   *)

LEMMA DirInvInit == DirInit => DirInv
<1> SUFFICES ASSUME DirInit PROVE DirInv
    OBVIOUS
<1>0. MaxUsers \in Nat /\ MaxLinks \in Nat
    BY DirectoryAssumption
<1>1. NoLink \in LinkRecords /\ ~NoLink.far /\ NoLink.out = <<>>
    BY DEF NoLink, LinkRecords
<1>2. \A c \in Links : link[c] = NoLink
    BY DEF DirInit
<1>3. DirTypeOK
    <2>1. users \in [MsgServers -> 0..MaxUsers] /\ totalCnt \in Nat
        BY <1>0 DEF DirInit
    <2>2. link \in [Links -> LinkRecords]
        BY <1>1 DEF DirInit
    <2>3. connMap \in [Types -> [Handles -> Nat]]
        BY DEF DirInit, NoServ
    <2>4. servInfo \in [Handles -> Infos]
        BY DEF DirInit, Infos
    <2> QED BY <2>1, <2>2, <2>3, <2>4 DEF DirTypeOK
<1>4. MadeInOrder
    <2>1. {d \in Links : link[d] # NoLink} = 1..0
        BY <1>2
    <2>2. 0 \in 0..MaxLinks
        BY <1>0
    <2> QED BY <1>2, <2>1, <2>2 DEF MadeInOrder
<1>5. HandlesOwned /\ ConnsFound /\ LinksFollow
    BY <1>1, <1>2 DEF HandlesOwned, ConnsFound, LinksFollow, Far
<1>6. InfoOfLink
    BY DEF InfoOfLink, DirInit
<1>7. RoutesGetInfo
    <2>1. ASSUME NEW c \in Links, NEW i \in 1..Len(link[c].out) PROVE FALSE
        <3>1. Len(link[c].out) = 0
            BY <1>1, <1>2
        <3> QED BY <3>1
    <2> QED BY <2>1 DEF RoutesGetInfo
<1>8. TotalIsSum
    <2>1. Curs = [h \in Handles |-> 0]
        BY DEF Curs, DirInit, NoInfo
    <2> DEFINE it == [s \in SUBSET Handles |-> 0]
    <2>2. it[Handles] = 0
        OBVIOUS
    <2>3. Sums(it, Curs)
        BY <2>1, SumsOfNone
    <2> HIDE DEF it
    <2> QED BY <2>2, <2>3 DEF TotalIsSum, DirInit
<1> QED BY <1>3, <1>4, <1>5, <1>6, <1>7, <1>8 DEF DirInv

LEMMA DirInvSound == DirInv => CountsSound
<1> SUFFICES ASSUME DirInv PROVE CountsSound
    OBVIOUS
<1>1. ASSUME NEW c \in Links,
             link[c].type = "login" /\ link[c].near /\ link[c].far /\ ~link[c].cut
      PROVE  IF servInfo[link[c].handle] # NoInfo
             THEN servInfo[link[c].handle].server = link[c].server
                      /\ servInfo[link[c].handle].cur + Owed(c) = users[link[c].server]
             ELSE link[c].opened => \E i \in DOMAIN link[c].out : link[c].out[i][1] = "info"
    <2> DEFINE l == link[c]
               si == servInfo[l.handle]
               u == users[l.server]
    <2>1. CountsFollow(l, si, u)
        BY <1>1 DEF DirInv, LinksFollow, Far
    <2>2. l \in LinkRecords /\ l.out \in Seq(Pdus) /\ Len(l.out) \in Nat
        BY DEF DirInv, DirTypeOK, LinkRecords
    <2>3. MaxUsers \in Nat
        BY DirectoryAssumption
    <2>4. CASE si # NoInfo
        <3> HIDE DEF l, si, u
        <3>1. si.server = l.server
            BY <2>1, <2>4 DEF CountsFollow
        <3>2. l.near /\ ~l.cut
            BY <1>1 DEF l
        <3>3. PICK v : Follows(l.out, v, 0) /\ v[0] = si.cur /\ v[Len(l.out)] = u
            BY <2>1, <2>4, <3>2 DEF CountsFollow
        <3>4. Owed(c) = v[Len(l.out)] - v[0]
            BY <2>2, <3>3, OwedIs DEF l
        <3>5. v[0] \in Int /\ v[Len(l.out)] \in Int
            BY <2>2, <2>3, <3>3 DEF Follows
        <3>6. si.cur + Owed(c) = u
            BY <3>3, <3>4, <3>5
        <3> QED BY <2>4, <3>1, <3>6 DEF l, si, u
    <2>5. CASE si = NoInfo
        <3>1. ASSUME l.opened PROVE \E i \in DOMAIN l.out : l.out[i][1] = "info"
            <4>1. l.out # <<>> /\ l.out[1][1] = "info"
                BY <1>1, <2>1, <2>5, <3>1 DEF CountsFollow
            <4>2. 1 \in DOMAIN l.out
                BY <2>2, <4>1
            <4> QED BY <4>1, <4>2
        <3> QED BY <2>5, <3>1
    <2> QED BY <2>4, <2>5
<1>2. totalCnt = FoldSet(LAMBDA h, sum : servInfo[h].cur + sum, 0, Handles)
    <2>1. PICK it : Sums(it, Curs) /\ totalCnt = it[Handles]
        BY DEF DirInv, TotalIsSum
    <2>2. FoldSet(LAMBDA h, sum : servInfo[h].cur + sum, 0, Handles) = it[Handles]
        BY <2>1, FoldIsSum, Zenon DEF Curs
    <2> QED BY <2>1, <2>2, Zenon
<1>3. \A c \in Links :
          link[c].type = "login" /\ link[c].near /\ link[c].far /\ ~link[c].cut =>
              IF servInfo[link[c].handle] # NoInfo
              THEN servInfo[link[c].handle].server = link[c].server
                       /\ servInfo[link[c].handle].cur + Owed(c) = users[link[c].server]
              ELSE link[c].opened => \E i \in DOMAIN link[c].out : link[c].out[i][1] = "info"
    BY <1>1, Zenon
<1> QED BY <1>2, <1>3, Zenon DEF CountsSound

-----------------------------------------------------------------------------
(* The steps.                                                              *)

\* A step that makes no link keeps what each was made with.
LinksKept ==
    /\ link' \in [Links -> LinkRecords]
    /\ \A d \in Links :
           /\ link'[d].server = link[d].server /\ link'[d].type = link[d].type
           /\ link'[d].handle = link[d].handle
           /\ link'[d].far => link[d].far
           /\ link[d] = NoLink => link'[d] = NoLink

LEMMA KeptInOrder ==
    ASSUME DirInv, LinksKept
    PROVE  MadeInOrder' /\ HandlesOwned'
<1>1. ASSUME NEW d \in Links, link[d] # NoLink PROVE link'[d] # NoLink
    <2>1. link[d].server \in MsgServers /\ link'[d].server = link[d].server
        BY <1>1 DEF DirInv, MadeInOrder, LinksKept
    <2> QED BY <2>1, DirectoryAssumption DEF NoLink
<1>2. \A d \in Links : link'[d] # NoLink <=> link[d] # NoLink
    BY <1>1 DEF LinksKept
<1>3. {d \in Links : link'[d] # NoLink} = {d \in Links : link[d] # NoLink}
    BY <1>2
<1>4. MadeInOrder'
    BY <1>2, <1>3 DEF DirInv, MadeInOrder, LinksKept
<1>5. HandlesOwned'
    BY DEF DirInv, HandlesOwned, LinksKept
<1> QED BY <1>4, <1>5

\* A step of the msg_servers or the network changes no end of login_server.
NearStep ==
    /\ LinksKept /\ \A d \in Links : link'[d].far = link[d].far
    /\ UNCHANGED <<connMap, servInfo, totalCnt>>

LEMMA NearStepInv ==
    ASSUME DirInv, NearStep, users' \in [MsgServers -> 0..MaxUsers], RoutesGetInfo', LinksFollow'
    PROVE  DirInv'
<1>1. MadeInOrder' /\ HandlesOwned'
    BY KeptInOrder DEF NearStep
<1>2. DirTypeOK'
    BY DEF DirInv, DirTypeOK, NearStep, LinksKept
<1>3. ConnsFound'
    BY DEF DirInv, ConnsFound, Served, NearStep, LinksKept
<1>4. InfoOfLink'
    BY DEF DirInv, InfoOfLink, NearStep, LinksKept
<1>5. TotalIsSum'
    <2>1. Curs' = Curs
        BY DEF Curs, NearStep
    <2> QED BY <2>1 DEF DirInv, TotalIsSum, NearStep
<1> QED BY <1>1, <1>2, <1>3, <1>4, <1>5 DEF DirInv

\* A step of one link that changes neither the users nor what is kept of others.
LEMMA OneFollows ==
    ASSUME DirInv, LinksKept, NEW c \in Links, UNCHANGED users,
           \A d \in Links \ {c} : link'[d] = link[d]
               /\ (Far(d) => servInfo'[link[d].handle] = servInfo[link[d].handle]),
           Far(c) /\ link'[c].far =>
               CountsFollow(link'[c], servInfo'[link[c].handle], users[link[c].server])
    PROVE  LinksFollow'
<1> SUFFICES ASSUME NEW d \in Links, Far(d)'
             PROVE  CountsFollow(link'[d], servInfo'[link'[d].handle], users'[link'[d].server])
    BY DEF LinksFollow
<1>1. /\ Far(d) /\ link'[d].far
      /\ link'[d].handle = link[d].handle /\ link'[d].server = link[d].server
    BY DEF Far, LinksKept
<1>2. CASE d = c
    BY <1>1, <1>2
<1>3. CASE d # c
    <2>1. CountsFollow(link[d], servInfo[link[d].handle], users[link[d].server])
        BY <1>1 DEF DirInv, LinksFollow
    <2> QED BY <1>1, <1>3, <2>1
<1> QED BY <1>2, <1>3

\* A link with an end that is open was made.
LEMMA MadeLink ==
    ASSUME DirInv, NEW c \in Links, link[c].near \/ link[c].far
    PROVE  /\ link[c] # NoLink /\ link[c] \in LinkRecords
           /\ link[c].server \in MsgServers /\ link[c].server # NoServ
           /\ link[c].type \in Types /\ link[c].handle \in Handles
           /\ users[link[c].server] \in 0..MaxUsers
<1>1. link[c] # NoLink
    BY DEF NoLink
<1>2. link[c].server \in MsgServers /\ link[c].type \in Types /\ link[c].handle \in Handles
    BY <1>1 DEF DirInv, MadeInOrder
<1>3. link[c] \in LinkRecords /\ users[link[c].server] \in 0..MaxUsers
    BY <1>2 DEF DirInv, DirTypeOK
<1> QED BY <1>1, <1>2, <1>3, DirectoryAssumption

\* A step that changes one link, and not what it was made with.
LEMMA OneKept ==
    ASSUME DirInv, NEW c \in Links, link[c] # NoLink, NEW l \in LinkRecords, link' = [link EXCEPT ![c] = l],
           l.server = link[c].server, l.type = link[c].type, l.handle = link[c].handle,
           l.far => link[c].far
    PROVE  /\ LinksKept /\ link'[c] = l /\ \A d \in Links \ {c} : link'[d] = link[d]
<1>1. link \in [Links -> LinkRecords]
    BY DEF DirInv, DirTypeOK
<1>2. link'[c] = l /\ \A d \in Links \ {c} : link'[d] = link[d]
    BY <1>1
<1>3. link' \in [Links -> LinkRecords]
    BY <1>1
<1> QED BY <1>2, <1>3 DEF LinksKept

\* A link that gets no update, or is not to a route_server, goes on so.
LEMMA RoutesKept ==
    ASSUME DirInv, NEW c \in Links, LinksKept, \A d \in Links \ {c} : link'[d] = link[d],
           link[c].type = "route" => \A i \in 1..Len(link'[c].out) : link'[c].out[i][1] = "info"
    PROVE  RoutesGetInfo'
<1> SUFFICES ASSUME NEW d \in Links, link'[d].type = "route", NEW i \in 1..Len(link'[d].out)
             PROVE  link'[d].out[i][1] = "info"
    BY DEF RoutesGetInfo
<1>1. link[d].type = "route"
    BY DEF LinksKept
<1>2. CASE d = c
    BY <1>1, <1>2
<1>3. CASE d # c
    BY <1>1, <1>3 DEF DirInv, RoutesGetInfo
<1> QED BY <1>2, <1>3

LEMMA StepLinkConfirm ==
    ASSUME DirInv, NEW c \in Links, LinkConfirm(c)
    PROVE  DirInv'
<1> DEFINE l == link[c]
           u == users[l.server]
           m == <<"info", u>>
           o == [l EXCEPT !.opened = TRUE]
           k == SendPdu(o, m)
<1>0. link[c].near /\ ~link[c].opened /\ link' = [link EXCEPT ![c] = k]
      /\ UNCHANGED <<users, connMap, servInfo, totalCnt>>
    BY DEF LinkConfirm
<1>1. l # NoLink /\ l \in LinkRecords /\ u \in 0..MaxUsers
    BY <1>0, MadeLink
<1>2. m \in Pdus /\ m[1] = "info"
    <2>1. MaxUsers \in Nat
        BY DirectoryAssumption
    <2>2. u \in Int
        BY <1>1, <2>1
    <2> HIDE DEF u
    <2> QED BY <2>2 DEF Pdus
<1>3. o \in LinkRecords /\ o.opened /\ o.server = l.server /\ o.type = l.type /\ o.handle = l.handle
      /\ o.near = l.near /\ o.far = l.far /\ o.cut = l.cut /\ o.out = l.out
    BY <1>1 DEF LinkRecords
<1> HIDE DEF o
<1>4. /\ k \in LinkRecords
      /\ k.server = o.server /\ k.type = o.type /\ k.handle = o.handle
      /\ k.near = o.near /\ k.far = o.far /\ k.opened = o.opened /\ k.cut = o.cut
      /\ k.out = IF o.cut THEN o.out ELSE Append(o.out, m)
    BY <1>2, <1>3, SendPduIs
<1> HIDE DEF k, m
<1>5. LinksKept /\ link'[c] = k /\ \A d \in Links \ {c} : link'[d] = link[d]
    BY <1>0, <1>1, <1>3, <1>4, OneKept
<1>6. NearStep
    BY <1>0, <1>3, <1>4, <1>5 DEF NearStep
<1>7. RoutesGetInfo'
    <2>1. ASSUME l.type = "route", NEW i \in 1..Len(k.out) PROVE k.out[i][1] = "info"
        <3>1. \A j \in 1..Len(l.out) : l.out[j][1] = "info"
            BY <2>1 DEF DirInv, RoutesGetInfo
        <3>2. l.out \in Seq(Pdus)
            BY <1>1 DEF LinkRecords
        <3>3. CASE l.cut
            BY <1>3, <1>4, <2>1, <3>1, <3>3
        <3>4. CASE ~l.cut
            <4>1. k.out = Append(l.out, m)
                BY <1>3, <1>4, <3>4
            <4> HIDE DEF l
            <4>2. i = Len(l.out) + 1 \/ i \in 1..Len(l.out)
                BY <1>2, <2>1, <3>2, <4>1
            <4>3. k.out[i] = IF i = Len(l.out) + 1 THEN m ELSE l.out[i]
                BY <1>2, <2>1, <3>2, <4>1, <4>2
            <4> QED BY <1>2, <3>1, <4>2, <4>3
        <3> QED BY <3>3, <3>4
    <2> QED BY <1>5, <2>1, RoutesKept
<1>8. LinksFollow'
    <2>1. ASSUME Far(c) PROVE CountsFollow(k, servInfo[l.handle], u)
        <3>1. CountsFollow(l, servInfo[l.handle], u)
            BY <2>1 DEF DirInv, LinksFollow
        <3>2. ~l.opened /\ k.opened /\ k.cut = l.cut /\ k.near = l.near
              /\ k.out = IF l.cut THEN l.out ELSE Append(l.out, <<"info", u>>)
            BY <1>0, <1>3, <1>4 DEF m
        <3> DEFINE si == servInfo[l.handle]
        <3> HIDE DEF l, u, si
        <3>3. CountsFollow(k, si, u)
            BY <1>1, <1>4, <3>1, <3>2, ConfirmFollows DEF si
        <3> QED BY <3>3 DEF si
    <2>2. UNCHANGED users /\ servInfo' = servInfo
        BY <1>0
    <2> QED BY <1>5, <2>1, <2>2, OneFollows
<1>9. users' \in [MsgServers -> 0..MaxUsers]
    BY <1>0 DEF DirInv, DirTypeOK
<1> QED BY <1>6, <1>7, <1>8, <1>9, NearStepInv

\* The msg_server's end of a link is closed.
LEMMA StepNearClose ==
    ASSUME DirInv, NEW c \in Links, NearClose(c) \/ MsgServerStops(c)
    PROVE  DirInv'
<1> DEFINE l == link[c]
           k == [l EXCEPT !.near = FALSE]
<1>0. link[c].near /\ link' = [link EXCEPT ![c] = k]
      /\ UNCHANGED <<users, connMap, servInfo, totalCnt>>
    BY DEF NearClose, MsgServerStops
<1>1. l # NoLink /\ l \in LinkRecords
    BY <1>0, MadeLink
<1>2. k \in LinkRecords /\ ~k.near /\ k.server = l.server /\ k.type = l.type /\ k.handle = l.handle
      /\ k.far = l.far /\ k.opened = l.opened /\ k.cut = l.cut /\ k.out = l.out
    BY <1>1 DEF LinkRecords
<1> HIDE DEF k
<1>3. LinksKept /\ link'[c] = k /\ \A d \in Links \ {c} : link'[d] = link[d]
    BY <1>0, <1>1, <1>2, OneKept
<1>4. NearStep
    BY <1>0, <1>2, <1>3 DEF NearStep
<1>5. RoutesGetInfo'
    <2>1. l.type = "route" => \A i \in 1..Len(k.out) : k.out[i][1] = "info"
        BY <1>2 DEF DirInv, RoutesGetInfo
    <2> QED BY <1>3, <2>1, RoutesKept
<1>6. LinksFollow'
    <2>1. ASSUME Far(c) PROVE CountsFollow(k, servInfo[l.handle], users[l.server])
        <3>1. CountsFollow(l, servInfo[l.handle], users[l.server])
            BY <2>1 DEF DirInv, LinksFollow
        <3> HIDE DEF l
        <3> QED BY <1>1, <1>2, <3>1, CloseFollows
    <2>2. UNCHANGED users /\ servInfo' = servInfo
        BY <1>0
    <2> QED BY <1>3, <2>1, <2>2, OneFollows
<1>7. users' \in [MsgServers -> 0..MaxUsers]
    BY <1>0 DEF DirInv, DirTypeOK
<1> QED BY <1>4, <1>5, <1>6, <1>7, NearStepInv

LEMMA StepCut ==
    ASSUME DirInv, NEW c \in Links, Cut(c)
    PROVE  DirInv'
<1> DEFINE l == link[c]
           k == [l EXCEPT !.cut = TRUE, !.out = <<>>]
<1>0. link[c].far /\ UNCHANGED <<users, connMap, servInfo, totalCnt>>
    BY DEF Cut
<1>1. l # NoLink /\ l \in LinkRecords
    BY <1>0, MadeLink
<1>2. k \in LinkRecords /\ k.cut /\ k.near = l.near /\ k.server = l.server /\ k.type = l.type
      /\ k.handle = l.handle /\ k.far = l.far /\ k.opened = l.opened /\ k.out = <<>>
    <2> DEFINE e == <<>>
    <2>1. e \in Seq(Pdus)
        OBVIOUS
    <2>2. k = [l EXCEPT !.cut = TRUE, !.out = e]
        OBVIOUS
    <2>3. l \in LinkRecords
        BY <1>1
    <2> HIDE DEF e, k, l
    <2>4. k \in LinkRecords /\ k.cut /\ k.near = l.near /\ k.server = l.server /\ k.type = l.type
          /\ k.handle = l.handle /\ k.far = l.far /\ k.opened = l.opened /\ k.out = e
        BY <2>1, <2>2, <2>3 DEF LinkRecords
    <2> QED BY <2>4 DEF e
<1>9. link' = [link EXCEPT ![c] = k]
    BY DEF Cut, DirInv, DirTypeOK
<1> HIDE DEF k
<1>3. LinksKept /\ link'[c] = k /\ \A d \in Links \ {c} : link'[d] = link[d]
    BY <1>9, <1>1, <1>2, OneKept
<1>4. NearStep
    BY <1>0, <1>2, <1>3 DEF NearStep
<1>5. RoutesGetInfo'
    <2>1. Len(k.out) = 0
        BY <1>2
    <2>2. \A i \in 1..Len(k.out) : k.out[i][1] = "info"
        BY <2>1
    <2> QED BY <1>3, <2>2, RoutesKept
<1>6. LinksFollow'
    <2>1. ASSUME Far(c) PROVE CountsFollow(k, servInfo[l.handle], users[l.server])
        <3>1. CountsFollow(l, servInfo[l.handle], users[l.server])
            BY <2>1 DEF DirInv, LinksFollow
        <3> HIDE DEF l
        <3> QED BY <1>1, <1>2, <3>1, CutFollows
    <2>2. UNCHANGED users /\ servInfo' = servInfo
        BY <1>0
    <2> QED BY <1>3, <2>1, <2>2, OneFollows
<1>7. users' \in [MsgServers -> 0..MaxUsers]
    BY <1>0 DEF DirInv, DirTypeOK
<1> QED BY <1>4, <1>5, <1>6, <1>7, NearStepInv

\* Where no update is sent or the link is not open, how many users the
\* msg_server has does not matter yet.
LEMMA UsersOpen ==
    ASSUME NEW l \in LinkRecords, NEW si, NEW u, NEW w, CountsFollow(l, si, u), ~(l.near /\ l.opened)
    PROVE  CountsFollow(l, si, w)
BY DEF CountsFollow

LEMMA StepUserChange ==
    ASSUME DirInv, NEW s \in MsgServers, NEW by \in {1, -1}, UserChange(s, by)
    PROVE  DirInv'
<1> DEFINE m == <<"update", by>>
           Sent(c) == link[c].server = s /\ link[c].type = "login" /\ link[c].near /\ link[c].opened
<1>0. /\ users[s] + by \in 0..MaxUsers /\ users' = [users EXCEPT ![s] = @ + by]
      /\ link' = [c \in Links |-> IF Sent(c) THEN SendPdu(link[c], m) ELSE link[c]]
      /\ UNCHANGED <<connMap, servInfo, totalCnt>>
    BY DEF UserChange, SendToAll, LinkOf
<1>1. m \in Pdus /\ by \in Int
    BY DEF Pdus
<1>2. link \in [Links -> LinkRecords] /\ users \in [MsgServers -> 0..MaxUsers]
    BY DEF DirInv, DirTypeOK
<1>3. ASSUME NEW c \in Links, Sent(c)
      PROVE  /\ link'[c] \in LinkRecords
             /\ link'[c].server = link[c].server /\ link'[c].type = link[c].type
             /\ link'[c].handle = link[c].handle
             /\ link'[c].near = link[c].near /\ link'[c].far = link[c].far
             /\ link'[c].opened = link[c].opened /\ link'[c].cut = link[c].cut
             /\ link'[c].out = IF link[c].cut THEN link[c].out ELSE Append(link[c].out, m)
    <2>1. link'[c] = SendPdu(link[c], m) /\ link[c] \in LinkRecords
        BY <1>0, <1>2, <1>3
    <2> HIDE DEF m
    <2> QED BY <1>1, <2>1, SendPduIs
<1>4. ASSUME NEW c \in Links, ~Sent(c) PROVE link'[c] = link[c]
    BY <1>0, <1>4
<1>5. ASSUME NEW c \in Links, Sent(c) PROVE link[c] # NoLink
    BY <1>5 DEF NoLink
<1>6. LinksKept
    <2>1. DOMAIN link' = Links /\ link' = [c \in Links |-> link'[c]]
        BY <1>0
    <2>2. \A c \in Links : link'[c] \in LinkRecords
        BY <1>2, <1>3, <1>4
    <2> HIDE DEF Sent
    <2>3. link' \in [Links -> LinkRecords]
        BY <2>1, <2>2
    <2>4. ASSUME NEW d \in Links
          PROVE  /\ link'[d].server = link[d].server /\ link'[d].type = link[d].type
                 /\ link'[d].handle = link[d].handle
                 /\ link'[d].far => link[d].far
                 /\ link[d] = NoLink => link'[d] = NoLink
        <3>1. CASE Sent(d)
            BY <3>1, <1>3, <1>5
        <3>2. CASE ~Sent(d)
            BY <3>2, <1>4
        <3> QED BY <3>1, <3>2
    <2> QED BY <2>3, <2>4 DEF LinksKept
<1>7. NearStep
    <2> HIDE DEF Sent
    <2>1. \A d \in Links : link'[d].far = link[d].far
        BY <1>3, <1>4
    <2> QED BY <1>0, <1>6, <2>1 DEF NearStep
<1>8. users' \in [MsgServers -> 0..MaxUsers] /\ users'[s] = users[s] + by
      /\ \A t \in MsgServers \ {s} : users'[t] = users[t]
    BY <1>0, <1>2
<1>9. RoutesGetInfo'
    <2>1. ASSUME NEW c \in Links, link'[c].type = "route"
          PROVE  \A i \in 1..Len(link'[c].out) : link'[c].out[i][1] = "info"
        <3>1. link[c].type = "route"
            BY <1>6, <2>1 DEF LinksKept
        <3>2. link'[c] = link[c]
            BY <1>4, <3>1
        <3> QED BY <3>1, <3>2 DEF DirInv, RoutesGetInfo
    <2> QED BY <2>1 DEF RoutesGetInfo
<1>10. LinksFollow'
    <2> SUFFICES ASSUME NEW c \in Links, Far(c)'
                 PROVE  CountsFollow(link'[c], servInfo'[link'[c].handle], users'[link'[c].server])
        BY DEF LinksFollow
    <2> DEFINE l == link[c]
               k == link'[c]
               si == servInfo[l.handle]
               u == users[l.server]
    <2>1. Far(c) /\ k.handle = l.handle /\ k.server = l.server /\ servInfo' = servInfo
        BY <1>0, <1>6 DEF Far, LinksKept
    <2>2. CountsFollow(l, si, u)
        BY <2>1 DEF DirInv, LinksFollow
    <2>3. l \in LinkRecords /\ u \in 0..MaxUsers /\ l.server \in MsgServers
        BY <2>1, MadeLink DEF Far
    <2>4. CASE Sent(c)
        <3>1. l.opened /\ l.near /\ u + by \in 0..MaxUsers /\ users'[l.server] = u + by
            BY <1>0, <1>8, <2>4
        <3>2. k \in LinkRecords /\ k.opened /\ k.cut = l.cut /\ k.near = l.near /\ k.server = l.server
              /\ k.out = IF l.cut THEN l.out ELSE Append(l.out, <<"update", by>>)
            BY <1>3, <2>4
        <3> HIDE DEF l, k, si, u
        <3>3. CountsFollow(k, si, u + by)
            BY <1>1, <2>2, <2>3, <3>1, <3>2, UpdateFollows
        <3> QED BY <2>1, <3>1, <3>3 DEF si, l, k
    <2>5. CASE ~Sent(c) /\ l.server = s
        <3>1. k = l /\ ~(l.near /\ l.opened)
            BY <1>4, <2>1, <2>5 DEF Far
        <3> HIDE DEF l, k, si, u
        <3>2. CountsFollow(l, si, users'[l.server])
            BY <2>2, <2>3, <3>1, UsersOpen
        <3> QED BY <2>1, <3>1, <3>2 DEF si, l, k
    <2>6. CASE l.server # s
        <3>1. k = l /\ users'[l.server] = u
            BY <1>4, <1>8, <2>3, <2>6
        <3> QED BY <2>1, <2>2, <3>1
    <2> QED BY <2>4, <2>5, <2>6
<1> QED BY <1>7, <1>8, <1>9, <1>10, NearStepInv

-----------------------------------------------------------------------------
(* The end of login_server.                                                *)

\* What is kept of one handle changes, and the total with it, without wrapping.
LEMMA TotalStep ==
    ASSUME DirInv, NEW h \in Handles, NEW t \in Infos, servInfo' = [servInfo EXCEPT ![h] = t],
           NEW x, x = totalCnt + (t.cur - servInfo[h].cur), totalCnt' = x % CountMod
    PROVE  TotalIsSum' /\ totalCnt' \in Nat
<1> DEFINE by == t.cur - servInfo[h].cur
<1>0. MaxUsers \in Nat /\ CountMod \in Nat /\ IsFiniteSet(Handles)
      /\ Cardinality(Handles) * MaxUsers < CountMod
    BY DirectoryAssumption
<1>1. servInfo \in [Handles -> Infos] /\ servInfo' \in [Handles -> Infos] /\ totalCnt \in Nat
    BY DEF DirInv, DirTypeOK
<1>2. \A i \in Infos : i.cur \in 0..MaxUsers
    BY <1>0 DEF Infos, NoInfo
<1>3. Curs \in [Handles -> 0..MaxUsers] /\ Curs' \in [Handles -> 0..MaxUsers] /\ Curs \in [Handles -> Int]
    BY <1>0, <1>1, <1>2 DEF Curs
<1>4. by \in Int /\ Curs[h] = servInfo[h].cur
    BY <1>0, <1>1, <1>2 DEF Curs
<1>5. Curs' = [Curs EXCEPT ![h] = @ + by]
    <2>1. Curs'[h] = Curs[h] + by
        BY <1>0, <1>1, <1>2, <1>4 DEF Curs
    <2>2. \A g \in Handles : g # h => Curs'[g] = Curs[g]
        BY <1>1 DEF Curs
    <2> HIDE DEF by
    <2> QED BY <1>3, <2>1, <2>2
<1>6. PICK it : Sums(it, Curs) /\ totalCnt = it[Handles]
    BY DEF DirInv, TotalIsSum
<1> HIDE DEF by
<1>7. PICK jt : Sums(jt, Curs') /\ jt[Handles] = it[Handles] + by
    <2>1. PICK jt : Sums(jt, [Curs EXCEPT ![h] = @ + by]) /\ jt[Handles] = it[Handles] + by
        BY ONLY h \in Handles, <1>3, <1>4, <1>6, SumsChange
    <2> QED BY <1>5, <2>1
<1>8. jt[Handles] \in Nat /\ jt[Handles] <= Cardinality(Handles) * MaxUsers
    BY <1>3, <1>7, SumsBound
<1>9. Cardinality(Handles) * MaxUsers \in Nat
    BY <1>0, FS_CardinalityType
<1>10. jt[Handles] < CountMod /\ x = jt[Handles]
    BY <1>0, <1>6, <1>7, <1>8, <1>9 DEF by
<1>11. x % CountMod = x
    BY <1>0, <1>8, <1>10
<1> QED BY <1>7, <1>8, <1>10, <1>11 DEF TotalIsSum

\* The first PDU of a link is read.
LEMMA TakePduIs ==
    ASSUME DirInv, NEW c \in Links, link[c].far, link[c].out # <<>>, TakePdu(c)
    PROVE  /\ LinksKept /\ \A d \in Links \ {c} : link'[d] = link[d]
           /\ link'[c].out = Tail(link[c].out) /\ RoutesGetInfo'
           /\ link'[c].near = link[c].near /\ link'[c].far = link[c].far
           /\ link'[c].opened = link[c].opened /\ link'[c].cut = link[c].cut
           /\ link'[c].server = link[c].server
<1> DEFINE l == link[c]
           q == Tail(l.out)
           k == [l EXCEPT !.out = q]
<1>1. l # NoLink /\ l \in LinkRecords
    BY MadeLink
<1>2. l.out \in Seq(Pdus) /\ q \in Seq(Pdus) /\ Len(q) = Len(l.out) - 1
      /\ Len(q) \in Nat /\ \A i \in 1..Len(q) : q[i] = l.out[i + 1]
    BY <1>1 DEF LinkRecords
<1>3. link' = [link EXCEPT ![c] = k]
    BY DEF TakePdu
<1> HIDE DEF q
<1>4. k \in LinkRecords /\ k.near = l.near /\ k.server = l.server /\ k.type = l.type
      /\ k.handle = l.handle /\ k.far = l.far /\ k.opened = l.opened /\ k.cut = l.cut /\ k.out = q
    BY <1>1, <1>2 DEF LinkRecords
<1> HIDE DEF k
<1>5. LinksKept /\ link'[c] = k /\ \A d \in Links \ {c} : link'[d] = link[d]
    BY <1>1, <1>3, <1>4, OneKept
<1>6. RoutesGetInfo'
    <2>1. ASSUME l.type = "route", NEW i \in 1..Len(k.out) PROVE k.out[i][1] = "info"
        <3>1. i + 1 \in 1..Len(l.out) /\ k.out[i] = l.out[i + 1]
            BY <1>2, <1>4, <2>1
        <3> QED BY <2>1, <3>1 DEF DirInv, RoutesGetInfo
    <2> QED BY <1>5, <2>1, RoutesKept
<1> QED BY <1>4, <1>5, <1>6 DEF q

\* A step that reads a PDU of an open link.
LEMMA ReadStepInv ==
    ASSUME DirInv, LinksKept, \A d \in Links : link'[d].far = link[d].far,
           UNCHANGED <<users, connMap>>, servInfo' \in [Handles -> Infos], totalCnt' \in Nat,
           RoutesGetInfo', LinksFollow', InfoOfLink', TotalIsSum'
    PROVE  DirInv'
<1>1. MadeInOrder' /\ HandlesOwned'
    BY KeptInOrder
<1>2. DirTypeOK'
    BY DEF DirInv, DirTypeOK, LinksKept
<1>3. ConnsFound'
    BY DEF DirInv, ConnsFound, Served, LinksKept
<1> QED BY <1>1, <1>2, <1>3 DEF DirInv

LEMMA StepHandleMsgServInfo ==
    ASSUME DirInv, NEW c \in Links, HandleMsgServInfo(c)
    PROVE  DirInv'
<1> DEFINE l == link[c]
           k == link'[c]
           h == l.handle
           n == Head(l.out)[2]
           u == users[l.server]
<1>0. l.far /\ l.out # <<>> /\ Head(l.out)[1] = "info" /\ TakePdu(c) /\ UNCHANGED <<users, connMap>>
    BY DEF HandleMsgServInfo, NextPdu
<1>1. /\ LinksKept /\ \A d \in Links \ {c} : link'[d] = link[d]
      /\ k.out = Tail(l.out) /\ RoutesGetInfo'
      /\ k.near = l.near /\ k.far = l.far /\ k.opened = l.opened /\ k.cut = l.cut
      /\ k.server = l.server
    BY <1>0, TakePduIs
<1>2. \A d \in Links : link'[d].far = link[d].far
    BY <1>1
<1>3. l \in LinkRecords /\ l.server \in MsgServers /\ l.server # NoServ /\ h \in Handles /\ l.type \in Types
    BY <1>0, MadeLink
<1>4. servInfo \in [Handles -> Infos] /\ totalCnt \in Nat
    BY DEF DirInv, DirTypeOK
<1>5. CASE l.type = "route"
    <2>1. UNCHANGED <<servInfo, totalCnt>>
        BY <1>5 DEF HandleMsgServInfo
    <2>2. NearStep
        BY <1>1, <1>2, <1>0, <2>1 DEF NearStep
    <2>3. LinksFollow'
        <3>1. ~Far(c)
            BY <1>5 DEF Far
        <3> QED BY <1>0, <1>1, <2>1, <3>1, OneFollows
    <2>4. users' \in [MsgServers -> 0..MaxUsers]
        BY <1>0 DEF DirInv, DirTypeOK
    <2> QED BY <1>1, <2>2, <2>3, <2>4, NearStepInv
<1>6. CASE l.type = "login"
    <2> DEFINE si == servInfo[h]
               ti == [server |-> l.server, cur |-> n]
    <2>1. Far(c) /\ Served(c)
        BY <1>0, <1>6 DEF Far, DirInv, ConnsFound
    <2>2. CountsFollow(l, si, u)
        BY <2>1 DEF DirInv, LinksFollow
    <2>3. si = NoInfo /\ n \in 0..MaxUsers /\ CountsFollow(k, ti, u)
        <3> HIDE DEF l, k, si, u, h
        <3> QED BY <1>0, <1>1, <1>3, <2>2, InfoFollows
    <2>4. servInfo' = [servInfo EXCEPT ![h] = ti] /\ totalCnt' = (totalCnt + n) % CountMod
        BY <1>6, <2>1, <2>3 DEF HandleMsgServInfo
    <2>5. ti \in Infos /\ ti.cur = n /\ ti # NoInfo
        BY <1>3, <2>3 DEF Infos, NoInfo
    <2>6. totalCnt + n = totalCnt + (ti.cur - si.cur)
        <3>1. MaxUsers \in Nat
            BY DirectoryAssumption
        <3>2. n \in Int
            BY <3>1, <2>3
        <3>3. si.cur = 0
            BY <2>3 DEF NoInfo
        <3> HIDE DEF n, si, ti
        <3> QED BY <1>4, <2>5, <3>2, <3>3
    <2> HIDE DEF ti, n
    <2>7. TotalIsSum' /\ totalCnt' \in Nat
        BY <1>3, <2>4, <2>5, <2>6, TotalStep
    <2>8. servInfo' \in [Handles -> Infos] /\ servInfo'[h] = ti
          /\ \A g \in Handles \ {h} : servInfo'[g] = servInfo[g]
        BY <1>3, <1>4, <2>4, <2>5
    <2>9. InfoOfLink'
        <3>1. ASSUME NEW g \in Handles, servInfo'[g] # NoInfo
              PROVE  \E d \in Links : link'[d].far /\ link'[d].type = "login" /\ link'[d].handle = g
            <4>1. CASE g = h
                BY <1>0, <1>1, <1>2, <1>6, <4>1 DEF LinksKept
            <4>2. CASE g # h
                BY <1>1, <1>2, <2>8, <3>1, <4>2 DEF LinksKept, DirInv, InfoOfLink
            <4> QED BY <4>1, <4>2
        <3> QED BY <3>1 DEF InfoOfLink
    <2>10. LinksFollow'
        <3>1. ASSUME NEW d \in Links \ {c}, Far(d) PROVE servInfo'[link[d].handle] = servInfo[link[d].handle]
            <4>1. link[d].handle \in Handles
                BY <3>1, MadeLink DEF Far
            <4>2. link[d].handle # h
                BY <2>1, <3>1 DEF DirInv, HandlesOwned, Far
            <4> QED BY <2>8, <4>1, <4>2
        <3>2. CountsFollow(link'[c], servInfo'[link[c].handle], users[link[c].server])
            BY <2>3, <2>8
        <3> QED BY <1>0, <1>1, <3>1, <3>2, OneFollows
    <2> QED BY <1>0, <1>1, <1>2, <2>7, <2>8, <2>9, <2>10, ReadStepInv
<1>7. l.type = "login" \/ l.type = "route"
    BY <1>3 DEF LinkRecords
<1> QED BY <1>5, <1>6, <1>7

LEMMA StepHandleUserCntUpdate ==
    ASSUME DirInv, NEW c \in Links, HandleUserCntUpdate(c)
    PROVE  DirInv'
<1> DEFINE l == link[c]
           k == link'[c]
           h == l.handle
           by == Head(l.out)[2]
           u == users[l.server]
           si == servInfo[h]
           ti == [server |-> l.server, cur |-> si.cur + by]
<1>0. l.far /\ l.out # <<>> /\ Head(l.out)[1] = "update" /\ TakePdu(c) /\ UNCHANGED <<users, connMap>>
    BY DEF HandleUserCntUpdate, NextPdu
<1>1. /\ LinksKept /\ \A d \in Links \ {c} : link'[d] = link[d]
      /\ k.out = Tail(l.out) /\ RoutesGetInfo'
      /\ k.near = l.near /\ k.far = l.far /\ k.opened = l.opened /\ k.cut = l.cut
      /\ k.server = l.server
    BY <1>0, TakePduIs
<1>2. \A d \in Links : link'[d].far = link[d].far
    BY <1>1
<1>3. l \in LinkRecords /\ l.server \in MsgServers /\ l.server # NoServ /\ h \in Handles /\ l.type \in Types
    BY <1>0, MadeLink
<1>4. servInfo \in [Handles -> Infos] /\ totalCnt \in Nat
    BY DEF DirInv, DirTypeOK
<1>5. l.type = "login"
    <2>1. ASSUME l.type = "route" PROVE FALSE
        <3>1. 1 \in 1..Len(l.out) /\ Head(l.out) = l.out[1]
            BY <1>0, <1>3 DEF LinkRecords
        <3>2. l.out[1][1] = "info"
            BY <2>1, <3>1 DEF DirInv, RoutesGetInfo
        <3> QED BY <1>0, <3>1, <3>2
    <2> QED BY <1>3, <2>1 DEF LinkRecords
<1>6. Far(c) /\ Served(c)
    BY <1>0, <1>5 DEF Far, DirInv, ConnsFound
<1>7. CountsFollow(l, si, u)
    BY <1>6 DEF DirInv, LinksFollow
<1>8. si # NoInfo /\ by \in Int /\ si.cur + by \in 0..MaxUsers /\ CountsFollow(k, ti, u)
    <2> HIDE DEF l, k, si, u, h
    <2> QED BY <1>0, <1>1, <1>3, <1>7, CntFollows
<1>9. si \in Infos /\ si.server = l.server
    BY <1>3, <1>4, <1>7, <1>8 DEF CountsFollow
<1>10. si.cur \in Int
    <2>1. MaxUsers \in Nat
        BY DirectoryAssumption
    <2> HIDE DEF si
    <2> QED BY <1>8, <1>9, <2>1 DEF Infos
<1>11. (si.cur + by) % CountMod = si.cur + by
    <2>1. MaxUsers \in Nat /\ CountMod \in Nat /\ MaxUsers < CountMod
        BY DirectoryAssumption
    <2> HIDE DEF si, by
    <2> QED BY <1>8, <2>1
<1>12. ti \in Infos /\ ti.cur = si.cur + by /\ ti # NoInfo
    <2> HIDE DEF si, by
    <2> QED BY <1>3, <1>8 DEF Infos, NoInfo
<1>13. servInfo' = [servInfo EXCEPT ![h] = ti] /\ totalCnt' = (totalCnt + by) % CountMod
    <2>1. servInfo' = [servInfo EXCEPT ![h] = [si EXCEPT !.cur = (si.cur + by) % CountMod]]
          /\ totalCnt' = (totalCnt + by) % CountMod
        BY <1>6, <1>8 DEF HandleUserCntUpdate
    <2>2. [si EXCEPT !.cur = (si.cur + by) % CountMod] = ti
        <3> DEFINE x == si.cur + by
        <3>1. x % CountMod = x
            BY <1>11
        <3> HIDE DEF x
        <3>2. [si EXCEPT !.cur = x] = [server |-> l.server, cur |-> x]
            <4> HIDE DEF si, by, l
            <4> QED BY <1>8, <1>9 DEF Infos
        <3> QED BY <3>1, <3>2 DEF x
    <2> QED BY <2>1, <2>2
<1>14. totalCnt + by = totalCnt + (ti.cur - si.cur)
    <2> HIDE DEF si, by, ti
    <2> QED BY <1>4, <1>8, <1>10, <1>12
<1> HIDE DEF ti, by
<1>15. TotalIsSum' /\ totalCnt' \in Nat
    BY <1>3, <1>12, <1>13, <1>14, TotalStep
<1>16. servInfo' \in [Handles -> Infos] /\ servInfo'[h] = ti
      /\ \A g \in Handles \ {h} : servInfo'[g] = servInfo[g]
    BY <1>3, <1>4, <1>12, <1>13
<1>17. InfoOfLink'
    <2>1. \A g \in Handles : servInfo'[g] # NoInfo => servInfo[g] # NoInfo
        BY <1>8, <1>16
    <2> QED BY <1>2, <2>1, <1>1 DEF LinksKept, DirInv, InfoOfLink
<1>18. LinksFollow'
    <2>1. ASSUME NEW d \in Links \ {c}, Far(d) PROVE servInfo'[link[d].handle] = servInfo[link[d].handle]
        <3>1. link[d].handle \in Handles
            BY <2>1, MadeLink DEF Far
        <3>2. link[d].handle # h
            BY <1>6, <2>1 DEF DirInv, HandlesOwned, Far
        <3> QED BY <1>16, <3>1, <3>2
    <2>2. CountsFollow(link'[c], servInfo'[link[c].handle], users[link[c].server])
        BY <1>8, <1>16
    <2> QED BY <1>0, <1>1, <2>1, <2>2, OneFollows
<1> QED BY <1>0, <1>1, <1>2, <1>15, <1>16, <1>17, <1>18, ReadStepInv

LEMMA StepFarClose ==
    ASSUME DirInv, NEW c \in Links, FarClose(c)
    PROVE  DirInv'
<1> DEFINE l == link[c]
           h == l.handle
           e == <<>>
           k == [l EXCEPT !.far = FALSE, !.out = e]
<1>0. /\ l.far /\ UNCHANGED users /\ connMap' = [connMap EXCEPT ![l.type][h] = NoServ]
      /\ IF l.type = "login" THEN Forget(h) ELSE UNCHANGED <<servInfo, totalCnt>>
    BY DEF FarClose
<1>1. l # NoLink /\ l \in LinkRecords /\ h \in Handles /\ l.type \in Types
    BY <1>0, MadeLink
<1>2. link' = [link EXCEPT ![c] = k]
    BY DEF FarClose, DirInv, DirTypeOK
<1>3. e \in Seq(Pdus) /\ Len(e) = 0
    OBVIOUS
<1> HIDE DEF e
<1>4. k \in LinkRecords /\ ~k.far /\ k.server = l.server /\ k.type = l.type /\ k.handle = l.handle
      /\ k.out = e
    BY <1>1, <1>3 DEF LinkRecords
<1> HIDE DEF k
<1>5. LinksKept /\ link'[c] = k /\ \A d \in Links \ {c} : link'[d] = link[d]
    BY <1>1, <1>2, <1>4, OneKept
<1>6. MadeInOrder' /\ HandlesOwned'
    BY <1>5, KeptInOrder
<1>7. RoutesGetInfo'
    <2>1. \A i \in 1..Len(k.out) : k.out[i][1] = "info"
        BY <1>3, <1>4
    <2> QED BY <1>5, <2>1, RoutesKept
<1>8. connMap \in [Types -> [Handles -> Nat]] /\ servInfo \in [Handles -> Infos] /\ totalCnt \in Nat
    BY DEF DirInv, DirTypeOK
<1>9. /\ connMap' \in [Types -> [Handles -> Nat]]
      /\ \A t \in Types, g \in Handles : t # l.type \/ g # h => connMap'[t][g] = connMap[t][g]
    BY <1>0, <1>1, <1>8 DEF NoServ
\* Another open link has another handle or another type.
<1>10. ASSUME NEW d \in Links, link'[d].far
       PROVE  /\ d # c /\ link'[d] = link[d] /\ link[d].type \in Types /\ link[d].handle \in Handles
              /\ link[d].type # l.type \/ link[d].handle # h
    <2>1. d # c /\ link'[d] = link[d]
        BY <1>4, <1>5, <1>10
    <2>2. link[d].type \in Types /\ link[d].handle \in Handles
        BY <1>10, <2>1, MadeLink
    <2> QED BY <1>0, <1>10, <2>1, <2>2 DEF DirInv, HandlesOwned
<1>11. ConnsFound'
    <2>1. ASSUME NEW d \in Links, link'[d].far
          PROVE  connMap'[link'[d].type][link'[d].handle] # NoServ
        <3>1. connMap[link[d].type][link[d].handle] # NoServ
            BY <1>10, <2>1 DEF DirInv, ConnsFound, Served
        <3> QED BY <1>9, <1>10, <2>1, <3>1
    <2> QED BY <2>1 DEF ConnsFound, Served
<1>12. /\ servInfo' \in [Handles -> Infos] /\ totalCnt' \in Nat /\ TotalIsSum'
       /\ \A g \in Handles : servInfo'[g] = IF l.type = "login" /\ g = h THEN NoInfo ELSE servInfo[g]
    <2>1. CASE l.type = "login"
        <3>1. servInfo' = [servInfo EXCEPT ![h] = NoInfo] /\ totalCnt' = (totalCnt - servInfo[h].cur) % CountMod
            BY <1>0, <2>1 DEF Forget
        <3>2. NoInfo \in Infos /\ NoInfo.cur = 0
            BY DEF NoInfo, Infos
        <3>3. totalCnt - servInfo[h].cur = totalCnt + (NoInfo.cur - servInfo[h].cur)
            <4>1. servInfo[h].cur \in Int
                <5>1. MaxUsers \in Nat
                    BY DirectoryAssumption
                <5> QED BY <1>1, <1>8, <5>1 DEF Infos, NoInfo
            <4> QED BY <1>8, <3>2, <4>1
        <3>4. TotalIsSum' /\ totalCnt' \in Nat
            BY <1>1, <3>1, <3>2, <3>3, TotalStep
        <3> QED BY <1>1, <1>8, <2>1, <3>1, <3>2, <3>4
    <2>2. CASE l.type # "login"
        <3>1. UNCHANGED <<servInfo, totalCnt>>
            BY <1>0, <2>2
        <3>2. Curs' = Curs
            BY <3>1 DEF Curs
        <3>3. TotalIsSum'
            BY <3>1, <3>2 DEF DirInv, TotalIsSum
        <3> QED BY <1>8, <2>2, <3>1, <3>3
    <2> QED BY <2>1, <2>2
<1>13. InfoOfLink'
    <2>1. ASSUME NEW g \in Handles, servInfo'[g] # NoInfo
          PROVE  \E d \in Links : link'[d].far /\ link'[d].type = "login" /\ link'[d].handle = g
        <3>1. servInfo[g] # NoInfo /\ ~(l.type = "login" /\ g = h)
            BY <1>12, <2>1
        <3>2. PICK d \in Links : link[d].far /\ link[d].type = "login" /\ link[d].handle = g
            BY <3>1 DEF DirInv, InfoOfLink
        <3>3. d # c
            BY <3>1, <3>2
        <3> QED BY <1>5, <3>2, <3>3
    <2> QED BY <2>1 DEF InfoOfLink
<1>14. LinksFollow'
    <2>1. ASSUME NEW d \in Links \ {c}, Far(d) PROVE servInfo'[link[d].handle] = servInfo[link[d].handle]
        <3>1. link'[d].far
            BY <1>5, <2>1 DEF Far
        <3>2. link[d].handle \in Handles /\ ~(l.type = "login" /\ link[d].handle = h)
            BY <1>10, <2>1, <3>1 DEF Far
        <3> QED BY <1>12, <3>2
    <2>2. ~link'[c].far
        BY <1>4, <1>5
    <2> QED BY <1>0, <1>5, <2>1, <2>2, OneFollows
<1>15. DirTypeOK'
    BY <1>0, <1>5, <1>9, <1>12 DEF DirInv, DirTypeOK, LinksKept
<1> QED BY <1>6, <1>7, <1>11, <1>12, <1>13, <1>14, <1>15 DEF DirInv

LEMMA StepLinkUp ==
    ASSUME DirInv, NEW s \in MsgServers, NEW t \in Types, NEW h \in Handles, LinkUp(s, t, h)
    PROVE  DirInv'
<1> DEFINE c == Cardinality({d \in Links : link[d] # NoLink}) + 1
           k == [NoLink EXCEPT !.server = s, !.type = t, !.handle = h, !.near = TRUE, !.far = TRUE]
<1>0. /\ c \in Links /\ h \notin OpenAt(t) /\ link' = [link EXCEPT ![c] = k]
      /\ connMap' = IF connMap[t][h] = NoServ THEN [connMap EXCEPT ![t][h] = c] ELSE connMap
      /\ UNCHANGED <<users, servInfo, totalCnt>>
    BY DEF LinkUp, Insert
<1>1. PICK n \in 0..MaxLinks : {d \in Links : link[d] # NoLink} = 1..n
    BY DEF DirInv, MadeInOrder
<1>2. n \in Nat /\ MaxLinks \in Nat /\ c = n + 1 /\ n + 1 \in 0..MaxLinks
    <2>1. MaxLinks \in Nat /\ n \in Nat
        BY DirectoryAssumption
    <2>2. Cardinality(1..n) = n
        <3>1. Cardinality(1..n) = IF 1 > n THEN 0 ELSE n - 1 + 1
            BY <2>1, FS_Interval
        <3> QED BY <2>1, <3>1
    <2>3. c = n + 1
        BY <1>1, <2>2, Zenon
    <2>4. c \in Links
        BY <1>0
    <2> HIDE DEF c
    <2> QED BY <2>1, <2>3, <2>4 DEF Links
<1> HIDE DEF c
<1>3. link[c] = NoLink /\ ~link[c].far
    <2>1. c \notin 1..n
        BY <1>2
    <2>2. link[c] = NoLink
        BY <1>0, <1>1, <2>1
    <2> QED BY <2>2 DEF NoLink
<1>4. NoLink \in LinkRecords /\ NoLink.out = <<>> /\ ~NoLink.opened /\ NoLink.server = NoServ
    BY DEF NoLink, LinkRecords
<1>5. k \in LinkRecords /\ k.far /\ k.type = t /\ k.handle = h /\ k.server = s /\ ~k.opened
      /\ k.out = <<>> /\ k # NoLink
    <2>1. t \in {"login", "route"} /\ s # NoServ
        BY DirectoryAssumption
    <2>2. k \in LinkRecords /\ k.far /\ k.type = t /\ k.handle = h /\ k.server = s
          /\ k.opened = NoLink.opened /\ k.out = NoLink.out
        BY <1>4, <2>1 DEF LinkRecords
    <2> HIDE DEF k
    <2> QED BY <1>4, <2>1, <2>2
<1> HIDE DEF k
<1>6. link \in [Links -> LinkRecords] /\ connMap \in [Types -> [Handles -> Nat]]
    BY DEF DirInv, DirTypeOK
<1>7. link' \in [Links -> LinkRecords] /\ link'[c] = k /\ \A d \in Links \ {c} : link'[d] = link[d]
    BY <1>0, <1>5, <1>6
<1>8. /\ connMap' \in [Types -> [Handles -> Nat]] /\ connMap'[t][h] # NoServ
      /\ \A r \in Types, g \in Handles : connMap[r][g] # NoServ => connMap'[r][g] # NoServ
    <2>1. c \in Nat /\ c # NoServ
        BY <1>2 DEF NoServ
    <2> QED BY <1>0, <1>6, <2>1
<1>9. MadeInOrder'
    <2>1. \A d \in Links : d # c => (link'[d] # NoLink <=> d \in 1..n)
        BY <1>1, <1>7
    <2>2. \A d \in Links : link'[d] # NoLink <=> d \in 1..n + 1
        <3>1. ASSUME NEW d \in Links PROVE link'[d] # NoLink <=> d \in 1..n + 1
            <4>1. CASE d = c
                BY <1>2, <1>5, <1>7, <4>1
            <4>2. CASE d # c
                <5>1. d \in 1..n <=> d \in 1..n + 1
                    BY <1>2, <4>2 DEF Links
                <5> QED BY <2>1, <4>2, <5>1
            <4> QED BY <4>1, <4>2
        <3> QED BY <3>1
    <2>3. 1..n + 1 \subseteq Links
        BY <1>2 DEF Links
    <2>4. {d \in Links : link'[d] # NoLink} = 1..n + 1
        BY <2>2, <2>3
    <2>5. \A d \in Links : link'[d] # NoLink =>
              link'[d].server \in MsgServers /\ link'[d].type \in Types /\ link'[d].handle \in Handles
        <3>1. ASSUME NEW d \in Links, link'[d] # NoLink
              PROVE  link'[d].server \in MsgServers /\ link'[d].type \in Types /\ link'[d].handle \in Handles
            <4>1. CASE d = c
                BY <1>5, <1>7, <4>1
            <4>2. CASE d # c
                BY <1>7, <3>1, <4>2 DEF DirInv, MadeInOrder
            <4> QED BY <4>1, <4>2
        <3> QED BY <3>1
    <2> QED BY <1>2, <2>4, <2>5 DEF MadeInOrder
\* An open link of the same type has another handle.
<1>10. ASSUME NEW d \in Links, d # c, link'[d].far
       PROVE  link[d].far /\ link'[d] = link[d] /\ ~(link[d].type = t /\ link[d].handle = h)
    BY <1>0, <1>7, <1>10 DEF OpenAt
<1>11. HandlesOwned'
    <2>1. ASSUME NEW a \in Links, NEW b \in Links, link'[a].far, link'[b].far,
                 link'[a].type = link'[b].type, link'[a].handle = link'[b].handle
          PROVE  a = b
        <3>1. CASE a = c
            BY <1>5, <1>7, <1>10, <2>1, <3>1
        <3>2. CASE b = c
            BY <1>5, <1>7, <1>10, <2>1, <3>2
        <3>3. CASE a # c /\ b # c
            BY <1>10, <2>1, <3>3 DEF DirInv, HandlesOwned
        <3> QED BY <3>1, <3>2, <3>3
    <2> QED BY <2>1 DEF HandlesOwned
<1>12. ConnsFound'
    <2>1. ASSUME NEW d \in Links, link'[d].far
          PROVE  connMap'[link'[d].type][link'[d].handle] # NoServ
        <3>1. CASE d = c
            BY <1>5, <1>7, <1>8, <3>1
        <3>2. CASE d # c
            <4>1. link[d].far /\ link'[d] = link[d]
                BY <1>10, <2>1, <3>2
            <4>2. link[d].type \in Types /\ link[d].handle \in Handles
                BY <4>1, MadeLink
            <4>3. connMap[link[d].type][link[d].handle] # NoServ
                BY <4>1 DEF DirInv, ConnsFound, Served
            <4> QED BY <1>8, <4>1, <4>2, <4>3
        <3> QED BY <3>1, <3>2
    <2> QED BY <2>1 DEF ConnsFound, Served
<1>13. InfoOfLink'
    <2>1. ASSUME NEW g \in Handles, servInfo[g] # NoInfo
          PROVE  \E d \in Links : link'[d].far /\ link'[d].type = "login" /\ link'[d].handle = g
        <3>1. PICK d \in Links : link[d].far /\ link[d].type = "login" /\ link[d].handle = g
            BY <2>1 DEF DirInv, InfoOfLink
        <3>2. d # c
            BY <1>3, <3>1
        <3> QED BY <1>7, <3>1, <3>2
    <2> QED BY <1>0, <2>1 DEF InfoOfLink
<1>14. RoutesGetInfo'
    <2>1. ASSUME NEW d \in Links, link'[d].type = "route", NEW i \in 1..Len(link'[d].out)
          PROVE  link'[d].out[i][1] = "info"
        <3>1. CASE d = c
            <4>1. Len(link'[d].out) = 0
                BY <1>5, <1>7, <3>1
            <4> QED BY <2>1, <4>1
        <3>2. CASE d # c
            BY <1>7, <2>1, <3>2 DEF DirInv, RoutesGetInfo
        <3> QED BY <3>1, <3>2
    <2> QED BY <2>1 DEF RoutesGetInfo
<1>15. LinksFollow'
    <2>1. ASSUME NEW d \in Links, Far(d)'
          PROVE  CountsFollow(link'[d], servInfo[link'[d].handle], users[link'[d].server])
        <3>1. CASE d = c
            <4>1. link'[d] = k /\ t = "login"
                BY <1>5, <1>7, <2>1, <3>1 DEF Far
            <4>2. servInfo[h] = NoInfo
                BY <1>0, <4>1 DEF DirInv, InfoOfLink, OpenAt
            <4>3. CountsFollow(k, servInfo[h], users[s])
                BY <1>5, <4>2 DEF CountsFollow
            <4> QED BY <1>5, <4>1, <4>3
        <3>2. CASE d # c
            BY <1>7, <2>1, <3>2 DEF Far, DirInv, LinksFollow
        <3> QED BY <3>1, <3>2
    <2> QED BY <1>0, <2>1 DEF LinksFollow
<1>16. DirTypeOK'
    BY <1>0, <1>7, <1>8 DEF DirInv, DirTypeOK
<1>17. TotalIsSum'
    <2>1. Curs' = Curs
        BY <1>0 DEF Curs
    <2> QED BY <1>0, <2>1 DEF DirInv, TotalIsSum
<1> QED BY <1>9, <1>11, <1>12, <1>13, <1>14, <1>15, <1>16, <1>17 DEF DirInv

-----------------------------------------------------------------------------
\* For any msg_servers, handles, links and users: what LoginConn has of a
\* msg_server and the updates under way to it make up the users of that server,
\* through links that are cut, closed and made anew on the same handle; and
\* g_total_online_user_cnt is the sum of the counts and never wraps.
THEOREM DirCountsSound == DirSpec => []CountsSound
<1>1. DirInit => DirInv
    BY DirInvInit
<1>2. DirInv /\ [DirNext]_dirVars => DirInv'
    <2> SUFFICES ASSUME DirInv, [DirNext]_dirVars PROVE DirInv'
        OBVIOUS
    <2>1. CASE UNCHANGED dirVars
        <3>1. UNCHANGED <<users, link, connMap, servInfo, totalCnt>>
            BY <2>1 DEF dirVars
        <3>2. DirTypeOK' /\ MadeInOrder'
            BY <3>1 DEF DirInv, DirTypeOK, MadeInOrder
        <3>3. HandlesOwned' /\ ConnsFound' /\ InfoOfLink'
            BY <3>1 DEF DirInv, HandlesOwned, ConnsFound, Served, InfoOfLink
        <3>4. RoutesGetInfo' /\ LinksFollow'
            BY <3>1 DEF DirInv, RoutesGetInfo, LinksFollow, Far
        <3>5. TotalIsSum'
            BY <3>1 DEF DirInv, TotalIsSum, Curs
        <3> QED BY <3>2, <3>3, <3>4, <3>5 DEF DirInv
    <2>2. ASSUME NEW s \in MsgServers, NEW h \in Handles, NEW t \in Types, LinkUp(s, t, h)
          PROVE  DirInv'
        BY <2>2, StepLinkUp
    <2>3. ASSUME NEW s \in MsgServers, NEW by \in {1, -1}, UserChange(s, by) PROVE DirInv'
        BY <2>3, StepUserChange
    <2>4. ASSUME NEW c \in Links,
                 LinkConfirm(c) \/ MsgServerStops(c) \/ Cut(c) \/ LinkTimers(c)
          PROVE  DirInv'
        BY <2>4, StepLinkConfirm, StepNearClose, StepCut, StepFarClose,
           StepHandleMsgServInfo, StepHandleUserCntUpdate DEF LinkTimers
    <2> QED BY <2>1, <2>2, <2>3, <2>4 DEF DirNext
<1>3. DirInv => CountsSound
    BY DirInvSound
<1> QED BY <1>1, <1>2, <1>3, PTL DEF DirSpec

-----------------------------------------------------------------------------
(* HandleMsgServRequest: what the loop over the directory finds.           *)

\* One turn of the loop.
Turn(dir, i, best) ==
    IF dir[i].cur < dir[i].max /\ dir[i].cur < best.min THEN [min |-> dir[i].cur, at |-> i] ELSE best

LoopStart == [min |-> Uint32 - 1, at |-> None]

\* f has, for every set of the first n servers, what the loop over it ends with.
Loops(f, n, dir) ==
    f = [s \in SUBSET (1..n) |-> IF s = {} THEN LoopStart ELSE Turn(dir, Max(s), f[s \ {Max(s)}])]

\* The greatest of some of the first n numbers is one of them.
LEMMA MaxAmong ==
    ASSUME NEW n \in Nat, NEW s \in SUBSET (1..n), s # {}
    PROVE  Max(s) \in s /\ \A y \in s : Max(s) >= y
<1> DEFINE S == {n - i : i \in s}
<1>1. S \subseteq Nat /\ S # {}
    <2>1. \A i \in s : i \in Nat /\ i <= n
        OBVIOUS
    <2>2. \A i \in s : n - i \in Nat
        BY <2>1
    <2> QED BY <2>2
<1>2. PICK x \in S : \A y \in S : x <= y
    <2> HIDE DEF S
    <2> QED BY <1>1, LeastNat
<1>3. PICK m \in s : x = n - m
    BY <1>2
<1>4. ASSUME NEW y \in s PROVE m >= y
    <2>1. n - m <= n - y /\ m \in Int /\ y \in Int
        BY <1>2, <1>3
    <2> QED BY <2>1
<1> HIDE DEF S
<1>5. \E z \in s : \A y \in s : z >= y
    BY <1>4
<1> QED BY <1>5 DEF Max

\* There is such a function: from one server to the next.
LEMMA LoopsExist ==
    ASSUME NEW dir, NEW N \in Nat
    PROVE  \E f : Loops(f, N, dir)
<1> DEFINE T == {n \in 0..N : ~\E f : Loops(f, n, dir)}
<1>1. ASSUME T # {} PROVE FALSE
    <2>1. T \subseteq Nat
        OBVIOUS
    <2>2. PICK n \in T : \A y \in T : n <= y
        <3> HIDE DEF T
        <3> QED BY <2>1, <1>1, LeastNat
    <2>3. n \in 0..N /\ ~\E f : Loops(f, n, dir)
        BY <2>2
    <2>4. CASE n = 0
        <3> DEFINE f == [s \in SUBSET (1..0) |-> LoopStart]
        <3>1. 1..0 = {}
            OBVIOUS
        <3>2. Loops(f, 0, dir)
            BY <3>1 DEF Loops
        <3> QED BY <2>3, <2>4, <3>2
    <2>5. CASE n # 0
        <3> DEFINE m == n - 1
        <3>1. m \in 0..N /\ m \notin T
            BY <2>2, <2>3, <2>5
        <3>2. PICK g : Loops(g, m, dir)
            BY <3>1
        <3> DEFINE f == [s \in SUBSET (1..n) |->
                            IF n \in s THEN Turn(dir, n, g[s \ {n}]) ELSE g[s]]
                   Step(s) == IF s = {} THEN LoopStart ELSE Turn(dir, Max(s), f[s \ {Max(s)}])
        <3>3. ASSUME NEW s \in SUBSET (1..n), n \in s PROVE f[s] = Step(s)
            <4>0. n \in Nat /\ s # {}
                BY <3>3, <2>3
            <4>1. Max(s) \in s /\ Max(s) >= n
                BY <3>3, <4>0, MaxAmong
            <4>2. Max(s) = n
                <5>1. Max(s) \in 1..n
                    BY <4>1
                <5> QED BY <5>1, <4>0, <4>1
            <4>3. s \ {n} \in SUBSET (1..n) /\ n \notin s \ {n} /\ s # {}
                BY <3>3
            <4>4. f[s \ {n}] = g[s \ {n}] /\ f[s] = Turn(dir, n, g[s \ {n}])
                BY <4>3, <3>3
            <4> HIDE DEF f
            <4> QED BY <4>2, <4>3, <4>4
        <3>4. ASSUME NEW s \in SUBSET (1..n), n \notin s PROVE f[s] = Step(s)
            <4>0. \A i \in 1..n : i # n => i \in 1..m
                BY <2>3
            <4>1. s \in SUBSET (1..m) /\ s \ {Max(s)} \in SUBSET (1..n) /\ n \notin s \ {Max(s)}
                <5> HIDE DEF m
                <5> QED BY <3>4, <4>0
            <4>2. f[s] = g[s] /\ f[s \ {Max(s)}] = g[s \ {Max(s)}]
                BY <4>1, <3>4
            <4>3. g[s] = IF s = {} THEN LoopStart ELSE Turn(dir, Max(s), g[s \ {Max(s)}])
                BY <4>1, <3>2 DEF Loops
            <4> HIDE DEF f
            <4> QED BY <4>2, <4>3
        <3>5. f = [s \in SUBSET (1..n) |-> f[s]]
            OBVIOUS
        <3>6. Loops(f, n, dir)
            <4>1. \A s \in SUBSET (1..n) : f[s] = Step(s)
                BY <3>3, <3>4
            <4> HIDE DEF f
            <4> QED BY <3>5, <4>1 DEF Loops
        <3> QED BY <2>3, <3>6
    <2> QED BY <2>4, <2>5
<1> HIDE DEF T
<1>2. N \notin T /\ N \in 0..N
    BY <1>1
<1> QED BY <1>2 DEF T

\* best is right for the servers in s: it has room and none has fewer users, or there is none.
Best(best, s, dir) ==
    LET room == {i \in s : dir[i].cur < dir[i].max} IN
    /\ best.min \in Nat
    /\ room = {} => best = LoopStart
    /\ room # {} => /\ best.at \in room /\ best.min = dir[best.at].cur
                    /\ \A i \in room : best.min <= dir[i].cur

\* One turn keeps that: no count with room reaches the value min_user_cnt starts with.
LEMMA TurnBest ==
    ASSUME NEW dir \in Seq([cur : Counts, max : Counts]), NEW s \in SUBSET DOMAIN dir, NEW i \in DOMAIN dir,
           NEW best, Best(best, s, dir)
    PROVE  Best(Turn(dir, i, best), s \cup {i}, dir)
<1> DEFINE Room(t) == {j \in t : dir[j].cur < dir[j].max}
<1>1. ASSUME NEW j \in DOMAIN dir
      PROVE  dir[j].cur \in Nat /\ dir[j].max \in Nat /\ dir[j].max <= Uint32 - 1
    <2>0. DOMAIN dir = 1..Len(dir)
        OBVIOUS
    <2>1. dir[j] \in [cur : Counts, max : Counts]
        BY <1>1, <2>0, ElementOfSeq
    <2>2. dir[j].cur \in Counts /\ dir[j].max \in Counts
        BY <2>1
    <2>3. dir[j].cur \in Nat /\ dir[j].max \in Nat /\ dir[j].max < Uint32
        BY <2>2 DEF Counts
    <2>4. Uint32 \in Nat
        BY HttpConnAssumption
    <2> QED BY ONLY <2>3, <2>4
<1>2. best.min \in Nat /\ Uint32 - 1 \in Nat
    BY HttpConnAssumption DEF Best
<1>3. CASE i \notin Room({i})
    <2>1. Room(s \cup {i}) = Room(s) /\ Turn(dir, i, best) = best
        BY <1>3 DEF Turn
    <2> QED BY <2>1 DEF Best
<1>4. CASE i \in Room({i}) /\ dir[i].cur < best.min
    <2>1. Turn(dir, i, best) = [min |-> dir[i].cur, at |-> i] /\ i \in Room(s \cup {i})
        BY <1>4 DEF Turn
    <2>2. ASSUME NEW j \in Room(s \cup {i}) PROVE dir[i].cur <= dir[j].cur
        <3>1. CASE j = i
            BY <3>1, <1>1
        <3>2. CASE j # i
            <4>1. j \in Room(s) /\ j \in DOMAIN dir
                BY <3>2
            <4>2. best.min <= dir[j].cur
                BY <4>1 DEF Best
            <4> QED BY <4>1, <4>2, <1>1, <1>2, <1>4
        <3> QED BY <3>1, <3>2
    <2> QED BY <2>1, <2>2, <1>1 DEF Best
<1>5. CASE i \in Room({i}) /\ ~(dir[i].cur < best.min)
    <2>1. Turn(dir, i, best) = best
        BY <1>5 DEF Turn
    <2>2. Room(s) # {}
        <3>1. dir[i].cur < dir[i].max
            BY <1>5
        <3>2. dir[i].cur < Uint32 - 1
            BY <3>1, <1>1, <1>2
        <3>3. best # LoopStart
            BY <3>2, <1>5 DEF LoopStart
        <3> QED BY <3>3 DEF Best
    <2>3. best.at \in Room(s) /\ best.min = dir[best.at].cur /\ \A j \in Room(s) : best.min <= dir[j].cur
        BY <2>2 DEF Best
    <2>4. best.min <= dir[i].cur
        BY <1>1, <1>2, <1>5
    <2>5. best.at \in Room(s \cup {i}) /\ \A j \in Room(s \cup {i}) : best.min <= dir[j].cur
        BY <2>3, <2>4
    <2> QED BY <2>1, <2>3, <2>5, <1>2 DEF Best
<1> QED BY <1>3, <1>4, <1>5

\* So the loop is right for every set of servers.
LEMMA LoopsBest ==
    ASSUME NEW dir \in Seq([cur : Counts, max : Counts]), NEW f, Loops(f, Len(dir), dir)
    PROVE  Best(f[1..Len(dir)], 1..Len(dir), dir)
<1> DEFINE N == Len(dir)
           T == {n \in 0..N : ~Best(f[1..n], 1..n, dir)}
<1>0. N \in Nat /\ DOMAIN dir = 1..N
    OBVIOUS
<1>1. \A s \in SUBSET (1..N) :
          f[s] = IF s = {} THEN LoopStart ELSE Turn(dir, Max(s), f[s \ {Max(s)}])
    BY DEF Loops
<1> HIDE DEF N
<1>2. ASSUME T # {} PROVE FALSE
    <2>1. T \subseteq Nat
        OBVIOUS
    <2>2. PICK n \in T : \A y \in T : n <= y
        <3> HIDE DEF T
        <3> QED BY <2>1, <1>2, LeastNat
    <2>3. n \in 0..N /\ ~Best(f[1..n], 1..n, dir) /\ 1..n \in SUBSET (1..N)
        BY <2>2, <1>0
    <2>4. CASE n = 0
        <3>1. 1..n = {}
            BY <2>4
        <3>2. f[1..n] = LoopStart
            BY <3>1, <2>3, <1>1
        <3>3. Best(LoopStart, {}, dir)
            BY HttpConnAssumption DEF Best, LoopStart
        <3> QED BY <3>1, <3>2, <3>3, <2>3
    <2>5. CASE n # 0
        <3> DEFINE m == n - 1
        <3>1. m \in 0..N /\ m \notin T /\ n \in 1..N
            BY <2>2, <2>3, <2>5, <1>0
        <3>2. Best(f[1..m], 1..m, dir)
            BY <3>1
        <3>3. 1..n # {} /\ n \in 1..n /\ n \in Nat
            <4>1. n \in Nat /\ n >= 1
                BY <3>1, <1>0
            <4>2. n \in 1..n
                BY <4>1
            <4> QED BY <4>1, <4>2
        <3>4. Max(1..n) \in 1..n /\ Max(1..n) >= n
            BY <3>3, MaxAmong
        <3>5. Max(1..n) = n
            BY <3>3, <3>4
        <3>6. (1..n) \ {n} = 1..m /\ 1..n = (1..m) \cup {n} /\ 1..m \in SUBSET DOMAIN dir /\ n \in DOMAIN dir
            BY <3>1, <1>0
        <3>7. f[1..n] = Turn(dir, n, f[1..m])
            <4> HIDE DEF m
            <4> QED BY <2>3, <3>3, <3>5, <3>6, <1>1
        <3>8. Best(Turn(dir, n, f[1..m]), (1..m) \cup {n}, dir)
            <4> HIDE DEF m
            <4> QED BY <3>2, <3>6, TurnBest
        <3> QED BY <2>3, <3>6, <3>7, <3>8
    <2> QED BY <2>4, <2>5
<1> HIDE DEF T
<1>3. N \notin T /\ N \in 0..N
    BY <1>0, <1>2
<1> QED BY <1>3 DEF T, N

\* FoldLeft computes it.
LEMMA FoldIsLoop ==
    ASSUME NEW dir \in Seq([cur : Counts, max : Counts])
    PROVE  \E f : Loops(f, Len(dir), dir) /\ LeastLoaded(dir) = f[1..Len(dir)]
<1> DEFINE N == Len(dir)
           Eq(f) == f = [s \in SUBSET (DOMAIN [i \in DOMAIN dir |-> i]) |->
                            IF s = {} THEN LoopStart
                            ELSE Turn(dir, [i \in DOMAIN dir |-> i][Max(s)], f[s \ {Max(s)}])]
           jt == CHOOSE f : Eq(f)
<1>1. LeastLoaded(dir) = jt[DOMAIN [i \in DOMAIN dir |-> i]]
    BY Zenon DEF LeastLoaded, FoldLeft, MapThenFoldSet, Turn, LoopStart
<1>2. DOMAIN [i \in DOMAIN dir |-> i] = 1..N /\ DOMAIN dir = 1..N /\ N \in Nat
    OBVIOUS
<1>3. \A s \in SUBSET (1..N) : s # {} => [i \in DOMAIN dir |-> i][Max(s)] = Max(s)
    BY <1>2, MaxAmong
<1>4. PICK f : Loops(f, N, dir)
    BY <1>2, LoopsExist
<1>5. \A g : Eq(g) <=> Loops(g, N, dir)
    <2> HIDE DEF N
    <2> QED BY <1>2, <1>3 DEF Loops
<1>6. Eq(jt)
    BY <1>4, <1>5, Zenon
<1> HIDE DEF jt
<1> QED BY <1>1, <1>2, <1>5, <1>6

-----------------------------------------------------------------------------
(* login_server's answers.                                                 *)

Room(dir) == {i \in DOMAIN dir : dir[i].cur < dir[i].max}

\* The answers that are right where the directory is dir.
RightAnswers(dir) ==
    {a \in [code : {0, 1, 2}, at : Nat] :
        /\ a.code = 1 => dir = <<>>
        /\ a.code = 2 => dir # <<>> /\ Room(dir) = {}
        /\ a.code = 0 => a.at \in Room(dir) /\ \A i \in Room(dir) : dir[a.at].cur <= dir[i].cur}

\* The inductive invariant: what waits in outBuf_ and what was sent is right.
RightConn(c, dir) ==
    /\ {"out", "answered"} \subseteq DOMAIN c
    /\ c.out \in Seq(RightAnswers(dir)) /\ c.answered \in Seq(RightAnswers(dir))

HttpInv ==
    /\ directory \in Directories
    /\ DOMAIN http = Https
    /\ \A k \in Https : RightConn(http[k], directory)

\* HandleMsgServRequest answers what is right.
LEMMA AnswerIsRight ==
    ASSUME directory \in Directories
    PROVE  HandleMsgServRequest \in RightAnswers(directory)
<1> DEFINE best == LeastLoaded(directory)
           a == HandleMsgServRequest
<1>1. directory \in Seq([cur : Counts, max : Counts])
    BY HttpConnAssumption
<1>2. DOMAIN directory = 1..Len(directory) /\ Len(directory) \in Nat
    BY <1>1
<1>3. PICK f : Loops(f, Len(directory), directory) /\ best = f[1..Len(directory)]
    BY <1>1, FoldIsLoop
<1>4. Best(best, DOMAIN directory, directory)
    BY <1>1, <1>2, <1>3, LoopsBest
<1>5. a = [code |-> IF directory = <<>> THEN 1 ELSE IF best.at = None THEN 2 ELSE 0, at |-> best.at]
    BY DEF HandleMsgServRequest
<1> HIDE DEF best, a
<1>6. CASE Room(directory) = {}
    <2>1. best.at = None
        BY <1>4, <1>6 DEF Best, Room, LoopStart
    <2> QED BY <1>5, <1>6, <2>1 DEF RightAnswers, None, a
<1>7. CASE Room(directory) # {}
    <2>1. best.at \in Room(directory) /\ \A i \in Room(directory) : directory[best.at].cur <= directory[i].cur
        BY <1>4, <1>7 DEF Best, Room
    <2>2. best.at \in Nat /\ best.at # None /\ directory # <<>>
        BY <1>2, <2>1 DEF Room, None
    <2> QED BY <1>5, <2>1, <2>2 DEF RightAnswers, a
<1> QED BY <1>6, <1>7

\* An HttpConn that is right takes the place of one.
LEMMA StepConn ==
    ASSUME HttpInv, directory' = directory, NEW j, NEW c, http' = [http EXCEPT ![j] = c],
           j \in Https => RightConn(c, directory)
    PROVE  HttpInv'
<1>1. \A k \in Https : http'[k] = IF k = j THEN c ELSE http[k]
    BY DEF HttpInv
<1>2. DOMAIN http' = Https
    BY DEF HttpInv
<1> QED BY <1>1, <1>2 DEF HttpInv

\* Close keeps an HttpConn's answers.
LEMMA StepClose ==
    ASSUME HttpInv, directory' = directory, NEW j, NEW c, HttpClose(j, c),
           j \in Https => RightConn(c, directory)
    PROVE  HttpInv'
<1> DEFINE d == [c EXCEPT !.state = "closed"]
<1>1. j \in Https => RightConn(d, directory)
    BY DEF RightConn
<1>2. http' = [http EXCEPT ![j] = d]
    BY DEF HttpClose
<1> HIDE DEF d
<1> QED BY <1>1, <1>2, StepConn

\* So does what leaves it in the map.
LEMMA StepKeep ==
    ASSUME HttpInv, directory' = directory, NEW j, NEW c, HttpKeep(j, c),
           j \in Https => RightConn(c, directory)
    PROVE  HttpInv'
BY StepConn DEF HttpKeep

\* Send, whether the socket takes the answer or not.
LEMMA StepSend ==
    ASSUME HttpInv, directory' = directory, NEW j \in Https, NEW c, NEW a \in RightAnswers(directory),
           RightConn(c, directory), HttpSend(j, c, a)
    PROVE  HttpInv'
<1> DEFINE R == RightAnswers(directory)
<1>0. c.out \in Seq(R) /\ c.answered \in Seq(R) /\ {"out", "answered"} \subseteq DOMAIN c
    BY DEF RightConn
<1> HIDE DEF R
<1>00. a \in R
    BY DEF R
<1>1. Append(c.out, a) \in Seq(R) /\ Append(c.answered, a) \in Seq(R) /\ <<a>> \in Seq(R)
    BY <1>0, <1>00
<1>2. RightConn([c EXCEPT !.out = Append(@, a)], directory)
    BY <1>0, <1>1 DEF RightConn, R
<1>3. RightConn([c EXCEPT !.answered = Append(@, a)], directory)
    BY <1>0, <1>1 DEF RightConn, R
<1>4. RightConn([c EXCEPT !.busy = TRUE, !.out = <<a>>], directory)
    BY <1>0, <1>1 DEF RightConn, R
<1>5. \/ HttpKeep(j, [c EXCEPT !.out = Append(@, a)])
      \/ HttpClose(j, [c EXCEPT !.answered = Append(@, a)])
      \/ HttpKeep(j, [c EXCEPT !.busy = TRUE, !.out = <<a>>])
    BY DEF HttpSend
<1> QED BY <1>2, <1>3, <1>4, <1>5, StepClose, StepKeep

\* OnWrite, of the HttpConn that is found: what waited is what was sent.
LEMMA StepFlush ==
    ASSUME HttpInv, directory' = directory, NEW j,
           HttpClose(j, [http[j] EXCEPT !.busy = FALSE, !.answered = @ \o http[j].out, !.out = <<>>])
    PROVE  HttpInv'
<1> DEFINE R == RightAnswers(directory)
           c == http[j]
           d == [c EXCEPT !.busy = FALSE, !.answered = @ \o c.out, !.out = <<>>]
<1>1. ASSUME j \in Https PROVE RightConn(d, directory)
    <2>0. RightConn(c, directory)
        BY <1>1 DEF HttpInv
    <2> HIDE DEF R, c
    <2>1. c.out \in Seq(R) /\ c.answered \in Seq(R) /\ {"out", "answered"} \subseteq DOMAIN c
        BY <2>0 DEF RightConn, R
    <2>2. c.answered \o c.out \in Seq(R) /\ <<>> \in Seq(R)
        BY <2>1
    <2>3. d.answered = c.answered \o c.out /\ d.out = <<>> /\ DOMAIN d = DOMAIN c
        BY <2>1
    <2> HIDE DEF d
    <2> QED BY <2>1, <2>2, <2>3 DEF RightConn, R
<1> HIDE DEF R
<1>2. HttpClose(j, d)
    OBVIOUS
<1> HIDE DEF d, c
<1> QED BY <1>1, <1>2, StepClose

\* A new HttpConn has no answers.
LEMMA StepConnect ==
    ASSUME HttpInv, NEW r, HttpOnConnect(r)
    PROVE  HttpInv'
<1> DEFINE k == Cardinality({j \in Https : http[j] # NoHttp}) + 1
           n == NextConnHandle(generator)
           c == [NoHttp EXCEPT !.state = "connected", !.handle = n, !.request = r]
<1>1. http' = [http EXCEPT ![k] = c] /\ directory' = directory
    BY DEF HttpOnConnect
<1>2. RightConn(c, directory)
    <2>1. c.out = <<>> /\ c.answered = <<>> /\ {"out", "answered"} \subseteq DOMAIN c
        BY DEF NoHttp
    <2> HIDE DEF c
    <2> QED BY <2>1 DEF RightConn
<1> HIDE DEF k, c
<1> QED BY <1>1, <1>2, StepConn

\* OnRead, at every one of its ends.
LEMMA StepRead ==
    ASSUME HttpInv, NEW k \in Https, NEW n, HttpOnRead(k, n)
    PROVE  HttpInv'
<1> DEFINE j == Found(k)
           got == http[k].got + n
           w == ParseHttpContent(http[j].wrapper, SubSeq(http[k].request.bytes, 1, got))
           c == [http[j] EXCEPT !.got = got, !.cuts = @ \cup {got}, !.wrapper = w]
           d == [c EXCEPT !.wrapper = http[j].wrapper]
           e == [c EXCEPT !.unknown = TRUE]
<1>1. /\ directory' = directory /\ j = k
      /\ \/ HttpClose(j, d) \/ HttpKeep(j, c) \/ HttpSend(j, c, HandleMsgServRequest) \/ HttpClose(j, e)
    BY DEF HttpOnRead, Callback
<1> HIDE DEF j, got, w
<1>2. RightConn(http[j], directory) /\ j \in Https
    BY <1>1 DEF HttpInv
<1>3. RightConn(c, directory)
    BY <1>2 DEF RightConn
<1> HIDE DEF c
<1>4. RightConn(d, directory) /\ RightConn(e, directory)
    BY <1>3 DEF RightConn
<1>5. HandleMsgServRequest \in RightAnswers(directory)
    BY AnswerIsRight DEF HttpInv
<1> HIDE DEF d, e
<1> QED BY <1>1, <1>2, <1>3, <1>4, <1>5, StepClose, StepKeep, StepSend

\* Whatever the reads, the writes that go on later, the timer and a handle that
\* is read out of a freed HttpConn, login_server's answer to a client names a
\* msg_server with room that no other with room has fewer users than, or says
\* that there is none: for any directory, requests and number of clients.
THEOREM HttpAnswersRight == HttpConnSpec => []AnswersRight
<1>1. HttpConnInit => HttpInv
    <2> SUFFICES ASSUME HttpConnInit PROVE HttpInv
        OBVIOUS
    <2>1. NoHttp.out = <<>> /\ NoHttp.answered = <<>> /\ {"out", "answered"} \subseteq DOMAIN NoHttp
        BY DEF NoHttp
    <2>2. RightConn(NoHttp, directory)
        BY <2>1 DEF RightConn
    <2> QED BY <2>2 DEF HttpInv, HttpConnInit
<1>2. HttpInv /\ [HttpConnNext]_httpConnVars => HttpInv'
    <2> SUFFICES ASSUME HttpInv, [HttpConnNext]_httpConnVars PROVE HttpInv'
        OBVIOUS
    <2>1. CASE UNCHANGED httpConnVars
        BY <2>1 DEF HttpInv, httpConnVars
    <2>2. ASSUME NEW r \in Requests, HttpOnConnect(r) PROVE HttpInv'
        BY <2>2, StepConnect
    <2>3. ASSUME NEW k \in Https, NEW n, HttpOnRead(k, n) PROVE HttpInv'
        BY <2>3, StepRead
    <2>4. ASSUME NEW k \in Https, HttpOnWrite(k) PROVE HttpInv'
        BY <2>4, StepFlush DEF HttpOnWrite, Callback
    <2>5. ASSUME NEW k \in Https, HttpOnClose(k) PROVE HttpInv'
        <3>1. Found(k) \in Https => RightConn(http[Found(k)], directory)
            BY DEF HttpInv
        <3> QED BY <2>5, <3>1, StepClose DEF HttpOnClose, Callback
    <2>6. ASSUME NEW k \in Https, HttpOnTimer(k) PROVE HttpInv'
        <3>1. RightConn(http[k], directory)
            BY DEF HttpInv
        <3> QED BY <2>6, <3>1, StepClose DEF HttpOnTimer
    <2>7. ASSUME NEW k \in Https, NEW n, HttpStaleWrite(k, n) PROVE HttpInv'
        BY <2>7, StepFlush DEF HttpStaleWrite
    <2> QED BY <2>1, <2>2, <2>3, <2>4, <2>5, <2>6, <2>7 DEF HttpConnNext
<1>3. HttpInv => AnswersRight
    <2> SUFFICES ASSUME HttpInv, NEW k \in Https, NEW a \in Range(http[k].answered \o http[k].out)
                 PROVE  CASE a.code = 1 -> directory = <<>>
                          [] a.code = 2 -> directory # <<>> /\ Room(directory) = {}
                          [] a.code = 0 -> /\ a.at \in Room(directory)
                                           /\ \A i \in Room(directory) : directory[a.at].cur <= directory[i].cur
        BY DEF AnswersRight, Room
    <2> DEFINE R == RightAnswers(directory)
               q == http[k].answered \o http[k].out
    <2>1. http[k].answered \in Seq(R) /\ http[k].out \in Seq(R)
        BY DEF HttpInv, RightConn
    <2> HIDE DEF R
    <2>2. q \in Seq(R)
        BY <2>1
    <2>3. \E i \in DOMAIN q : a = q[i]
        BY Zenon DEF Range
    <2> HIDE DEF q
    <2>4. DOMAIN q = 1..Len(q)
        BY <2>2
    <2>5. a \in R
        BY <2>2, <2>3, <2>4, ElementOfSeq
    <2>6. a.code \in {0, 1, 2}
        BY <2>5 DEF R, RightAnswers
    <2>7. CASE a.code = 0
        BY <2>5, <2>7 DEF R, RightAnswers
    <2>8. CASE a.code = 1
        BY <2>5, <2>8 DEF R, RightAnswers
    <2>9. CASE a.code = 2
        BY <2>5, <2>9 DEF R, RightAnswers
    <2> QED BY <2>6, <2>7, <2>8, <2>9
<1> QED BY <1>1, <1>2, <1>3, PTL DEF HttpConnSpec
=============================================================================
