--------------------------- MODULE DbProxyProofs ---------------------------
(***************************************************************************)
(* For every set of threads and every size of the pool: the DBConn pool is *)
(* well typed, hands a connection to one thread at a time, loses none and  *)
(* loses no wakeup.  For every number of workers, connections and requests *)
(* too: the proxy uses the pool as DBPool specifies, an answer goes only   *)
(* to the connection that asked, a request is run and answered at most     *)
(* once, and the answers of one worker keep the order of its requests.     *)
(***************************************************************************)
EXTENDS DbProxy, FiniteSetTheorems, SequenceTheorems, TLAPS

-----------------------------------------------------------------------------
(* The pool alone: DBPool.                                                 *)

\* What popping the front of a sequence leaves.
LEMMA TailElements ==
    ASSUME NEW S, NEW s \in Seq(S), s # <<>>
    PROVE  /\ Len(s) \in Nat \ {0}
           /\ Head(s) = s[1]
           /\ Tail(s) \in Seq(S)
           /\ Len(Tail(s)) = Len(s) - 1
           /\ DOMAIN Tail(s) = 1..(Len(s) - 1)
           /\ \A i \in DOMAIN Tail(s) : Tail(s)[i] = s[i + 1]
    BY HeadTailProperties, LenProperties, EmptySeq

\* What a push at the back adds.
LEMMA PushElements ==
    ASSUME NEW S, NEW s \in Seq(S), NEW c \in S
    PROVE  /\ Append(s, c) \in Seq(S)
           /\ Len(Append(s, c)) = Len(s) + 1
           /\ DOMAIN Append(s, c) = 1..(Len(s) + 1)
           /\ \A i \in 1..Len(s) : Append(s, c)[i] = s[i]
           /\ Append(s, c)[Len(s) + 1] = c
    BY AppendProperties, LenProperties

\* The inductive invariant of the safety results.
PoolIInv == PoolTypeOK /\ ConnExclusive /\ NoConnLost

LEMMA PoolLimitFacts ==
    /\ PoolLimit \in Nat
    /\ MIN_DB_CONN_CNT <= PoolLimit
    /\ \A n \in Nat : n < MaxDbConnCnt => n + 1 <= PoolLimit
    BY PoolAssumption DEF PoolLimit

LEMMA PoolInitIInv == PoolInit => PoolIInv
<1> SUFFICES ASSUME PoolInit PROVE PoolIInv
    OBVIOUS
<1> USE PoolLimitFacts, PoolAssumption DEF PoolInit, NoConn
<1>1. freeList \in Seq(1..PoolLimit)
    <2>1. \A i \in 1..MIN_DB_CONN_CNT : freeList[i] \in 1..PoolLimit
        OBVIOUS
    <2> QED BY <2>1, IsASeq
<1>2. DOMAIN freeList = 1..MIN_DB_CONN_CNT
    OBVIOUS
<1>3. PoolTypeOK
    BY <1>1 DEF PoolTypeOK, DbPcs
<1>4. ConnExclusive
    BY <1>2 DEF ConnExclusive
<1>5. NoConnLost
    BY <1>2 DEF NoConnLost
<1> QED BY <1>3, <1>4, <1>5 DEF PoolIInv

\* A thread that holds a connection is in "use" and nowhere else, so a step
\* that only moves threads between the other places keeps the accounting.
LEMMA PcOnlyStep ==
    ASSUME PoolIInv, NEW t \in Threads, NEW pc \in DbPcs \ {"use"},
           dbPc[t] # "use", dbPc' = [dbPc EXCEPT ![t] = pc],
           UNCHANGED <<freeList, curDbConnCnt, dbConn>>
    PROVE  PoolIInv'
    BY DEF PoolIInv, PoolTypeOK, ConnExclusive, NoConnLost

LEMMA TakeFreeIInv ==
    ASSUME PoolIInv, NEW t \in Threads, dbPc[t] = "want", TakeFree(t)
    PROVE  PoolIInv'
<1> USE DEF PoolIInv, TakeFree
<1>1. /\ freeList \in Seq(1..PoolLimit) /\ freeList # <<>>
      /\ PoolLimit \in Nat /\ curDbConnCnt \in Nat
    BY PoolLimitFacts, PoolAssumption DEF PoolTypeOK
<1>2. /\ Len(freeList) \in Nat \ {0}
      /\ DOMAIN freeList = 1..Len(freeList)
      /\ dbConn' = [dbConn EXCEPT ![t] = freeList[1]]
      /\ freeList' \in Seq(1..PoolLimit)
      /\ DOMAIN freeList' = 1..(Len(freeList) - 1)
      /\ \A i \in 1..(Len(freeList) - 1) : freeList'[i] = freeList[i + 1]
    BY <1>1, TailElements, LenProperties
<1>3. freeList[1] \in 1..curDbConnCnt /\ freeList[1] # NoConn
    BY <1>1, <1>2 DEF NoConnLost, NoConn
<1>4. PoolTypeOK'
    BY <1>1, <1>2, <1>3 DEF PoolTypeOK, DbPcs
<1>5. ConnExclusive'
    <2>1. \A u \in Threads : dbConn'[u] = IF u = t THEN freeList[1] ELSE dbConn[u]
        BY <1>2 DEF PoolTypeOK
    <2>2. \A u \in Threads : dbPc'[u] = "use" <=> dbConn'[u] # NoConn
        BY <2>1, <1>3 DEF ConnExclusive, PoolTypeOK
    <2>3. \A u, v \in Threads : dbConn'[u] = dbConn'[v] /\ dbConn'[u] # NoConn => u = v
        <3>1. \A u \in Threads : dbConn[u] # freeList[1]
            BY <1>2 DEF ConnExclusive
        <3> QED BY <2>1, <3>1 DEF ConnExclusive
    <2>4. \A u \in Threads, i \in DOMAIN freeList' : dbConn'[u] # freeList'[i]
        <3> SUFFICES ASSUME NEW u \in Threads, NEW i \in 1..(Len(freeList) - 1)
                     PROVE  dbConn'[u] # freeList'[i]
            BY <1>2
        <3>1. i + 1 \in DOMAIN freeList /\ 1 \in DOMAIN freeList /\ i + 1 # 1
            BY <1>2
        <3>2. freeList'[i] = freeList[i + 1]
            BY <1>2
        <3> QED BY <2>1, <3>1, <3>2 DEF ConnExclusive
    <2>5. \A i, j \in DOMAIN freeList' : freeList'[i] = freeList'[j] => i = j
        <3> SUFFICES ASSUME NEW i \in 1..(Len(freeList) - 1), NEW j \in 1..(Len(freeList) - 1),
                            freeList'[i] = freeList'[j]
                     PROVE  i = j
            BY <1>2
        <3>1. i + 1 \in DOMAIN freeList /\ j + 1 \in DOMAIN freeList
            BY <1>2
        <3>2. freeList[i + 1] = freeList[j + 1]
            BY <1>2
        <3>3. i + 1 = j + 1
            BY <3>1, <3>2 DEF ConnExclusive
        <3> QED BY <3>3
    <2> QED BY <2>2, <2>3, <2>4, <2>5 DEF ConnExclusive
<1>6. NoConnLost'
    <2>1. \A i \in DOMAIN freeList' : freeList'[i] \in 1..curDbConnCnt'
        BY <1>2, <1>1 DEF NoConnLost
    <2>2. \A u \in Threads : dbConn'[u] \in 0..curDbConnCnt'
        BY <1>2, <1>3, <1>1 DEF NoConnLost, PoolTypeOK
    <2>3. ASSUME NEW c \in 1..curDbConnCnt'
          PROVE  \/ \E i \in DOMAIN freeList' : freeList'[i] = c
                 \/ \E u \in Threads : dbConn'[u] = c
        <3>1. CASE \E u \in Threads : dbConn[u] = c
            <4>1. dbConn[t] = NoConn
                BY DEF ConnExclusive
            <4> QED BY <3>1, <4>1, <1>2, <1>1 DEF NoConn, PoolTypeOK
        <3>2. CASE \E i \in DOMAIN freeList : freeList[i] = c
            <4>1. PICK i \in 1..Len(freeList) : freeList[i] = c
                BY <3>2, <1>2
            <4>2. CASE i = 1
                BY <4>1, <4>2, <1>2 DEF PoolTypeOK
            <4>3. CASE i # 1
                <5>1. i - 1 \in DOMAIN freeList' /\ freeList'[i - 1] = freeList[i]
                    BY <4>3, <1>2
                <5> QED BY <5>1, <4>1
            <4> QED BY <4>2, <4>3
        <3> QED BY <3>1, <3>2 DEF NoConnLost
    <2> QED BY <2>1, <2>2, <2>3 DEF NoConnLost
<1> QED BY <1>4, <1>5, <1>6

LEMMA OpenNewIInv ==
    ASSUME PoolIInv, NEW t \in Threads, dbPc[t] = "want", OpenNew(t)
    PROVE  PoolIInv'
<1> USE DEF PoolIInv, OpenNew
<1>1. /\ curDbConnCnt \in Nat /\ PoolLimit \in Nat
      /\ curDbConnCnt + 1 <= PoolLimit
      /\ curDbConnCnt + 1 # NoConn
    BY PoolLimitFacts, PoolAssumption DEF PoolTypeOK, NoConn
<1>2. DOMAIN freeList = {} /\ DOMAIN freeList' = {}
    OBVIOUS
<1>3. PoolTypeOK'
    BY <1>1, PoolAssumption DEF PoolTypeOK, DbPcs
<1>4. ConnExclusive'
    BY <1>1, <1>2 DEF ConnExclusive, NoConnLost, PoolTypeOK, DbPcs
<1>5. dbConn[t] = NoConn
    BY DEF ConnExclusive
<1>6. NoConnLost'
    BY <1>1, <1>2, <1>5 DEF NoConnLost, PoolTypeOK, NoConn
<1> QED BY <1>3, <1>4, <1>6

\* NotifyOne wakes at most one waiter and touches nobody else.
LEMMA NotifyOneEffect ==
    ASSUME NEW pc \in [Threads -> DbPcs], NEW pc2 \in NotifyOne(pc)
    PROVE  /\ pc2 \in [Threads -> DbPcs]
           /\ \A u \in Threads : pc2[u] = "use" <=> pc[u] = "use"
           /\ \/ /\ pc2 = pc
                 /\ \A u \in Threads : pc[u] # "wait"
              \/ \E w \in Threads : pc[w] = "wait" /\ pc2 = [pc EXCEPT ![w] = "want"]
    BY DEF NotifyOne, DbPcs

\* The connection a thread releases is not on the free list, so it is pushed.
LEMMA PushFreeAppends ==
    ASSUME ConnExclusive, NEW t \in Threads
    PROVE  PushFree(dbConn[t]) = Append(freeList, dbConn[t])
    BY DEF ConnExclusive, PushFree

LEMMA ReleaseIInv ==
    ASSUME PoolIInv, NEW t \in Threads, ReleaseDBConn(t)
    PROVE  PoolIInv'
<1> USE DEF PoolIInv
<1> DEFINE c == dbConn[t]
<1> DEFINE n == Len(freeList)
<1>1. /\ PoolLimit \in Nat /\ curDbConnCnt \in Nat /\ curDbConnCnt <= PoolLimit
      /\ c # NoConn /\ c \in 1..curDbConnCnt /\ c \in 1..PoolLimit
    BY PoolLimitFacts, PoolAssumption
       DEF PoolTypeOK, ConnExclusive, NoConnLost, NoConn, ReleaseDBConn
<1>2. freeList' = Append(freeList, c)
    BY PushFreeAppends DEF ReleaseDBConn
<1>3. /\ n \in Nat /\ DOMAIN freeList = 1..n
      /\ freeList' \in Seq(1..PoolLimit)
      /\ DOMAIN freeList' = 1..(n + 1)
      /\ \A i \in 1..n : freeList'[i] = freeList[i]
      /\ freeList'[n + 1] = c
    BY <1>1, <1>2, PushElements, LenProperties DEF PoolTypeOK
<1>4. /\ dbPc' \in [Threads -> DbPcs]
      /\ \A u \in Threads : dbPc'[u] = "use" <=> (u # t /\ dbPc[u] = "use")
    <2>1. [dbPc EXCEPT ![t] = "idle"] \in [Threads -> DbPcs]
        BY DEF PoolTypeOK, DbPcs
    <2>2. /\ dbPc' \in [Threads -> DbPcs]
          /\ \A u \in Threads : dbPc'[u] = "use" <=> [dbPc EXCEPT ![t] = "idle"][u] = "use"
        BY <2>1, NotifyOneEffect DEF ReleaseDBConn
    <2> QED BY <2>2 DEF PoolTypeOK
<1>5. \A u \in Threads : dbConn'[u] = IF u = t THEN NoConn ELSE dbConn[u]
    BY DEF ReleaseDBConn, PoolTypeOK
<1>6. PoolTypeOK'
    <2>1. dbConn' = [dbConn EXCEPT ![t] = NoConn] /\ curDbConnCnt' = curDbConnCnt
        BY DEF ReleaseDBConn
    <2>2. NoConn \in 0..PoolLimit
        BY <1>1 DEF NoConn
    <2>3. dbConn' \in [Threads -> 0..PoolLimit]
        BY <2>1, <2>2 DEF PoolTypeOK
    <2> QED BY <1>3, <1>4, <2>1, <2>3 DEF PoolTypeOK
<1>7. ConnExclusive'
    <2>1. \A u \in Threads : dbPc'[u] = "use" <=> dbConn'[u] # NoConn
        BY <1>4, <1>5 DEF ConnExclusive
    <2>2. \A u, v \in Threads : dbConn'[u] = dbConn'[v] /\ dbConn'[u] # NoConn => u = v
        BY <1>5 DEF ConnExclusive
    <2>3. \A u \in Threads, i \in DOMAIN freeList' : dbConn'[u] # freeList'[i]
        <3> SUFFICES ASSUME NEW u \in Threads, NEW i \in 1..(n + 1)
                     PROVE  dbConn'[u] # freeList'[i]
            BY <1>3
        <3>1. CASE i = n + 1
            BY <3>1, <1>1, <1>3, <1>5 DEF ConnExclusive
        <3>2. CASE i \in 1..n
            <4>1. freeList'[i] = freeList[i] /\ freeList[i] \in 1..curDbConnCnt
                BY <3>2, <1>3 DEF NoConnLost
            <4>2. freeList[i] # NoConn
                BY <4>1, <1>1 DEF NoConn
            <4> QED BY <3>2, <4>1, <4>2, <1>3, <1>5 DEF ConnExclusive
        <3> QED BY <3>1, <3>2, <1>3
    <2>4. \A i, j \in DOMAIN freeList' : freeList'[i] = freeList'[j] => i = j
        <3>1. \A i \in 1..n : freeList[i] # c
            BY <1>3 DEF ConnExclusive
        <3> SUFFICES ASSUME NEW i \in 1..(n + 1), NEW j \in 1..(n + 1),
                            freeList'[i] = freeList'[j]
                     PROVE  i = j
            BY <1>3
        <3>2. CASE i \in 1..n /\ j \in 1..n
            BY <3>2, <1>3 DEF ConnExclusive
        <3>3. CASE i = n + 1 \/ j = n + 1
            BY <3>1, <3>3, <1>3
        <3> QED BY <3>2, <3>3, <1>3
    <2> QED BY <2>1, <2>2, <2>3, <2>4 DEF ConnExclusive
<1>8. NoConnLost'
    <2>0. curDbConnCnt' = curDbConnCnt
        BY DEF ReleaseDBConn
    <2>1. \A i \in DOMAIN freeList' : freeList'[i] \in 1..curDbConnCnt'
        <3>1. \A i \in 1..n : freeList[i] \in 1..curDbConnCnt
            BY <1>3 DEF NoConnLost
        <3>2. c \in 1..curDbConnCnt
            BY <1>1, <1>3 DEF NoConnLost
        <3> QED BY <1>3, <2>0, <3>1, <3>2
    <2>2. \A u \in Threads : dbConn'[u] \in 0..curDbConnCnt'
        BY <1>1, <1>5, <2>0 DEF NoConnLost, NoConn
    <2>3. ASSUME NEW d \in 1..curDbConnCnt'
          PROVE  \/ \E i \in DOMAIN freeList' : freeList'[i] = d
                 \/ \E u \in Threads : dbConn'[u] = d
        <3>1. CASE d = c
            BY <3>1, <1>3
        <3>2. CASE \E i \in DOMAIN freeList : freeList[i] = d
            BY <3>2, <1>3
        <3>3. CASE d # c /\ \E u \in Threads : dbConn[u] = d
            BY <3>3, <1>5
        <3> QED BY <3>1, <3>2, <3>3, <2>0 DEF NoConnLost
    <2> QED BY <2>1, <2>2, <2>3 DEF NoConnLost
<1> QED BY <1>6, <1>7, <1>8

LEMMA PoolStepIInv == PoolIInv /\ [PoolNext]_poolVars => PoolIInv'
<1> SUFFICES ASSUME PoolIInv, [PoolNext]_poolVars PROVE PoolIInv'
    OBVIOUS
<1>1. ASSUME NEW t \in Threads, RequestDBConn(t) PROVE PoolIInv'
    BY <1>1, PcOnlyStep DEF RequestDBConn, DbPcs
<1>2. ASSUME NEW t \in Threads, GetDBConn(t) PROVE PoolIInv'
    <2>1. CASE TakeFree(t)
        BY <1>2, <2>1, TakeFreeIInv DEF GetDBConn
    <2>2. CASE WaitForFree(t)
        BY <1>2, <2>2, PcOnlyStep DEF GetDBConn, WaitForFree, DbPcs
    <2>3. CASE OpenNew(t)
        BY <1>2, <2>3, OpenNewIInv DEF GetDBConn
    <2>4. CASE OpenFails(t)
        BY <1>2, <2>4, PcOnlyStep DEF GetDBConn, OpenFails, DbPcs
    <2> QED BY <1>2, <2>1, <2>2, <2>3, <2>4 DEF GetDBConn
<1>3. ASSUME NEW t \in Threads, SpuriousWakeup(t) PROVE PoolIInv'
    BY <1>3, PcOnlyStep DEF SpuriousWakeup, DbPcs
<1>4. ASSUME NEW t \in Threads, ReleaseDBConn(t) PROVE PoolIInv'
    BY <1>4, ReleaseIInv
<1>5. ASSUME NEW t \in Threads, GiveUp(t) PROVE PoolIInv'
    BY <1>5, PcOnlyStep DEF GiveUp, DbPcs
<1>6. CASE UNCHANGED poolVars
    BY <1>6 DEF poolVars, PoolIInv, PoolTypeOK, ConnExclusive, NoConnLost
<1> QED BY <1>1, <1>2, <1>3, <1>4, <1>5, <1>6 DEF PoolNext

\* Moving one thread to "want" adds one to the threads on their way, moving
\* one from "want" takes one away.
LEMMA WantingCount ==
    ASSUME NEW t \in Threads, NEW pc \in [Threads -> DbPcs], NEW q \in DbPcs
    PROVE  LET before == {u \in Threads : pc[u] = "want"}
               after  == {u \in Threads : [pc EXCEPT ![t] = q][u] = "want"}
           IN  /\ Cardinality(before) \in Nat
               /\ Cardinality(after) \in Nat
               /\ q = "want" /\ pc[t] # "want" => Cardinality(after) = Cardinality(before) + 1
               /\ q # "want" /\ pc[t] = "want" => Cardinality(after) = Cardinality(before) - 1
               /\ (q = "want" <=> pc[t] = "want") => Cardinality(after) = Cardinality(before)
<1> DEFINE before == {u \in Threads : pc[u] = "want"}
<1> DEFINE after == {u \in Threads : [pc EXCEPT ![t] = q][u] = "want"}
<1>1. IsFiniteSet(before) /\ IsFiniteSet(after)
    <2>1. before \subseteq Threads /\ after \subseteq Threads
        OBVIOUS
    <2> QED BY <2>1, FS_Subset, PoolAssumption
<1>2. Cardinality(before) \in Nat /\ Cardinality(after) \in Nat
    BY <1>1, FS_CardinalityType
<1>3. ASSUME q = "want", pc[t] # "want" PROVE Cardinality(after) = Cardinality(before) + 1
    <2>1. after = before \cup {t} /\ t \notin before
        BY <1>3
    <2> HIDE DEF before, after
    <2> QED BY <1>1, <2>1, FS_AddElement
<1>4. ASSUME q # "want", pc[t] = "want" PROVE Cardinality(after) = Cardinality(before) - 1
    <2>1. after = before \ {t} /\ t \in before
        BY <1>4
    <2> HIDE DEF before, after
    <2> QED BY <1>1, <2>1, FS_RemoveElement
<1>5. ASSUME q = "want" <=> pc[t] = "want" PROVE Cardinality(after) = Cardinality(before)
    <2>1. after = before
        BY <1>5
    <2> QED BY <2>1
<1> QED BY <1>2, <1>3, <1>4, <1>5

\* NoLostWakeup is inductive on top of the accounting.
LEMMA PoolStepWakeup ==
    PoolIInv /\ NoLostWakeup /\ [PoolNext]_poolVars => NoLostWakeup'
<1> SUFFICES ASSUME PoolIInv, NoLostWakeup, [PoolNext]_poolVars PROVE NoLostWakeup'
    OBVIOUS
<1>0. /\ dbPc \in [Threads -> DbPcs] /\ freeList \in Seq(1..PoolLimit)
      /\ Len(freeList) \in Nat /\ {"want", "wait", "use", "null", "idle"} \subseteq DbPcs
    BY LenProperties DEF PoolIInv, PoolTypeOK, DbPcs
<1>1. ASSUME NEW t \in Threads, NEW q \in DbPcs, dbPc' = [dbPc EXCEPT ![t] = q],
             q # "wait" \/ freeList = <<>>,
             q = "want" \/ dbPc[t] # "want" \/ freeList = <<>>, freeList' = freeList
      PROVE  NoLostWakeup'
    <2>1. CASE freeList = <<>>
        <3>1. Cardinality({u \in Threads : dbPc'[u] = "want"}) \in Nat
            BY <1>0, <1>1, WantingCount
        <3> QED BY <1>1, <2>1, <3>1 DEF NoLostWakeup
    <2>2. CASE freeList # <<>>
        <3>1. Cardinality({u \in Threads : dbPc'[u] = "want"})
                  >= Cardinality({u \in Threads : dbPc[u] = "want"})
              /\ Cardinality({u \in Threads : dbPc'[u] = "want"}) \in Nat
              /\ Cardinality({u \in Threads : dbPc[u] = "want"}) \in Nat
            <4>1. /\ q = "want" \/ dbPc[t] # "want"
                  /\ dbPc \in [Threads -> DbPcs] /\ dbPc' = [dbPc EXCEPT ![t] = q]
                BY <1>0, <1>1, <2>2
            <4>2. CASE dbPc[t] = "want"
                BY ONLY <4>1, <4>2, t \in Threads, q \in DbPcs, WantingCount
            <4>3. CASE dbPc[t] # "want" /\ q = "want"
                BY ONLY <4>1, <4>3, t \in Threads, q \in DbPcs, WantingCount
            <4>4. CASE dbPc[t] # "want" /\ q # "want"
                BY ONLY <4>1, <4>4, t \in Threads, q \in DbPcs, WantingCount
            <4> QED BY <4>2, <4>3, <4>4
        <3>2. (\E u \in Threads : dbPc'[u] = "wait") => \E u \in Threads : dbPc[u] = "wait"
            BY <1>0, <1>1, <2>2
        <3> QED BY <1>0, <1>1, <3>1, <3>2 DEF NoLostWakeup
    <2> QED BY <2>1, <2>2
<1>2. ASSUME NEW t \in Threads, dbPc[t] = "want", TakeFree(t) PROVE NoLostWakeup'
    <2>1. Len(freeList') = Len(freeList) - 1
        BY <1>0, <1>2, TailElements DEF TakeFree
    <2>2. dbPc' = [dbPc EXCEPT ![t] = "use"]
        BY <1>2 DEF TakeFree
    <2>3. Cardinality({u \in Threads : dbPc'[u] = "want"})
              = Cardinality({u \in Threads : dbPc[u] = "want"}) - 1
          /\ Cardinality({u \in Threads : dbPc[u] = "want"}) \in Nat
        BY <1>0, <1>2, <2>2, WantingCount
    <2>4. (\E u \in Threads : dbPc'[u] = "wait") => \E u \in Threads : dbPc[u] = "wait"
        BY <1>0, <2>2
    <2> QED BY <1>0, <2>1, <2>3, <2>4 DEF NoLostWakeup
<1>3. ASSUME NEW t \in Threads, ReleaseDBConn(t) PROVE NoLostWakeup'
    <2> DEFINE pc == [dbPc EXCEPT ![t] = "idle"]
    <2>1. pc \in [Threads -> DbPcs] /\ dbPc' \in NotifyOne(pc)
        BY <1>0, <1>3 DEF ReleaseDBConn
    <2>2. Cardinality({u \in Threads : pc[u] = "want"})
              = Cardinality({u \in Threads : dbPc[u] = "want"})
          /\ Cardinality({u \in Threads : dbPc[u] = "want"}) \in Nat
        BY <1>0, <1>3, WantingCount DEF ReleaseDBConn
    <2>3. \A u \in Threads : pc[u] = "wait" => dbPc[u] = "wait"
        BY <1>0
    <2>4. Len(freeList') = Len(freeList) + 1
        <3>1. freeList' = Append(freeList, dbConn[t])
            BY <1>3, PushFreeAppends DEF PoolIInv, ReleaseDBConn
        <3> QED BY <3>1, <1>0
    <2> HIDE DEF pc
    <2>5. CASE dbPc' = pc /\ \A u \in Threads : pc[u] # "wait"
        BY <2>5 DEF NoLostWakeup
    <2>6. ASSUME NEW w \in Threads, pc[w] = "wait", dbPc' = [pc EXCEPT ![w] = "want"]
          PROVE  NoLostWakeup'
        <3>1. Cardinality({u \in Threads : dbPc'[u] = "want"})
                  = Cardinality({u \in Threads : pc[u] = "want"}) + 1
            BY <1>0, <2>1, <2>6, WantingCount
        <3>2. Len(freeList) <= Cardinality({u \in Threads : dbPc[u] = "want"})
            BY <2>3, <2>6 DEF NoLostWakeup
        <3> QED BY <1>0, <2>2, <2>4, <3>1, <3>2 DEF NoLostWakeup
    <2> QED BY <2>1, <2>5, <2>6, NotifyOneEffect
<1>4. ASSUME NEW t \in Threads, GetDBConn(t) PROVE NoLostWakeup'
    <2>1. CASE TakeFree(t)
        BY <1>2, <1>4, <2>1 DEF GetDBConn
    <2>2. CASE WaitForFree(t)
        BY <1>0, <1>1, <2>2 DEF WaitForFree
    <2>3. CASE OpenNew(t)
        BY <1>0, <1>1, <2>3 DEF OpenNew
    <2>4. CASE OpenFails(t)
        BY <1>0, <1>1, <2>4 DEF OpenFails
    <2> QED BY <1>4, <2>1, <2>2, <2>3, <2>4 DEF GetDBConn
<1>5. ASSUME NEW t \in Threads, RequestDBConn(t) \/ SpuriousWakeup(t) \/ GiveUp(t)
      PROVE  NoLostWakeup'
    BY <1>0, <1>1, <1>5 DEF RequestDBConn, SpuriousWakeup, GiveUp
<1>6. CASE UNCHANGED poolVars
    BY <1>6 DEF poolVars, NoLostWakeup
<1> QED BY <1>3, <1>4, <1>5, <1>6 DEF PoolNext

\* The accounting of GetDBConn and ReleaseDBConn, for every pool: the pool is
\* well typed.
THEOREM PoolTypeCorrect == PoolSpec => []PoolTypeOK
<1>1. PoolIInv => PoolTypeOK
    BY DEF PoolIInv
<1> QED BY <1>1, PoolInitIInv, PoolStepIInv, PTL DEF PoolSpec

\* No two threads ever share a DBConn and none in use is on freeList_.
THEOREM PoolExclusive == PoolSpec => []ConnExclusive
<1>1. PoolIInv => ConnExclusive
    BY DEF PoolIInv
<1> QED BY <1>1, PoolInitIInv, PoolStepIInv, PTL DEF PoolSpec

\* curDbConnCnt_ counts exactly the connections that are free or in use.
THEOREM PoolLosesNothing == PoolSpec => []NoConnLost
<1>1. PoolIInv => NoConnLost
    BY DEF PoolIInv
<1> QED BY <1>1, PoolInitIInv, PoolStepIInv, PTL DEF PoolSpec

\* notify_one in ReleaseDBConn is enough: while a thread sleeps on notEmpty_,
\* every free connection has a thread on its way to the mutex to take it.
THEOREM PoolWakesWaiters == PoolSpec => []NoLostWakeup
<1>1. PoolInit => NoLostWakeup
    BY DEF PoolInit, NoLostWakeup
<1> QED BY <1>1, PoolInitIInv, PoolStepIInv, PoolStepWakeup, PTL DEF PoolSpec

-----------------------------------------------------------------------------
(* The proxy: DbProxy.                                                     *)

\* Every step of the proxy is a step of the pool or leaves the pool alone.
LEMMA ProxyStepPool == [ProxyNext]_proxyVars => [PoolNext]_poolVars
<1> SUFFICES ASSUME [ProxyNext]_proxyVars PROVE [PoolNext]_poolVars
    OBVIOUS
<1>1. ASSUME NEW h \in Handles, Accept(h) PROVE UNCHANGED poolVars
    BY <1>1 DEF Accept
<1>2. ASSUME NEW c \in Conns, CloseConn(c) PROVE UNCHANGED poolVars
    BY <1>2 DEF CloseConn
<1>3. ASSUME NEW c \in Conns, NEW b \in Batches, OnRead(c, b) PROVE UNCHANGED poolVars
    BY <1>3 DEF OnRead
<1>4. CASE MainStep
    BY <1>4 DEF MainStep, OnReadReturns, HandleIgnored, HandleBroken, AddTask, PushTask,
                StartDrain, SendResponse, EndDrain, ExitCallback, StopWorker, JoinWorker
<1>5. CASE SigTerm
    BY <1>5 DEF SigTerm
<1>6. ASSUME NEW w \in Workers, WorkerStep(w) PROVE [PoolNext]_poolVars
    <2>1. CASE StartQuery(w)
        BY <2>1 DEF StartQuery, PoolNext, Workers
    <2>2. CASE QueryGets(w)
        BY <2>2 DEF QueryGets, PoolNext, Workers
    <2>3. CASE QueryEnds(w)
        BY <2>3 DEF QueryEnds, PoolNext, Workers
    <2>4. CASE \/ CheckStarted(w) \/ WaitForTask(w) \/ TakeTask(w) \/ AnswerAtOnce(w)
               \/ DropAllUser(w) \/ AddResponsePdu(w) \/ AddResponseLate(w)
        BY <2>4 DEF CheckStarted, WaitForTask, TakeTask, AnswerAtOnce, DropAllUser,
                    AddResponsePdu, AddResponseLate
    <2> QED BY <1>6, <2>1, <2>2, <2>3, <2>4 DEF WorkerStep
<1>7. ASSUME NEW w \in Workers, SpuriousTaskWakeup(w) \/ SpuriousDbWakeup(w)
      PROVE  [PoolNext]_poolVars
    BY <1>7 DEF SpuriousTaskWakeup, SpuriousDbWakeup, PoolNext, Workers
<1>8. CASE UNCHANGED proxyVars
    BY <1>8 DEF proxyVars
<1> QED BY <1>1, <1>2, <1>3, <1>4, <1>5, <1>6, <1>7, <1>8 DEF ProxyNext

\* The proxy implements the pool's specification: its handlers borrow and
\* return DBConns in no order DBPool does not allow.
THEOREM ProxyUsesPool == ProxySpec => PoolSpec
<1>1. ProxyInit => PoolInit
    BY DEF ProxyInit
<1> QED BY <1>1, ProxyStepPool, PTL DEF ProxySpec, PoolSpec

\* Hence the business handlers never share a DBConn, never lose one and never
\* sleep through one that is free.
THEOREM ProxyPoolSafe == ProxySpec => [](ConnExclusive /\ NoConnLost /\ NoLostWakeup)
    BY ProxyUsesPool, PoolExclusive, PoolLosesNothing, PoolWakesWaiters, PTL

-----------------------------------------------------------------------------
\* The inductive invariant, part by part.

\* g_proxy_conn_map files a connection under its own handle.
ConnInv == \A h \in Handles : connMap[h] # 0 => conn[connMap[h]].handle = h

\* While OnRead has PDUs left its connection is open, and they fit the bound.
ReadInv ==
    /\ mainPc = "read" => curConn \in 1..accepted
    /\ mainPc = "read" /\ pending # <<>> => connMap[conn[curConn].handle] = curConn
    /\ Len(reqs) + Len(pending) <= MaxReqs
    /\ pushTo # 0 => /\ mainPc = "read"
                     /\ pending # <<>> /\ Head(pending) \notin {"ignored", "broken"}
    /\ mainPc \in {"stop", "join"} => stopping \in 1..NumThreads

\* Before the allocator wraps, uuids are never reused and g_uuid_conn_map
\* holds only open connections.
UuidInv ==
    accepted < UuidSpace =>
        /\ uuidAlloctor = accepted
        /\ \A c \in 1..accepted : conn[c].uuid = c
        /\ \A u \in Uuids : uuidMap[u] # 0 => uuidMap[u] = u /\ connMap[conn[u].handle] = u

\* A task or an answer bears the uuid of the connection its request came from.
OkTask(t) ==
    /\ t.req \in 1..Len(reqs)
    /\ accepted < UuidSpace => t.uuid = reqs[t.req].conn

TaskInv ==
    /\ \A i \in 1..Len(reqs) : reqs[i].conn \in 1..accepted
    /\ \A w \in Workers : \A i \in 1..Len(taskList[w]) : OkTask(taskList[w][i])
    /\ \A w \in Workers : HoldsMutex(w) => OkTask(task[w])
    /\ \A i \in 1..Len(responses) : OkTask(responses[i])
    /\ \A c \in Conns : \A i \in 1..Len(out[c]) : out[c][i] \in 1..Len(reqs)

ProxyIInv ==
    VarsTypeOK /\ ConnInv /\ ReadInv /\ UuidInv /\ TaskInv /\ NoTaskAsleep /\ ReplyToAsker

-----------------------------------------------------------------------------
LEMMA ProxyConstants ==
    /\ NumThreads \in Nat /\ MaxAccepts \in Nat /\ MaxReqs \in Nat
    /\ UuidSpace \in Nat /\ UuidSpace > 1
    /\ Workers = 1..NumThreads
    /\ Batches \subseteq Seq(Kinds)
    BY ProxyAssumption DEF Workers

\* uuid_ is never 0, and is the successor until the allocator wraps.
LEMMA NextUuidFacts ==
    ASSUME NEW a \in 0..(UuidSpace - 1)
    PROVE  NextUuid(a) \in Uuids /\ (a + 1 < UuidSpace => NextUuid(a) = a + 1)
<1> USE ProxyConstants DEF NextUuid, Uuids
<1>1. CASE a + 1 < UuidSpace
    <2>1. (a + 1) % UuidSpace = a + 1
        BY <1>1
    <2> QED BY <1>1, <2>1
<1>2. CASE a + 1 = UuidSpace
    <2>1. UuidSpace % UuidSpace = 0
        OBVIOUS
    <2> QED BY <1>2, <2>1
<1> QED BY <1>1, <1>2

LEMMA EmptyList ==
    ASSUME NEW S
    PROVE  <<>> \in Seq(S) /\ Len(<<>>) = 0 /\ 1..Len(<<>>) = {}
    OBVIOUS

LEMMA ConnFields ==
    ASSUME VarsTypeOK, NEW c \in 1..accepted
    PROVE  accepted \in Nat /\ conn[c].handle \in Handles /\ conn[c].uuid \in Uuids
<1>1. conn[c] \in [handle : Handles, uuid : Uuids]
    BY ElementOfSeq DEF VarsTypeOK
<1>2. accepted \in Nat
    BY ProxyConstants DEF VarsTypeOK
<1> QED BY <1>1, <1>2

LEMMA ProxyInitIInv == ProxyInit => ProxyIInv
<1> SUFFICES ASSUME ProxyInit PROVE ProxyIInv
    OBVIOUS
<1> USE ProxyConstants DEF ProxyInit
<1>1. VarsTypeOK
    <2>1. /\ conn \in Seq([handle : Handles, uuid : Uuids]) /\ Len(conn) = 0
          /\ reqs \in Seq([kind : Kinds, conn : Conns, worker : Workers]) /\ Len(reqs) = 0
          /\ pending \in Seq(Kinds) /\ responses \in Seq(Tasks)
        BY EmptyList
    <2>2. taskList \in [Workers -> Seq(Tasks)] /\ out \in [Conns -> Seq(1..MaxReqs)]
        BY EmptyList
    <2>3. /\ wpc \in [Workers -> WorkerPcs] /\ task \in [Workers -> Tasks \cup {NoTask}]
          /\ started \in [Workers -> BOOLEAN]
        BY DEF WorkerPcs
    <2>4. connMap \in [Handles -> 0..accepted] /\ uuidMap \in [Uuids -> 0..accepted]
        OBVIOUS
    <2>5. /\ accepted \in 0..MaxAccepts /\ uuidAlloctor \in 0..(UuidSpace - 1)
          /\ curConn \in 0..accepted /\ pushTo \in 0..NumThreads /\ stopping \in 0..NumThreads
        OBVIOUS
    <2>6. mainPc \in MainPcs /\ sigterm \in BOOLEAN
        BY Zenon DEF MainPcs
    <2>7. Len(conn) = accepted /\ Len(reqs) <= MaxReqs
        BY <2>1
    <2> HIDE DEF ProxyInit
    <2> QED BY <2>1, <2>2, <2>3, <2>4, <2>5, <2>6, <2>7 DEF VarsTypeOK
<1>2. ConnInv /\ ReadInv /\ UuidInv
    BY DEF ConnInv, ReadInv, UuidInv
<1>3. TaskInv
    BY DEF TaskInv, HoldsMutex
<1>4. NoTaskAsleep /\ ReplyToAsker
    BY DEF NoTaskAsleep, ReplyToAsker
<1> QED BY <1>1, <1>2, <1>3, <1>4 DEF ProxyIInv

\* The step keeps everything the invariant's parts about tasks depend on,
\* except where one worker is and which task it runs.
LEMMA WorkerOnlyStep ==
    ASSUME ProxyIInv, NEW w \in Workers, NEW pc \in WorkerPcs,
           wpc' = [wpc EXCEPT ![w] = pc],
           task' = task \/ task' = [task EXCEPT ![w] = NoTask],
           pc \in {"run", "db", "respond"} => HoldsMutex(w) /\ task' = task,
           pc = "wait" => taskList[w] = <<>>,
           UNCHANGED <<connVars, mainPc, readVars, reqs, taskList, responses, out, exitVars>>
    PROVE  ProxyIInv'
<1> USE DEF ProxyIInv, connVars, readVars, exitVars
<1>1. VarsTypeOK'
    BY DEF VarsTypeOK
<1>2. ConnInv' /\ ReadInv' /\ UuidInv'
    BY DEF ConnInv, ReadInv, UuidInv
<1>3. TaskInv'
    BY DEF TaskInv, OkTask, HoldsMutex, VarsTypeOK
<1>4. NoTaskAsleep' /\ ReplyToAsker'
    BY DEF NoTaskAsleep, ReplyToAsker, VarsTypeOK
<1> QED BY <1>1, <1>2, <1>3, <1>4

LEMMA TakeTaskIInv ==
    ASSUME ProxyIInv, NEW w \in Workers, TakeTask(w)
    PROVE  ProxyIInv'
<1> USE DEF ProxyIInv, TakeTask, PopTask, connVars, readVars, exitVars
<1>1. /\ taskList[w] \in Seq(Tasks) /\ taskList[w] # <<>>
      /\ Len(taskList[w]) \in Nat \ {0}
      /\ Head(taskList[w]) = taskList[w][1] /\ Head(taskList[w]) \in Tasks
      /\ Tail(taskList[w]) \in Seq(Tasks)
      /\ Len(Tail(taskList[w])) = Len(taskList[w]) - 1
      /\ \A i \in 1..(Len(taskList[w]) - 1) : Tail(taskList[w])[i] = taskList[w][i + 1]
    <2>1. taskList[w] \in Seq(Tasks) /\ taskList[w] # <<>>
        BY DEF VarsTypeOK
    <2> QED BY <2>1, TailElements, HeadTailProperties
<1>2. VarsTypeOK'
    BY <1>1 DEF VarsTypeOK, WorkerPcs
<1>3. ConnInv' /\ ReadInv' /\ UuidInv'
    BY DEF ConnInv, ReadInv, UuidInv
<1>4. OkTask(Head(taskList[w]))
    BY <1>1 DEF TaskInv
<1>5. ASSUME NEW v \in Workers, NEW i \in 1..Len(taskList'[v]) PROVE OkTask(taskList'[v][i])
    <2>1. CASE v = w
        <3>1. taskList'[v] = Tail(taskList[w])
            BY <2>1 DEF VarsTypeOK
        <3>2. i \in 1..(Len(taskList[w]) - 1) /\ taskList'[v][i] = taskList[w][i + 1]
            <4> DEFINE q == taskList[w]
            <4>1. i \in 1..Len(Tail(q)) /\ Len(Tail(q)) = Len(q) - 1
                BY <1>1, <3>1
            <4> QED BY <1>1, <3>1, <4>1
        <3>3. i + 1 \in 1..Len(taskList[w])
            BY <1>1, <3>2
        <3> QED BY <3>2, <3>3 DEF TaskInv
    <2>2. CASE v # w
        BY <2>2 DEF TaskInv, VarsTypeOK
    <2> QED BY <2>1, <2>2
<1>6. TaskInv'
    <2>1. \A v \in Workers : HoldsMutex(v)' => OkTask(task'[v])
        BY <1>4 DEF TaskInv, HoldsMutex, VarsTypeOK
    <2>2. \A t : OkTask(t)' <=> OkTask(t)
        BY DEF OkTask
    <2> QED BY <1>5, <2>1, <2>2 DEF TaskInv
<1>7. NoTaskAsleep' /\ ReplyToAsker'
    BY DEF NoTaskAsleep, ReplyToAsker, VarsTypeOK
<1> QED BY <1>2, <1>3, <1>6, <1>7

LEMMA WorkerStepIInv ==
    ASSUME ProxyIInv, NEW w \in Workers,
           WorkerStep(w) \/ SpuriousTaskWakeup(w) \/ SpuriousDbWakeup(w)
    PROVE  ProxyIInv'
<1> USE DEF WorkerPcs
<1>1. CASE CheckStarted(w)
    BY <1>1, WorkerOnlyStep DEF CheckStarted
<1>2. CASE WaitForTask(w)
    BY <1>2, WorkerOnlyStep DEF WaitForTask
<1>3. CASE TakeTask(w)
    BY <1>3, TakeTaskIInv
<1>4. CASE StartQuery(w) \/ QueryGets(w) \/ SpuriousDbWakeup(w)
    BY <1>4, WorkerOnlyStep DEF StartQuery, QueryGets, SpuriousDbWakeup, WorkerMoves, HoldsMutex
<1>5. CASE AnswerAtOnce(w) \/ QueryEnds(w)
    BY <1>5, WorkerOnlyStep DEF AnswerAtOnce, QueryEnds, WorkerMoves, HoldsMutex
<1>6. CASE DropAllUser(w)
    BY <1>6, WorkerOnlyStep DEF DropAllUser
<1>7. CASE AddResponsePdu(w)
    <2> USE DEF ProxyIInv, AddResponsePdu, QueueResponse, connVars, readVars, exitVars
    <2>1. OkTask(task[w]) /\ task[w] \in Tasks
        <3>1. HoldsMutex(w)
            BY <1>7 DEF HoldsMutex
        <3>2. OkTask(task[w])
            BY <3>1 DEF TaskInv
        <3>3. task[w] \in Tasks \cup {NoTask}
            BY DEF VarsTypeOK
        <3>4. task[w].req # 0 /\ NoTask.req = 0
            BY <3>2 DEF OkTask, NoTask
        <3> HIDE DEF AddResponsePdu, ProxyIInv
        <3> QED BY <3>2, <3>3, <3>4
    <2>2. /\ Len(responses) \in Nat
          /\ responses' \in Seq(Tasks)
          /\ Len(responses') = Len(responses) + 1
          /\ \A i \in 1..Len(responses) : responses'[i] = responses[i]
          /\ responses'[Len(responses) + 1] = task[w]
        BY <1>7, <2>1, PushElements, LenProperties DEF VarsTypeOK
    <2>3. VarsTypeOK'
        BY <1>7, <2>2 DEF VarsTypeOK
    <2>4. ConnInv' /\ ReadInv' /\ UuidInv'
        BY <1>7 DEF ConnInv, ReadInv, UuidInv
    <2>5. TaskInv'
        <3>1. \A t : OkTask(t)' <=> OkTask(t)
            BY <1>7 DEF OkTask
        <3>2. \A i \in 1..Len(responses') : OkTask(responses'[i])
            BY <2>1, <2>2 DEF TaskInv
        <3>3. \A v \in Workers : HoldsMutex(v)' => v # w /\ HoldsMutex(v) /\ task'[v] = task[v]
            BY <1>7 DEF HoldsMutex, VarsTypeOK
        <3> QED BY <1>7, <3>1, <3>2, <3>3 DEF TaskInv
    <2>6. NoTaskAsleep' /\ ReplyToAsker'
        BY <1>7 DEF NoTaskAsleep, ReplyToAsker, VarsTypeOK
    <2> QED BY <2>3, <2>4, <2>5, <2>6
<1>8. CASE AddResponseLate(w)
    <2> USE DEF ProxyIInv, AddResponseLate, connVars, readVars, exitVars
    <2>1. VarsTypeOK'
        BY <1>8 DEF VarsTypeOK, MainPcs
    <2>2. ConnInv' /\ ReadInv' /\ UuidInv'
        BY <1>8 DEF ConnInv, ReadInv, UuidInv
    <2>3. TaskInv'
        BY <1>8 DEF TaskInv, OkTask, HoldsMutex, VarsTypeOK
    <2>4. NoTaskAsleep' /\ ReplyToAsker'
        BY <1>8 DEF NoTaskAsleep, ReplyToAsker, VarsTypeOK
    <2> QED BY <2>1, <2>2, <2>3, <2>4
<1>9. CASE SpuriousTaskWakeup(w)
    BY <1>9, WorkerOnlyStep DEF SpuriousTaskWakeup
<1> QED BY <1>1, <1>2, <1>3, <1>4, <1>5, <1>6, <1>7, <1>8, <1>9 DEF WorkerStep

-----------------------------------------------------------------------------
\* Steps of the main thread that only move it, or begin or go on with exit.
LEMMA MainOnlyStep ==
    ASSUME ProxyIInv, UNCHANGED <<connVars, reqs, workVars, out>>,
           responses' = responses \/ responses' = <<>>,
           mainPc' \in MainPcs, curConn' \in 0..accepted,
           pending' = pending, pushTo' = pushTo,
           mainPc' = "read" => mainPc = "read" /\ curConn' = curConn,
           mainPc = "read" => mainPc' = "read" \/ pending = <<>>,
           started' \in [Workers -> BOOLEAN], sigterm' \in BOOLEAN,
           stopping' \in 0..NumThreads,
           mainPc' \in {"stop", "join"} => stopping' \in 1..NumThreads
    PROVE  ProxyIInv'
<1> USE DEF ProxyIInv, connVars, workVars
<1>1. VarsTypeOK'
    <2>1. responses' \in Seq(Tasks)
        BY EmptyList DEF VarsTypeOK
    <2> QED BY <2>1 DEF VarsTypeOK
<1>2. ConnInv' /\ ReadInv' /\ UuidInv'
    BY DEF ConnInv, ReadInv, UuidInv
<1>3. TaskInv'
    <2>1. \A t : OkTask(t)' <=> OkTask(t)
        BY DEF OkTask
    <2>2. \A i \in 1..Len(responses') : OkTask(responses'[i])
        BY EmptyList DEF TaskInv
    <2> QED BY <2>1, <2>2 DEF TaskInv, HoldsMutex
<1>4. NoTaskAsleep' /\ ReplyToAsker'
    BY DEF NoTaskAsleep, ReplyToAsker
<1> QED BY <1>1, <1>2, <1>3, <1>4

\* A step that touches no task, answer or connection keeps those parts.
LEMMA TaskFrame ==
    ASSUME ProxyIInv, UNCHANGED <<accepted, reqs, workVars, responses, out>>
    PROVE  TaskInv' /\ NoTaskAsleep' /\ ReplyToAsker'
    BY DEF ProxyIInv, TaskInv, OkTask, HoldsMutex, NoTaskAsleep, ReplyToAsker, workVars

LEMMA AcceptIInv ==
    ASSUME ProxyIInv, NEW h \in Handles, Accept(h)
    PROVE  ProxyIInv'
<1> USE ProxyConstants DEF ProxyIInv
<1> DEFINE c == accepted + 1
<1> DEFINE u == NextUuid(uuidAlloctor)
<1> DEFINE rec == [handle |-> h, uuid |-> u]
<1>1. /\ accepted \in Nat /\ c \in 1..MaxAccepts /\ accepted' = c
      /\ u \in Uuids /\ (c < UuidSpace /\ uuidAlloctor = accepted => u = c)
      /\ uuidAlloctor' = u
    <2>1. accepted \in Nat /\ c \in 1..MaxAccepts /\ accepted' = c /\ uuidAlloctor' = u
        BY DEF Accept, VarsTypeOK
    <2>2. u \in Uuids /\ (uuidAlloctor + 1 < UuidSpace => u = uuidAlloctor + 1)
        BY NextUuidFacts DEF VarsTypeOK
    <2> QED BY <2>1, <2>2
<1>2. /\ conn' \in Seq([handle : Handles, uuid : Uuids]) /\ Len(conn') = c
      /\ \A i \in 1..accepted : conn'[i] = conn[i]
      /\ conn'[c] = rec
    <2>1. rec \in [handle : Handles, uuid : Uuids] /\ conn' = Append(conn, rec)
        BY <1>1 DEF Accept
    <2>2. conn \in Seq([handle : Handles, uuid : Uuids]) /\ Len(conn) = accepted
        BY DEF VarsTypeOK
    <2> HIDE DEF rec, u
    <2> QED BY <2>1, <2>2, <1>1, PushElements
<1>3. connMap' = [connMap EXCEPT ![h] = c] /\ connMap[h] = 0
    BY DEF Accept, MapInsert
<1>4. uuidMap' = uuidMap \/ (uuidMap' = [uuidMap EXCEPT ![u] = c] /\ uuidMap[u] = 0)
    BY DEF Accept, MapInsert
<1> HIDE DEF c, u
<1>5. UNCHANGED <<mainPc, readVars, reqs, workVars, responses, out, exitVars>> /\ mainPc = "loop"
    BY DEF Accept
<1>6. VarsTypeOK'
    <2>1. connMap' \in [Handles -> 0..c] /\ uuidMap' \in [Uuids -> 0..c]
        <3>1. connMap \in [Handles -> 0..c] /\ uuidMap \in [Uuids -> 0..c] /\ c \in 0..c
            BY <1>1 DEF VarsTypeOK, c
        <3> QED BY <1>1, <1>3, <1>4, <3>1
    <2>2. u \in 0..(UuidSpace - 1) /\ curConn' \in 0..c /\ c \in 0..MaxAccepts
        BY <1>1, <1>5 DEF VarsTypeOK, Uuids, readVars, c
    <2> QED BY <1>1, <1>2, <1>5, <2>1, <2>2 DEF VarsTypeOK, readVars, workVars, exitVars
<1>7. ConnInv'
    <2> SUFFICES ASSUME NEW k \in Handles, connMap'[k] # 0 PROVE conn'[connMap'[k]].handle = k
        BY DEF ConnInv
    <2>1. CASE k = h
        BY <2>1, <1>2, <1>3 DEF VarsTypeOK
    <2>2. CASE k # h
        BY <2>2, <1>1, <1>2, <1>3 DEF VarsTypeOK, ConnInv
    <2> QED BY <2>1, <2>2
<1>8. ReadInv'
    BY <1>1, <1>5 DEF ReadInv, readVars, exitVars
<1>9. UuidInv'
    <2> SUFFICES ASSUME c < UuidSpace PROVE UuidInv'
        BY <1>1 DEF UuidInv
    <2>1. accepted < UuidSpace /\ u = c
        BY <1>1 DEF UuidInv, c
    <2>2. \A i \in 1..c : conn'[i].uuid = i
        BY <1>1, <1>2, <2>1 DEF UuidInv, c
    <2>3. ASSUME NEW v \in Uuids, uuidMap'[v] # 0
          PROVE  uuidMap'[v] = v /\ connMap'[conn'[v].handle] = v
        <3>1. CASE uuidMap[v] # 0
            <4>1. /\ uuidMap[v] = v /\ connMap[conn[v].handle] = v /\ v \in 1..accepted
                  /\ uuidMap'[v] = v
                BY <2>1, <3>1, <1>1, <1>4 DEF UuidInv, VarsTypeOK
            <4>2. conn'[v] = conn[v] /\ conn[v].handle \in Handles /\ conn[v].handle # h
                BY <4>1, <1>1, <1>2, <1>3, ConnFields DEF Uuids
            <4> QED BY <4>1, <4>2, <1>3 DEF VarsTypeOK
        <3>2. CASE uuidMap[v] = 0
            <4>1. v = u /\ uuidMap'[v] = c
                BY <2>3, <3>2, <1>4 DEF VarsTypeOK
            <4> QED BY <4>1, <2>1, <1>2, <1>3 DEF VarsTypeOK
        <3> QED BY <3>1, <3>2
    <2> QED BY <1>1, <2>1, <2>2, <2>3 DEF UuidInv
<1>10. TaskInv'
    <2>1. \A t : OkTask(t) => OkTask(t)'
        BY <1>1, <1>5 DEF OkTask, c
    <2> QED BY <2>1, <1>1, <1>5 DEF TaskInv, HoldsMutex, workVars, c
<1>11. NoTaskAsleep' /\ ReplyToAsker'
    BY <1>1, <1>5 DEF NoTaskAsleep, ReplyToAsker, workVars, c
<1> QED BY <1>6, <1>7, <1>8, <1>9, <1>10, <1>11

\* Closing an open connection.
LEMMA CloseInv ==
    ASSUME ProxyIInv, NEW c \in 1..accepted, connMap[conn[c].handle] = c, Close(c)
    PROVE  /\ ConnInv' /\ UuidInv'
           /\ connMap' \in [Handles -> 0..accepted] /\ uuidMap' \in [Uuids -> 0..accepted]
           /\ UNCHANGED <<accepted, uuidAlloctor, conn>>
<1> USE ProxyConstants DEF ProxyIInv, Close, EraseUuid
<1>1. accepted \in Nat /\ conn[c].handle \in Handles /\ conn[c].uuid \in Uuids
    BY ConnFields
<1>2. connMap' \in [Handles -> 0..accepted] /\ uuidMap' \in [Uuids -> 0..accepted]
    BY <1>1 DEF VarsTypeOK
<1>3. ConnInv'
    BY <1>1 DEF ConnInv, VarsTypeOK
<1>4. UuidInv'
    <2> SUFFICES ASSUME accepted < UuidSpace, NEW v \in Uuids, uuidMap'[v] # 0
                 PROVE  uuidMap'[v] = v /\ connMap'[conn[v].handle] = v
        BY DEF UuidInv
    <2>1. v # c /\ uuidMap'[v] = uuidMap[v]
        BY <1>1 DEF UuidInv, VarsTypeOK
    <2>2. uuidMap[v] = v /\ connMap[conn[v].handle] = v
        BY <2>1 DEF UuidInv
    <2>3. conn[v].handle # conn[c].handle /\ conn[v].handle \in Handles
        <3>1. v \in 1..accepted
            BY <1>1, <2>2 DEF VarsTypeOK, Uuids
        <3> QED BY <2>1, <2>2, <3>1, ConnFields
    <2> QED BY <2>1, <2>2, <2>3 DEF VarsTypeOK
<1> QED BY <1>2, <1>3, <1>4

LEMMA CloseConnIInv ==
    ASSUME ProxyIInv, NEW c \in Conns, CloseConn(c)
    PROVE  ProxyIInv'
<1>1. c \in 1..accepted /\ connMap[conn[c].handle] = c /\ Close(c)
    BY DEF CloseConn, IsOpen
<1>2. /\ ConnInv' /\ UuidInv'
      /\ connMap' \in [Handles -> 0..accepted] /\ uuidMap' \in [Uuids -> 0..accepted]
      /\ UNCHANGED <<accepted, uuidAlloctor, conn>>
    BY <1>1, CloseInv
<1>3. UNCHANGED <<mainPc, readVars, reqs, workVars, responses, out, exitVars>> /\ mainPc = "loop"
    BY DEF CloseConn
<1>4. VarsTypeOK'
    BY <1>2, <1>3 DEF ProxyIInv, VarsTypeOK, readVars, workVars, exitVars
<1>5. ReadInv'
    BY <1>2, <1>3 DEF ProxyIInv, ReadInv, readVars, exitVars
<1> QED BY <1>2, <1>3, <1>4, <1>5, TaskFrame DEF ProxyIInv

LEMMA HandleBrokenIInv ==
    ASSUME ProxyIInv, HandleBroken
    PROVE  ProxyIInv'
<1>1. curConn \in 1..accepted /\ connMap[conn[curConn].handle] = curConn /\ Close(curConn)
    BY DEF HandleBroken, ProxyIInv, ReadInv
<1>2. /\ ConnInv' /\ UuidInv'
      /\ connMap' \in [Handles -> 0..accepted] /\ uuidMap' \in [Uuids -> 0..accepted]
      /\ UNCHANGED <<accepted, uuidAlloctor, conn>>
    BY <1>1, CloseInv
<1>3. /\ UNCHANGED <<mainPc, curConn, pushTo, reqs, workVars, responses, out, exitVars>>
      /\ mainPc = "read" /\ pending' = <<>> /\ Head(pending) = "broken"
    BY DEF HandleBroken
<1>4. VarsTypeOK'
    BY <1>2, <1>3, EmptyList DEF ProxyIInv, VarsTypeOK, workVars, exitVars
<1>5. ReadInv'
    <2>1. Len(reqs) \in Nat /\ Len(reqs) <= MaxReqs /\ Len(pending') = 0
        BY <1>3, EmptyList, LenProperties DEF ProxyIInv, VarsTypeOK
    <2> QED BY <1>1, <1>2, <1>3, <2>1, ProxyConstants DEF ProxyIInv, ReadInv, exitVars
<1> QED BY <1>2, <1>3, <1>4, <1>5, TaskFrame DEF ProxyIInv

\* Steps of OnRead's loop that hand nothing to a worker.
LEMMA ReadStepIInv ==
    ASSUME ProxyIInv,
           \/ \E c \in Conns, b \in Batches : OnRead(c, b)
           \/ HandleIgnored
           \/ \E w \in Workers : AddTask(w)
    PROVE  ProxyIInv'
<1> USE ProxyConstants
<1>1. UNCHANGED <<connVars, reqs, workVars, responses, out, exitVars>>
    BY DEF OnRead, HandleIgnored, AddTask
<1>2. ConnInv' /\ UuidInv' /\ TaskInv' /\ NoTaskAsleep' /\ ReplyToAsker'
    BY <1>1, TaskFrame DEF ProxyIInv, ConnInv, UuidInv, connVars
<1>3. ASSUME NEW c \in Conns, NEW b \in Batches, OnRead(c, b) PROVE VarsTypeOK' /\ ReadInv'
    <2>1. c \in 1..accepted /\ connMap[conn[c].handle] = c /\ b \in Seq(Kinds)
        BY <1>3 DEF OnRead, IsOpen
    <2>2. pushTo = 0 \/ mainPc # "loop"
        BY DEF ProxyIInv, ReadInv
    <2>3. VarsTypeOK'
        BY <1>1, <1>3, <2>1 DEF OnRead, ProxyIInv, VarsTypeOK, MainPcs, connVars, workVars, exitVars
    <2> QED BY <1>1, <1>3, <2>1, <2>2, <2>3 DEF OnRead, ProxyIInv, ReadInv, connVars, exitVars
<1>4. CASE HandleIgnored
    <2>1. /\ Len(pending) \in Nat \ {0} /\ pending' \in Seq(Kinds)
          /\ Len(pending') = Len(pending) - 1 /\ Len(reqs) \in Nat
        BY <1>4, TailElements, LenProperties DEF HandleIgnored, ProxyIInv, VarsTypeOK
    <2>2. pushTo = 0
        BY <1>4 DEF HandleIgnored, ProxyIInv, ReadInv
    <2>3. VarsTypeOK'
        BY <1>1, <1>4, <2>1 DEF HandleIgnored, ProxyIInv, VarsTypeOK, connVars, workVars, exitVars
    <2>4. ReadInv'
        BY <1>1, <1>4, <2>1, <2>2 DEF HandleIgnored, ProxyIInv, ReadInv, connVars, exitVars
    <2> QED BY <2>3, <2>4, <1>2 DEF ProxyIInv
<1>5. ASSUME NEW w \in Workers, AddTask(w) PROVE VarsTypeOK' /\ ReadInv'
    <2>1. VarsTypeOK'
        BY <1>1, <1>5 DEF AddTask, ProxyIInv, VarsTypeOK, connVars, workVars, exitVars
    <2>2. ReadInv'
        BY <1>1, <1>5 DEF AddTask, ProxyIInv, ReadInv, connVars, exitVars
    <2> QED BY <2>1, <2>2
<1> QED BY <1>2, <1>3, <1>4, <1>5 DEF ProxyIInv

LEMMA PushTaskIInv ==
    ASSUME ProxyIInv, PushTask
    PROVE  ProxyIInv'
<1> USE ProxyConstants
<1> DEFINE w == pushTo
<1> DEFINE n == Len(reqs)
<1> DEFINE rec == [kind |-> Head(pending), conn |-> curConn, worker |-> pushTo]
<1> DEFINE q == taskList[w]
<1>1. /\ w \in Workers /\ ~HoldsMutex(w) /\ mainPc = "read" /\ w # 0
      /\ UNCHANGED <<connVars, mainPc, curConn, task, responses, out, exitVars>>
      /\ reqs' = Append(reqs, rec)
      /\ taskList' = [taskList EXCEPT ![w] = Append(q, NewTask)]
      /\ wpc' = NotifyWorker(w)
      /\ pending' = Tail(pending) /\ pushTo' = 0
    BY DEF PushTask, ProxyIInv, VarsTypeOK
<1>2. /\ pending # <<>> /\ Head(pending) \in Kinds /\ Len(pending) \in Nat \ {0}
      /\ pending' \in Seq(Kinds) /\ Len(pending') = Len(pending) - 1
    <2>1. pending # <<>> /\ pending \in Seq(Kinds)
        BY <1>1 DEF ProxyIInv, ReadInv, VarsTypeOK
    <2> QED BY <1>1, <2>1, TailElements, HeadTailProperties
<1>3. /\ curConn \in 1..accepted /\ accepted \in Nat /\ accepted <= MaxAccepts
      /\ conn[curConn].uuid \in Uuids /\ connMap[conn[curConn].handle] = curConn
    <2>1. curConn \in 1..accepted /\ connMap[conn[curConn].handle] = curConn
        BY <1>1, <1>2 DEF ProxyIInv, ReadInv
    <2>2. accepted \in Nat /\ accepted <= MaxAccepts
        BY DEF ProxyIInv, VarsTypeOK
    <2> QED BY <2>1, <2>2, ConnFields DEF ProxyIInv
<1>4. /\ n \in Nat /\ n + 1 <= MaxReqs
      /\ reqs' \in Seq([kind : Kinds, conn : Conns, worker : Workers])
      /\ Len(reqs') = n + 1
      /\ \A i \in 1..n : reqs'[i] = reqs[i]
      /\ reqs'[n + 1] = rec
    <2>1. reqs \in Seq([kind : Kinds, conn : Conns, worker : Workers]) /\ n \in Nat
        BY LenProperties DEF ProxyIInv, VarsTypeOK
    <2>2. rec \in [kind : Kinds, conn : Conns, worker : Workers]
        BY <1>1, <1>2, <1>3 DEF Conns
    <2>3. n + 1 <= MaxReqs
        BY <1>2, <2>1 DEF ProxyIInv, ReadInv
    <2> HIDE DEF rec
    <2> QED BY <1>1, <2>1, <2>2, <2>3, PushElements
<1>5. NewTask \in Tasks /\ NewTask.uuid = conn[curConn].uuid /\ NewTask.req = n + 1
    BY <1>3, <1>4 DEF NewTask, Tasks
<1>6. /\ q \in Seq(Tasks) /\ Len(q) \in Nat
      /\ taskList'[w] \in Seq(Tasks)
      /\ Len(taskList'[w]) = Len(q) + 1
      /\ \A i \in 1..Len(q) : taskList'[w][i] = q[i]
      /\ taskList'[w][Len(q) + 1] = NewTask
      /\ \A v \in Workers : v # w => taskList'[v] = taskList[v]
      /\ taskList' \in [Workers -> Seq(Tasks)]
    <2>1. taskList \in [Workers -> Seq(Tasks)] /\ q \in Seq(Tasks)
        BY <1>1 DEF ProxyIInv, VarsTypeOK
    <2>2. taskList'[w] = Append(q, NewTask)
        BY <1>1, <2>1
    <2>3. Append(q, NewTask) \in Seq(Tasks)
        BY <1>5, <2>1, PushElements
    <2> QED BY <1>1, <1>5, <2>1, <2>2, <2>3, PushElements, LenProperties
<1> HIDE DEF w, n, q
<1>7. /\ wpc' \in [Workers -> WorkerPcs] /\ wpc'[w] # "wait"
      /\ \A v \in Workers : v # w => wpc'[v] = wpc[v]
      /\ \A v \in Workers : HoldsMutex(v)' <=> HoldsMutex(v)
    BY <1>1 DEF NotifyWorker, HoldsMutex, ProxyIInv, VarsTypeOK, WorkerPcs
<1>8. VarsTypeOK'
    BY <1>1, <1>2, <1>4, <1>6, <1>7 DEF ProxyIInv, VarsTypeOK, connVars, exitVars
<1>9. ConnInv' /\ UuidInv'
    BY <1>1 DEF ProxyIInv, ConnInv, UuidInv, connVars
<1>10. ReadInv'
    BY <1>1, <1>2, <1>3, <1>4 DEF ProxyIInv, ReadInv, connVars, exitVars, n
<1>11. TaskInv'
    <2>1. \A t : OkTask(t) => OkTask(t)'
        BY <1>1, <1>4 DEF OkTask, connVars, n
    <2>2. ASSUME NEW t, t = NewTask PROVE OkTask(t)'
        BY <2>2, <1>1, <1>3, <1>4, <1>5 DEF OkTask, ProxyIInv, UuidInv, connVars
    <2>3. (\A v \in Workers : \A i \in 1..Len(taskList[v]) : OkTask(taskList[v][i]))'
        <3> SUFFICES ASSUME NEW v \in Workers, NEW i \in 1..Len(taskList'[v]), NEW t,
                            t = taskList'[v][i]
                     PROVE  OkTask(t)'
            BY DEF OkTask
        <3>1. CASE v # w
            BY <3>1, <1>6, <2>1 DEF ProxyIInv, TaskInv
        <3>2. CASE v = w /\ i \in 1..Len(q)
            BY <3>2, <1>1, <1>6, <2>1 DEF ProxyIInv, TaskInv, q
        <3>3. CASE v = w /\ i = Len(q) + 1
            BY <3>3, <1>6, <2>2
        <3> QED BY <3>1, <3>2, <3>3, <1>6
    <2>4. \A i \in 1..Len(reqs') : reqs'[i].conn \in 1..accepted'
        BY <1>1, <1>3, <1>4 DEF ProxyIInv, TaskInv, connVars, n
    <2>5. \A c \in Conns : \A i \in 1..Len(out'[c]) : out'[c][i] \in 1..Len(reqs')
        BY <1>1, <1>4 DEF ProxyIInv, TaskInv, n
    <2>6. (\A v \in Workers : HoldsMutex(v) => OkTask(task[v]))'
        <3> SUFFICES ASSUME NEW v \in Workers, HoldsMutex(v)', NEW t, t = task[v]
                     PROVE  OkTask(t)'
            BY <1>1 DEF OkTask
        <3> QED BY <1>7, <2>1 DEF ProxyIInv, TaskInv
    <2>7. (\A i \in 1..Len(responses) : OkTask(responses[i]))'
        <3> SUFFICES ASSUME NEW i \in 1..Len(responses), NEW t, t = responses[i]
                     PROVE  OkTask(t)'
            BY <1>1 DEF OkTask
        <3> QED BY <2>1 DEF ProxyIInv, TaskInv
    <2> QED BY <2>3, <2>4, <2>5, <2>6, <2>7 DEF TaskInv
<1>12. NoTaskAsleep'
    BY <1>6, <1>7 DEF ProxyIInv, NoTaskAsleep
<1>13. ReplyToAsker'
    <2> SUFFICES ASSUME accepted < UuidSpace, NEW c \in Conns, NEW i \in DOMAIN out[c]
                 PROVE  reqs'[out[c][i]].conn = c
        BY <1>1 DEF ReplyToAsker, connVars
    <2>1. i \in 1..Len(out[c])
        BY DEF ProxyIInv, VarsTypeOK
    <2>2. out[c][i] \in 1..n /\ reqs[out[c][i]].conn = c
        BY <2>1 DEF ProxyIInv, TaskInv, ReplyToAsker, n
    <2> QED BY <2>2, <1>4
<1> QED BY <1>8, <1>9, <1>10, <1>11, <1>12, <1>13 DEF ProxyIInv

\* The answer is popped and, when its uuid is known, written to the socket.
LEMMA SendResponseIInv ==
    ASSUME ProxyIInv, SendResponse
    PROVE  ProxyIInv'
<1> USE ProxyConstants
<1> DEFINE r == Head(responses)
<1> DEFINE c == Receiver(r.uuid)
<1>1. /\ responses # <<>>
      /\ responses' = Tail(responses)
      /\ out' = IF c = 0 THEN out ELSE [out EXCEPT ![c] = Append(@, r.req)]
      /\ UNCHANGED <<connVars, mainPc, readVars, reqs, workVars, exitVars>>
    BY DEF SendResponse
<1>2. /\ r = responses[1] /\ r \in Tasks /\ Len(responses) \in Nat \ {0}
      /\ responses' \in Seq(Tasks) /\ Len(responses') = Len(responses) - 1
      /\ \A i \in 1..(Len(responses) - 1) : responses'[i] = responses[i + 1]
    <2>1. responses \in Seq(Tasks)
        BY DEF ProxyIInv, VarsTypeOK
    <2> QED BY <1>1, <2>1, TailElements, HeadTailProperties
<1>3. OkTask(r)
    BY <1>2 DEF ProxyIInv, TaskInv
<1> HIDE DEF r
<1>4. c \in 0..accepted /\ accepted \in Nat /\ accepted <= MaxAccepts
    <2>1. r.uuid \in Uuids /\ accepted \in Nat /\ accepted <= MaxAccepts
        BY <1>2 DEF Tasks, ProxyIInv, VarsTypeOK
    <2>2. uuidMap[r.uuid] \in 0..accepted
        BY <2>1 DEF ProxyIInv, VarsTypeOK
    <2>3. CASE uuidMap[r.uuid] = 0
        BY <2>1, <2>3 DEF Receiver
    <2>4. CASE uuidMap[r.uuid] \in 1..accepted
        <3>1. conn[uuidMap[r.uuid]].handle \in Handles
            BY <2>4, ConnFields DEF ProxyIInv
        <3> QED BY <2>1, <2>4, <3>1 DEF Receiver, ProxyIInv, VarsTypeOK
    <2> QED BY <2>1, <2>2, <2>3, <2>4
<1>5. accepted < UuidSpace /\ c # 0 => reqs[r.req].conn = c
    <2> SUFFICES ASSUME accepted < UuidSpace, c # 0 PROVE reqs[r.req].conn = c
        OBVIOUS
    <2>1. r.uuid \in Uuids /\ r.uuid = reqs[r.req].conn
        BY <1>2, <1>3 DEF Tasks, OkTask
    <2>2. uuidMap[r.uuid] # 0
        BY DEF Receiver
    <2>3. uuidMap[r.uuid] = r.uuid /\ connMap[conn[r.uuid].handle] = r.uuid
        BY <2>1, <2>2 DEF ProxyIInv, UuidInv
    <2> QED BY <2>1, <2>2, <2>3 DEF Receiver
<1> HIDE DEF c
<1>6. r.req \in 1..Len(reqs) /\ Len(reqs) \in Nat /\ Len(reqs) <= MaxReqs /\ r.req \in 1..MaxReqs
    BY <1>3, LenProperties DEF OkTask, ProxyIInv, VarsTypeOK
<1>7. /\ out' \in [Conns -> Seq(1..MaxReqs)]
      /\ \A d \in Conns : \A i \in DOMAIN out'[d] :
             \/ i \in DOMAIN out[d] /\ out'[d][i] = out[d][i]
             \/ d = c /\ c # 0 /\ out'[d][i] = r.req
    <2>0. out \in [Conns -> Seq(1..MaxReqs)]
        BY DEF ProxyIInv, VarsTypeOK
    <2>1. CASE c = 0
        BY <1>1, <2>0, <2>1
    <2>2. CASE c # 0
        <3>1. c \in Conns
            BY <2>2, <1>4 DEF Conns
        <3>2. out[c] \in Seq(1..MaxReqs)
            BY <2>0, <3>1
        <3>3. out' = [out EXCEPT ![c] = Append(out[c], r.req)]
            BY <1>1, <2>2
        <3>4. /\ Append(out[c], r.req) \in Seq(1..MaxReqs)
              /\ DOMAIN Append(out[c], r.req) = 1..(Len(out[c]) + 1)
              /\ \A i \in 1..Len(out[c]) : Append(out[c], r.req)[i] = out[c][i]
              /\ Append(out[c], r.req)[Len(out[c]) + 1] = r.req
              /\ DOMAIN out[c] = 1..Len(out[c]) /\ Len(out[c]) \in Nat
            BY <3>2, <1>6, PushElements, LenProperties
        <3>5. out' \in [Conns -> Seq(1..MaxReqs)]
            BY <2>0, <3>3, <3>4
        <3>6. ASSUME NEW d \in Conns, NEW i \in DOMAIN out'[d]
              PROVE  \/ i \in DOMAIN out[d] /\ out'[d][i] = out[d][i]
                     \/ d = c /\ c # 0 /\ out'[d][i] = r.req
            <4>1. CASE d # c
                BY <4>1, <2>0, <3>3
            <4>2. CASE d = c
                <5>1. out'[d] = Append(out[c], r.req)
                    BY <4>2, <2>0, <3>1, <3>3
                <5>2. i \in 1..Len(out[c]) \/ i = Len(out[c]) + 1
                    BY <5>1, <3>4
                <5> QED BY <4>2, <5>1, <5>2, <3>4, <2>2
            <4> QED BY <4>1, <4>2
        <3> QED BY <3>5, <3>6
    <2> QED BY <2>1, <2>2
<1>8. VarsTypeOK'
    BY <1>1, <1>2, <1>7 DEF ProxyIInv, VarsTypeOK, connVars, readVars, workVars, exitVars
<1>9. ConnInv' /\ ReadInv' /\ UuidInv' /\ NoTaskAsleep'
    BY <1>1 DEF ProxyIInv, ConnInv, ReadInv, UuidInv, NoTaskAsleep, connVars, readVars,
                workVars, exitVars
<1>10. TaskInv'
    <2>1. \A t : OkTask(t)' <=> OkTask(t)
        BY <1>1 DEF OkTask, connVars
    <2>2. \A i \in 1..Len(responses') : OkTask(responses'[i])
        BY <1>2 DEF ProxyIInv, TaskInv
    <2>3. \A d \in Conns : \A i \in 1..Len(out'[d]) : out'[d][i] \in 1..Len(reqs)
        <3> SUFFICES ASSUME NEW d \in Conns, NEW i \in 1..Len(out'[d])
                     PROVE  out'[d][i] \in 1..Len(reqs)
            OBVIOUS
        <3>1. i \in DOMAIN out'[d] /\ DOMAIN out[d] = 1..Len(out[d])
            BY <1>7 DEF ProxyIInv, VarsTypeOK
        <3> QED BY <1>6, <1>7, <3>1 DEF ProxyIInv, TaskInv
    <2> QED BY <1>1, <2>1, <2>2, <2>3 DEF ProxyIInv, TaskInv, HoldsMutex, connVars, workVars
<1>11. ReplyToAsker'
    <2> SUFFICES ASSUME accepted < UuidSpace, NEW d \in Conns, NEW i \in DOMAIN out'[d]
                 PROVE  reqs[out'[d][i]].conn = d
        BY <1>1 DEF ReplyToAsker, connVars
    <2> QED BY <1>5, <1>7 DEF ProxyIInv, ReplyToAsker
<1> QED BY <1>8, <1>9, <1>10, <1>11 DEF ProxyIInv

LEMMA ProxyStepIInv == ProxyIInv /\ [ProxyNext]_proxyVars => ProxyIInv'
<1> SUFFICES ASSUME ProxyIInv, [ProxyNext]_proxyVars PROVE ProxyIInv'
    OBVIOUS
<1>1. ASSUME NEW h \in Handles, Accept(h) PROVE ProxyIInv'
    BY <1>1, AcceptIInv
<1>2. ASSUME NEW c \in Conns, CloseConn(c) PROVE ProxyIInv'
    BY <1>2, CloseConnIInv
<1>3. CASE \/ \E c \in Conns, b \in Batches : OnRead(c, b)
           \/ HandleIgnored
           \/ \E w \in Workers : AddTask(w)
    BY <1>3, ReadStepIInv
<1>4. CASE HandleBroken
    BY <1>4, HandleBrokenIInv
<1>5. CASE PushTask
    BY <1>5, PushTaskIInv
<1>6. CASE SendResponse
    BY <1>6, SendResponseIInv
<1>7. CASE \/ OnReadReturns \/ StartDrain \/ EndDrain \/ SigTerm \/ ExitCallback
           \/ StopWorker \/ JoinWorker
    <2>0. /\ VarsTypeOK /\ ReadInv /\ NumThreads \in Nat \ {0}
          /\ 0 \in 0..accepted /\ accepted \in Nat
        BY ProxyAssumption DEF ProxyIInv, VarsTypeOK
    <2>1. CASE OnReadReturns
        BY <2>0, <2>1, MainOnlyStep DEF OnReadReturns, VarsTypeOK, MainPcs, exitVars
    <2>2. CASE StartDrain \/ EndDrain
        BY <2>0, <2>2, MainOnlyStep DEF StartDrain, EndDrain, VarsTypeOK, MainPcs, readVars, exitVars
    <2>3. CASE SigTerm
        BY <2>0, <2>3, MainOnlyStep DEF SigTerm, VarsTypeOK, ReadInv, readVars
    <2>4. CASE ExitCallback
        BY <2>0, <2>4, MainOnlyStep DEF ExitCallback, VarsTypeOK, MainPcs, readVars
    <2>5. CASE StopWorker
        BY <2>0, <2>5, MainOnlyStep DEF StopWorker, VarsTypeOK, ReadInv, MainPcs, readVars
    <2>6. CASE JoinWorker
        BY <2>0, <2>6, MainOnlyStep DEF JoinWorker, VarsTypeOK, ReadInv, MainPcs, readVars
    <2> QED BY <1>7, <2>1, <2>2, <2>3, <2>4, <2>5, <2>6
<1>8. ASSUME NEW w \in Workers,
             WorkerStep(w) \/ SpuriousTaskWakeup(w) \/ SpuriousDbWakeup(w)
      PROVE  ProxyIInv'
    BY <1>8, WorkerStepIInv
<1>9. CASE UNCHANGED proxyVars
    BY <1>9 DEF proxyVars, connVars, readVars, workVars, exitVars, ProxyIInv, VarsTypeOK, ConnInv,
                ReadInv, UuidInv, TaskInv, OkTask, HoldsMutex, NoTaskAsleep, ReplyToAsker
<1> QED BY <1>1, <1>2, <1>3, <1>4, <1>5, <1>6, <1>7, <1>8, <1>9 DEF ProxyNext, MainStep

-----------------------------------------------------------------------------
\* Every variable of ProxyConn, the thread pool and the DBConn pool keeps its
\* type, whatever the sockets, the workers and SIGTERM do.
THEOREM ProxyTypeCorrect == ProxySpec => []ProxyTypeOK
<1>1. ProxyIInv => VarsTypeOK
    BY DEF ProxyIInv
<1>2. ProxySpec => []VarsTypeOK
    BY <1>1, ProxyInitIInv, ProxyStepIInv, PTL DEF ProxySpec
<1>3. ProxySpec => []PoolTypeOK
    BY ProxyUsesPool, PoolTypeCorrect, PTL
<1>4. PoolTypeOK /\ VarsTypeOK => ProxyTypeOK
    BY DEF ProxyTypeOK
<1> QED BY <1>2, <1>3, <1>4, PTL

\* SendResponsePduList writes an answer only to the connection whose request
\* it answers, however handles are reused, until the uuids wrap.
THEOREM ProxyRepliesToAsker == ProxySpec => []ReplyToAsker
<1>1. ProxyIInv => ReplyToAsker
    BY DEF ProxyIInv
<1> QED BY <1>1, ProxyInitIInv, ProxyStepIInv, PTL DEF ProxySpec

\* PushTask's notify_one is never lost: no worker sleeps over a queued task.
THEOREM ProxyNoTaskAsleep == ProxySpec => []NoTaskAsleep
<1>1. ProxyIInv => NoTaskAsleep
    BY DEF ProxyIInv
<1> QED BY <1>1, ProxyInitIInv, ProxyStepIInv, PTL DEF ProxySpec

-----------------------------------------------------------------------------
\* The order of requests.  A request goes from the queue of its worker to the
\* worker, to response_pdu_list_ and to a socket; the requests of one worker
\* never overtake each other on that way.

WorkerOf(r) == reqs[r].worker

\* The queue of a worker holds requests drawn for it, the oldest first, and the
\* one it runs is older than those.
QueueOrder ==
    \A w \in Workers : \A i \in 1..Len(taskList[w]) :
        /\ WorkerOf(taskList[w][i].req) = w
        /\ \A j \in 1..Len(taskList[w]) : i < j => taskList[w][i].req < taskList[w][j].req

RunOrder ==
    \A w \in Workers :
        /\ ~HoldsMutex(w) => task[w].req = 0
        /\ HoldsMutex(w) => /\ WorkerOf(task[w].req) = w
                            /\ \A i \in 1..Len(taskList[w]) : task[w].req < taskList[w][i].req

\* Its worker has nothing as old as r any more.
Done(r) ==
    \A w \in Workers : WorkerOf(r) = w =>
        /\ HoldsMutex(w) => r < task[w].req
        /\ \A i \in 1..Len(taskList[w]) : r < taskList[w][i].req

\* Answers that wait and answers that were sent are done, and in order: among
\* those of one worker the older is in front.
AnsweredDone == \A k \in 1..Len(responses) : Done(responses[k].req)

AnswerOrder ==
    \A k, l \in 1..Len(responses) :
        k < l /\ WorkerOf(responses[k].req) = WorkerOf(responses[l].req)
        => responses[k].req < responses[l].req

SentDone == \A c \in Conns : \A k \in 1..Len(out[c]) : Done(out[c][k])

SentBefore ==
    \A c \in Conns : \A k \in 1..Len(out[c]) : \A l \in 1..Len(responses) :
        WorkerOf(out[c][k]) = WorkerOf(responses[l].req) => out[c][k] < responses[l].req

SentOrder ==
    \A c \in Conns : \A k, l \in 1..Len(out[c]) :
        k < l /\ WorkerOf(out[c][k]) = WorkerOf(out[c][l]) => out[c][k] < out[c][l]

\* Nothing was sent twice.
SentOnce ==
    \A c, d \in Conns : \A k \in 1..Len(out[c]) : \A l \in 1..Len(out[d]) :
        out[c][k] = out[d][l] => c = d /\ k = l

OrderInv ==
    /\ QueueOrder /\ RunOrder
    /\ AnsweredDone /\ AnswerOrder
    /\ SentDone /\ SentBefore /\ SentOrder /\ SentOnce

\* Every place holds numbers of requests that were handed out.
LEMMA OrderTypes ==
    ASSUME ProxyIInv
    PROVE  /\ Len(reqs) \in Nat /\ \A r \in 1..Len(reqs) : WorkerOf(r) \in Workers
           /\ \A w \in Workers : /\ taskList[w] \in Seq(Tasks) /\ Len(taskList[w]) \in Nat
                                 /\ \A i \in 1..Len(taskList[w]) : taskList[w][i].req \in 1..Len(reqs)
           /\ \A w \in Workers : HoldsMutex(w) => task[w].req \in 1..Len(reqs)
           /\ responses \in Seq(Tasks) /\ Len(responses) \in Nat
           /\ \A k \in 1..Len(responses) : responses[k].req \in 1..Len(reqs)
           /\ \A c \in Conns : out[c] \in Seq(1..MaxReqs) /\ Len(out[c]) \in Nat
           /\ \A c \in Conns : \A k \in 1..Len(out[c]) : out[c][k] \in 1..Len(reqs)
<1>1. Len(reqs) \in Nat /\ \A r \in 1..Len(reqs) : WorkerOf(r) \in Workers
    <2>1. reqs \in Seq([kind : Kinds, conn : Conns, worker : Workers])
        BY DEF ProxyIInv, VarsTypeOK
    <2>2. \A r \in 1..Len(reqs) : reqs[r] \in [kind : Kinds, conn : Conns, worker : Workers]
        BY <2>1, ElementOfSeq
    <2> QED BY <2>1, <2>2, LenProperties DEF WorkerOf
<1>2. /\ \A w \in Workers : taskList[w] \in Seq(Tasks) /\ Len(taskList[w]) \in Nat
      /\ responses \in Seq(Tasks) /\ Len(responses) \in Nat
      /\ \A c \in Conns : out[c] \in Seq(1..MaxReqs) /\ Len(out[c]) \in Nat
    BY LenProperties DEF ProxyIInv, VarsTypeOK
<1>3. /\ \A w \in Workers : \A i \in 1..Len(taskList[w]) : taskList[w][i].req \in 1..Len(reqs)
      /\ \A w \in Workers : HoldsMutex(w) => task[w].req \in 1..Len(reqs)
      /\ \A k \in 1..Len(responses) : responses[k].req \in 1..Len(reqs)
      /\ \A c \in Conns : \A k \in 1..Len(out[c]) : out[c][k] \in 1..Len(reqs)
    BY DEF ProxyIInv, TaskInv, OkTask
<1> QED BY <1>1, <1>2, <1>3

\* A step that moves no request.
LEMMA OrderFrame ==
    ASSUME OrderInv, UNCHANGED <<reqs, taskList, task, out>>,
           responses' = responses \/ responses' = <<>>,
           \A w \in Workers : HoldsMutex(w)' <=> HoldsMutex(w)
    PROVE  OrderInv'
<1> USE DEF OrderInv, WorkerOf
<1>1. QueueOrder' /\ RunOrder'
    BY DEF QueueOrder, RunOrder
<1>2. SentOrder' /\ SentOnce'
    BY DEF SentOrder, SentOnce
<1>3. SentDone'
    BY DEF SentDone, Done
<1>4. CASE responses' = responses
    BY <1>1, <1>2, <1>3, <1>4 DEF AnsweredDone, Done, AnswerOrder, SentBefore
<1>5. CASE responses' = <<>>
    <2>1. 1..Len(responses') = {}
        BY <1>5, EmptyList
    <2>2. AnsweredDone' /\ AnswerOrder' /\ SentBefore'
        BY <2>1 DEF AnsweredDone, AnswerOrder, SentBefore
    <2> QED BY <1>1, <1>2, <1>3, <2>2
<1> QED BY <1>4, <1>5

\* Draw, push: the new request is the youngest.
LEMMA PushTaskOrder ==
    ASSUME ProxyIInv, OrderInv, PushTask
    PROVE  OrderInv'
<1> USE ProxyConstants
<1> DEFINE w == pushTo
<1> DEFINE n == Len(reqs)
<1> DEFINE q == taskList[w]
<1>1. /\ w \in Workers /\ UNCHANGED <<task, responses, out>>
      /\ reqs' = Append(reqs, [kind |-> Head(pending), conn |-> curConn, worker |-> w])
      /\ taskList' = [taskList EXCEPT ![w] = Append(q, NewTask)]
    BY DEF PushTask, ProxyIInv, VarsTypeOK
<1>2. n \in Nat /\ (\A r \in 1..n : reqs'[r].worker = WorkerOf(r)) /\ reqs'[n + 1].worker = w
    <2>1. reqs \in Seq([kind : Kinds, conn : Conns, worker : Workers]) /\ n \in Nat
        BY LenProperties DEF ProxyIInv, VarsTypeOK
    <2>2. (\A r \in 1..n : reqs'[r] = reqs[r]) /\ reqs'[n + 1].worker = w
        BY <1>1, <2>1
    <2> QED BY <2>1, <2>2 DEF WorkerOf
<1>3. NewTask.req = n + 1
    BY DEF NewTask
<1>4. /\ Len(q) \in Nat /\ Len(taskList'[w]) = Len(q) + 1
      /\ \A i \in 1..Len(q) : taskList'[w][i] = q[i]
      /\ taskList'[w][Len(q) + 1] = NewTask
      /\ \A v \in Workers : v # w => taskList'[v] = taskList[v]
    <2>1. taskList \in [Workers -> Seq(Tasks)] /\ q \in Seq(Tasks)
        BY <1>1 DEF ProxyIInv, VarsTypeOK
    <2>2. taskList'[w] = Append(q, NewTask)
        BY <1>1, <2>1
    <2> QED BY <1>1, <2>1, <2>2
<1>5. \A v \in Workers : HoldsMutex(v)' <=> HoldsMutex(v)
    BY DEF PushTask, NotifyWorker, HoldsMutex, ProxyIInv, VarsTypeOK
<1> HIDE DEF n, q, w
<1>0. UNCHANGED <<task, responses, out>>
    BY <1>1
<1>6. \A r \in 1..n : Done(r) => \A v \in Workers : reqs'[r].worker = v =>
          /\ HoldsMutex(v)' => r < task'[v].req
          /\ \A i \in 1..Len(taskList'[v]) : r < taskList'[v][i].req
    <2> SUFFICES ASSUME NEW r \in 1..n, Done(r), NEW v \in Workers, reqs'[r].worker = v
                 PROVE  /\ HoldsMutex(v)' => r < task'[v].req
                        /\ \A i \in 1..Len(taskList'[v]) : r < taskList'[v][i].req
        OBVIOUS
    <2>1. WorkerOf(r) = v
        BY <1>2
    <2>2. HoldsMutex(v)' => r < task'[v].req
        BY <1>1, <1>5, <2>1 DEF Done
    <2>3. ASSUME NEW i \in 1..Len(taskList'[v]) PROVE r < taskList'[v][i].req
        <3>1. CASE v # w
            BY <1>4, <2>1, <3>1 DEF Done
        <3>2. CASE v = w /\ i \in 1..Len(q)
            BY <1>4, <2>1, <3>2 DEF Done, q
        <3>3. CASE v = w /\ i = Len(q) + 1
            BY <1>2, <1>3, <1>4, <3>3
        <3> QED BY <1>4, <2>3, <3>1, <3>2, <3>3
    <2> QED BY <2>2, <2>3
<1>7. QueueOrder'
    <2>1. \A v \in Workers : \A i \in 1..Len(taskList[v]) : taskList[v][i].req \in 1..n
        BY OrderTypes DEF n
    <2>2. ASSUME NEW v \in Workers, NEW i \in 1..Len(taskList'[v])
          PROVE  reqs'[taskList'[v][i].req].worker = v
        <3>1. CASE v # w
            <4>1. taskList'[v] = taskList[v]
                BY <1>4, <3>1
            <4>2. taskList[v][i].req \in 1..n /\ WorkerOf(taskList[v][i].req) = v
                BY <2>1, <4>1 DEF OrderInv, QueueOrder
            <4> QED BY <1>2, <4>1, <4>2
        <3>2. CASE v = w /\ i \in 1..Len(q)
            <4>1. taskList'[v][i] = taskList[v][i] /\ i \in 1..Len(taskList[v])
                BY <1>4, <3>2 DEF q
            <4>2. taskList[v][i].req \in 1..n /\ WorkerOf(taskList[v][i].req) = v
                BY <2>1, <4>1 DEF OrderInv, QueueOrder
            <4> QED BY <1>2, <4>1, <4>2
        <3>3. CASE v = w /\ i = Len(q) + 1
            BY <1>2, <1>3, <1>4, <3>3
        <3> QED BY <1>4, <2>2, <3>1, <3>2, <3>3
    <2>3. ASSUME NEW v \in Workers, NEW i \in 1..Len(taskList'[v]), NEW j \in 1..Len(taskList'[v]), i < j
          PROVE  taskList'[v][i].req < taskList'[v][j].req
        <3>1. CASE v # w
            BY <1>4, <2>3, <3>1 DEF OrderInv, QueueOrder
        <3>2. CASE v = w /\ j \in 1..Len(q)
            <4>1. i \in 1..Len(q)
                BY <1>4, <2>3, <3>2
            <4> QED BY <1>4, <2>3, <3>2, <4>1 DEF OrderInv, QueueOrder, q
        <3>3. CASE v = w /\ j = Len(q) + 1
            <4>1. i \in 1..Len(q)
                BY <1>4, <2>3, <3>3
            <4>2. q[i].req \in 1..n
                BY <2>1, <4>1, <3>3 DEF q
            <4> QED BY <1>2, <1>3, <1>4, <3>3, <4>1, <4>2
        <3> QED BY <1>4, <2>3, <3>1, <3>2, <3>3
    <2> QED BY <2>2, <2>3 DEF QueueOrder, WorkerOf
<1>8. RunOrder'
    <2> SUFFICES ASSUME NEW v \in Workers
                 PROVE  /\ ~HoldsMutex(v)' => task[v].req = 0
                        /\ HoldsMutex(v)' =>
                             /\ reqs'[task[v].req].worker = v
                             /\ \A i \in 1..Len(taskList'[v]) : task[v].req < taskList'[v][i].req
        BY <1>1 DEF RunOrder, WorkerOf
    <2>1. CASE ~HoldsMutex(v)
        BY <1>5, <2>1 DEF OrderInv, RunOrder
    <2>2. CASE HoldsMutex(v)
        <3>1. task[v].req \in 1..n
            BY <2>2, OrderTypes DEF n
        <3>2. WorkerOf(task[v].req) = v /\ v # w
            BY <2>2 DEF OrderInv, RunOrder, PushTask, w
        <3> QED BY <1>2, <1>4, <1>5, <2>2, <3>1, <3>2 DEF OrderInv, RunOrder
    <2> QED BY <2>1, <2>2
<1>9. \A k \in 1..Len(responses) : responses[k].req \in 1..n
    BY OrderTypes DEF n
<1>10. \A c \in Conns : \A k \in 1..Len(out[c]) : out[c][k] \in 1..n
    BY OrderTypes DEF n
<1>11. \A k \in 1..Len(responses) : reqs'[responses[k].req].worker = WorkerOf(responses[k].req)
    BY <1>2, <1>9
<1>12. \A c \in Conns : \A k \in 1..Len(out[c]) : reqs'[out[c][k]].worker = WorkerOf(out[c][k])
    BY <1>2, <1>10
<1>13. AnsweredDone'
    <2> SUFFICES ASSUME NEW k \in 1..Len(responses), NEW v \in Workers,
                        reqs'[responses[k].req].worker = v
                 PROVE  /\ HoldsMutex(v)' => responses[k].req < task'[v].req
                        /\ \A i \in 1..Len(taskList'[v]) : responses[k].req < taskList'[v][i].req
        BY <1>0 DEF AnsweredDone, Done, WorkerOf
    <2> QED BY <1>6, <1>9 DEF OrderInv, AnsweredDone
<1>14. SentDone'
    <2> SUFFICES ASSUME NEW c \in Conns, NEW k \in 1..Len(out[c]), NEW v \in Workers,
                        reqs'[out[c][k]].worker = v
                 PROVE  /\ HoldsMutex(v)' => out[c][k] < task'[v].req
                        /\ \A i \in 1..Len(taskList'[v]) : out[c][k] < taskList'[v][i].req
        BY <1>0 DEF SentDone, Done, WorkerOf
    <2> QED BY <1>6, <1>10 DEF OrderInv, SentDone
<1>15. AnswerOrder'
    <2> SUFFICES ASSUME NEW k \in 1..Len(responses), NEW l \in 1..Len(responses), k < l,
                        reqs'[responses[k].req].worker = reqs'[responses[l].req].worker
                 PROVE  responses[k].req < responses[l].req
        BY <1>0 DEF AnswerOrder, WorkerOf
    <2> QED BY <1>11 DEF OrderInv, AnswerOrder
<1>16. SentBefore'
    <2> SUFFICES ASSUME NEW c \in Conns, NEW k \in 1..Len(out[c]), NEW l \in 1..Len(responses),
                        reqs'[out[c][k]].worker = reqs'[responses[l].req].worker
                 PROVE  out[c][k] < responses[l].req
        BY <1>0 DEF SentBefore, WorkerOf
    <2> QED BY <1>11, <1>12 DEF OrderInv, SentBefore
<1>17. SentOrder'
    <2> SUFFICES ASSUME NEW c \in Conns, NEW k \in 1..Len(out[c]), NEW l \in 1..Len(out[c]), k < l,
                        reqs'[out[c][k]].worker = reqs'[out[c][l]].worker
                 PROVE  out[c][k] < out[c][l]
        BY <1>0 DEF SentOrder, WorkerOf
    <2> QED BY <1>12 DEF OrderInv, SentOrder
<1>18. SentOnce'
    BY <1>0 DEF OrderInv, SentOnce
<1> QED BY <1>7, <1>8, <1>13, <1>14, <1>15, <1>16, <1>17, <1>18 DEF OrderInv

\* A step of one worker that answers nothing keeps the rest.
LEMMA WorkerOrder ==
    ASSUME ProxyIInv, OrderInv, UNCHANGED <<reqs, responses, out>>, QueueOrder', RunOrder',
           \A r \in 1..Len(reqs) : Done(r) => Done(r)'
    PROVE  OrderInv'
<1>1. \A k \in 1..Len(responses) : responses[k].req \in 1..Len(reqs)
    BY OrderTypes
<1>2. \A c \in Conns : \A k \in 1..Len(out[c]) : out[c][k] \in 1..Len(reqs)
    BY OrderTypes
<1>3. AnsweredDone'
    <2> SUFFICES ASSUME NEW k \in 1..Len(responses), NEW v \in Workers,
                        reqs[responses[k].req].worker = v
                 PROVE  /\ HoldsMutex(v)' => responses[k].req < task'[v].req
                        /\ \A i \in 1..Len(taskList'[v]) : responses[k].req < taskList'[v][i].req
        BY DEF AnsweredDone, Done, WorkerOf
    <2>1. responses[k].req \in 1..Len(reqs) /\ Done(responses[k].req)
        BY <1>1 DEF OrderInv, AnsweredDone
    <2> DEFINE r == responses[k].req
    <2>2. r \in 1..Len(reqs) /\ Done(r) /\ reqs[r].worker = v
        BY <2>1
    <2> HIDE DEF r
    <2>3. /\ HoldsMutex(v)' => r < task'[v].req
          /\ \A i \in 1..Len(taskList'[v]) : r < taskList'[v][i].req
        BY <2>2 DEF Done, WorkerOf
    <2> QED BY <2>3 DEF r
<1>4. SentDone'
    <2> SUFFICES ASSUME NEW c \in Conns, NEW k \in 1..Len(out[c]), NEW v \in Workers,
                        reqs[out[c][k]].worker = v
                 PROVE  /\ HoldsMutex(v)' => out[c][k] < task'[v].req
                        /\ \A i \in 1..Len(taskList'[v]) : out[c][k] < taskList'[v][i].req
        BY DEF SentDone, Done, WorkerOf
    <2>1. out[c][k] \in 1..Len(reqs) /\ Done(out[c][k])
        BY <1>2 DEF OrderInv, SentDone
    <2> DEFINE r == out[c][k]
    <2>2. r \in 1..Len(reqs) /\ Done(r) /\ reqs[r].worker = v
        BY <2>1
    <2> HIDE DEF r
    <2>3. /\ HoldsMutex(v)' => r < task'[v].req
          /\ \A i \in 1..Len(taskList'[v]) : r < taskList'[v][i].req
        BY <2>2 DEF Done, WorkerOf
    <2> QED BY <2>3 DEF r
<1>5. AnswerOrder' /\ SentBefore'
    BY DEF OrderInv, AnswerOrder, SentBefore, WorkerOf
<1>6. SentOrder' /\ SentOnce'
    BY DEF OrderInv, SentOrder, SentOnce, WorkerOf
<1> QED BY <1>3, <1>4, <1>5, <1>6 DEF OrderInv

\* pop_front: the worker runs the oldest request of its queue.
LEMMA TakeTaskOrder ==
    ASSUME ProxyIInv, OrderInv, NEW w \in Workers, TakeTask(w)
    PROVE  OrderInv'
<1> USE ProxyConstants
<1> DEFINE q == taskList[w]
<1>1. /\ UNCHANGED <<reqs, responses, out>>
      /\ q # <<>>
      /\ task' = [task EXCEPT ![w] = Head(q)]
      /\ taskList' = [taskList EXCEPT ![w] = Tail(q)]
      /\ wpc' = [wpc EXCEPT ![w] = "run"]
      /\ ~HoldsMutex(w)
    BY DEF TakeTask, PopTask, HoldsMutex
<1>2. /\ taskList'[w] = Tail(q) /\ task'[w] = Head(q) /\ HoldsMutex(w)'
      /\ \A v \in Workers : v # w => /\ taskList'[v] = taskList[v] /\ task'[v] = task[v]
                                     /\ HoldsMutex(v)' <=> HoldsMutex(v)
    BY <1>1 DEF ProxyIInv, VarsTypeOK, HoldsMutex
<1>3. /\ Len(q) \in Nat \ {0} /\ task'[w] = q[1]
      /\ Len(taskList'[w]) = Len(q) - 1
      /\ \A i \in 1..(Len(q) - 1) : taskList'[w][i] = q[i + 1]
    <2>1. q \in Seq(Tasks) /\ q # <<>>
        BY <1>1 DEF ProxyIInv, VarsTypeOK
    <2> HIDE DEF q
    <2>2. /\ Len(q) \in Nat \ {0} /\ Head(q) = q[1] /\ Len(Tail(q)) = Len(q) - 1
          /\ \A i \in 1..(Len(q) - 1) : Tail(q)[i] = q[i + 1]
        BY <2>1, TailElements, HeadTailProperties
    <2> QED BY <1>2, <2>2
<1>4. /\ \A i \in 1..Len(q) : WorkerOf(q[i].req) = w
      /\ \A i, j \in 1..Len(q) : i < j => q[i].req < q[j].req
    BY DEF OrderInv, QueueOrder
<1> HIDE DEF q
<1>0. \A i \in 1..Len(taskList'[w]) : i + 1 \in 1..Len(q) /\ taskList'[w][i] = q[i + 1]
    BY <1>3
<1>5. QueueOrder'
    <2> SUFFICES ASSUME NEW v \in Workers, NEW i \in 1..Len(taskList'[v])
                 PROVE  /\ WorkerOf(taskList'[v][i].req) = v
                        /\ \A j \in 1..Len(taskList'[v]) :
                               i < j => taskList'[v][i].req < taskList'[v][j].req
        BY <1>1 DEF QueueOrder, WorkerOf
    <2>1. CASE v = w
        <3>1. WorkerOf(taskList'[w][i].req) = w
            BY <1>0, <1>4, <2>1
        <3>2. ASSUME NEW j \in 1..Len(taskList'[w]), i < j
              PROVE  taskList'[w][i].req < taskList'[w][j].req
            <4>1. /\ i + 1 \in 1..Len(q) /\ taskList'[w][i] = q[i + 1]
                  /\ j + 1 \in 1..Len(q) /\ taskList'[w][j] = q[j + 1]
                BY <1>0, <2>1
            <4>2. i + 1 < j + 1
                BY <1>3, <2>1, <3>2
            <4> QED BY <1>4, <4>1, <4>2
        <3> QED BY <2>1, <3>1, <3>2
    <2>2. CASE v # w
        BY <1>2, <2>2 DEF OrderInv, QueueOrder
    <2> QED BY <2>1, <2>2
<1>6. RunOrder'
    <2> SUFFICES ASSUME NEW v \in Workers
                 PROVE  /\ ~HoldsMutex(v)' => task'[v].req = 0
                        /\ HoldsMutex(v)' =>
                             /\ WorkerOf(task'[v].req) = v
                             /\ \A i \in 1..Len(taskList'[v]) : task'[v].req < taskList'[v][i].req
        BY <1>1 DEF RunOrder, WorkerOf
    <2>1. CASE v = w
        <3>1. \A i \in 1..Len(taskList'[w]) : task'[w].req < taskList'[w][i].req
            <4> SUFFICES ASSUME NEW i \in 1..Len(taskList'[w])
                         PROVE  q[1].req < q[i + 1].req
                BY <1>0, <1>3
            <4>1. 1 \in 1..Len(q) /\ i + 1 \in 1..Len(q) /\ 1 < i + 1
                BY <1>0, <1>3
            <4> QED BY <1>4, <4>1
        <3>2. WorkerOf(task'[w].req) = w
            BY <1>3, <1>4
        <3> QED BY <1>2, <2>1, <3>1, <3>2
    <2>2. CASE v # w
        BY <1>2, <2>2 DEF OrderInv, RunOrder
    <2> QED BY <2>1, <2>2
<1>7. \A r \in 1..Len(reqs) : Done(r) => Done(r)'
    <2> SUFFICES ASSUME NEW r \in 1..Len(reqs), Done(r), NEW v \in Workers, WorkerOf(r) = v
                 PROVE  /\ HoldsMutex(v)' => r < task'[v].req
                        /\ \A i \in 1..Len(taskList'[v]) : r < taskList'[v][i].req
        BY <1>1 DEF Done, WorkerOf
    <2>1. CASE v = w
        <3>1. \A i \in 1..Len(q) : r < q[i].req
            BY <2>1 DEF Done, q
        <3>2. r < task'[w].req
            BY <1>3, <3>1
        <3>3. \A i \in 1..Len(taskList'[w]) : r < taskList'[w][i].req
            BY <1>0, <3>1
        <3> QED BY <2>1, <3>2, <3>3
    <2>2. CASE v # w
        BY <1>2, <2>2 DEF Done
    <2> QED BY <2>1, <2>2
<1> QED BY <1>1, <1>5, <1>6, <1>7, WorkerOrder

\* The handler returned without queuing an answer that can still be sent.
LEMMA LetGoOrder ==
    ASSUME ProxyIInv, OrderInv, NEW w \in Workers,
           UNCHANGED <<reqs, taskList, responses, out>>,
           task' = [task EXCEPT ![w] = NoTask], wpc' = [wpc EXCEPT ![w] = "check"]
    PROVE  OrderInv'
<1>1. /\ task'[w].req = 0 /\ ~HoldsMutex(w)'
      /\ \A v \in Workers : v # w => task'[v] = task[v] /\ (HoldsMutex(v)' <=> HoldsMutex(v))
    BY DEF ProxyIInv, VarsTypeOK, HoldsMutex, NoTask
<1>2. QueueOrder'
    BY DEF OrderInv, QueueOrder, WorkerOf
<1>3. RunOrder'
    <2> SUFFICES ASSUME NEW v \in Workers
                 PROVE  /\ ~HoldsMutex(v)' => task'[v].req = 0
                        /\ HoldsMutex(v)' =>
                             /\ WorkerOf(task'[v].req) = v
                             /\ \A i \in 1..Len(taskList[v]) : task'[v].req < taskList[v][i].req
        BY DEF RunOrder, WorkerOf
    <2> QED BY <1>1 DEF OrderInv, RunOrder
<1>4. \A r \in 1..Len(reqs) : Done(r) => Done(r)'
    <2> SUFFICES ASSUME NEW r \in 1..Len(reqs), Done(r), NEW v \in Workers, WorkerOf(r) = v
                 PROVE  /\ HoldsMutex(v)' => r < task'[v].req
                        /\ \A i \in 1..Len(taskList[v]) : r < taskList[v][i].req
        BY DEF Done, WorkerOf
    <2> QED BY <1>1 DEF Done
<1> QED BY <1>2, <1>3, <1>4, WorkerOrder

\* push_back on response_pdu_list_: every earlier answer of this worker, sent
\* or waiting, is of an older request.
LEMMA AddResponseOrder ==
    ASSUME ProxyIInv, OrderInv, NEW w \in Workers, AddResponsePdu(w)
    PROVE  OrderInv'
<1> DEFINE n == Len(responses)
<1> DEFINE t == task[w].req
<1>1. /\ UNCHANGED <<reqs, taskList, out>>
      /\ responses' = Append(responses, task[w])
      /\ task' = [task EXCEPT ![w] = NoTask]
      /\ wpc' = [wpc EXCEPT ![w] = "check"]
      /\ HoldsMutex(w)
    BY DEF AddResponsePdu, QueueResponse, HoldsMutex
<1>2. /\ task'[w].req = 0 /\ ~HoldsMutex(w)'
      /\ \A v \in Workers : v # w => task'[v] = task[v] /\ (HoldsMutex(v)' <=> HoldsMutex(v))
    BY <1>1 DEF ProxyIInv, VarsTypeOK, HoldsMutex, NoTask
<1>3. /\ n \in Nat /\ Len(responses') = n + 1
      /\ \A k \in 1..n : responses'[k].req = responses[k].req
      /\ responses'[n + 1].req = t
    <2>1. responses \in Seq(Tasks) /\ n \in Nat
        BY OrderTypes
    <2>2. Len(responses') = n + 1 /\ (\A k \in 1..n : responses'[k] = responses[k])
          /\ responses'[n + 1] = task[w]
        BY <1>1, <2>1
    <2> QED BY <2>1, <2>2
<1>4. /\ WorkerOf(t) = w /\ t \in 1..Len(reqs) /\ Len(reqs) \in Nat
      /\ \A i \in 1..Len(taskList[w]) : t < taskList[w][i].req
    BY <1>1, OrderTypes DEF OrderInv, RunOrder
<1> HIDE DEF n, t
<1>5. QueueOrder'
    BY <1>1 DEF OrderInv, QueueOrder, WorkerOf
<1>6. RunOrder'
    <2> SUFFICES ASSUME NEW v \in Workers
                 PROVE  /\ ~HoldsMutex(v)' => task'[v].req = 0
                        /\ HoldsMutex(v)' =>
                             /\ WorkerOf(task'[v].req) = v
                             /\ \A i \in 1..Len(taskList[v]) : task'[v].req < taskList[v][i].req
        BY <1>1 DEF RunOrder, WorkerOf
    <2> QED BY <1>2 DEF OrderInv, RunOrder
<1>7. \A r \in 1..Len(reqs) : Done(r) \/ r = t => \A v \in Workers : WorkerOf(r) = v =>
          /\ HoldsMutex(v)' => r < task'[v].req
          /\ \A i \in 1..Len(taskList[v]) : r < taskList[v][i].req
    BY <1>2, <1>4 DEF Done
<1>8. AnsweredDone'
    <2> SUFFICES ASSUME NEW k \in 1..(n + 1), NEW v \in Workers, WorkerOf(responses'[k].req) = v
                 PROVE  /\ HoldsMutex(v)' => responses'[k].req < task'[v].req
                        /\ \A i \in 1..Len(taskList[v]) : responses'[k].req < taskList[v][i].req
        BY <1>1, <1>3 DEF AnsweredDone, Done, WorkerOf
    <2>1. CASE k \in 1..n
        <3>1. Done(responses[k].req) /\ responses[k].req \in 1..Len(reqs)
            BY <2>1, OrderTypes DEF OrderInv, AnsweredDone, n
        <3> QED BY <1>3, <1>7, <2>1, <3>1
    <2>2. CASE k = n + 1
        BY <1>3, <1>4, <1>7, <2>2
    <2> QED BY <1>3, <2>1, <2>2
<1>9. SentDone'
    <2> SUFFICES ASSUME NEW c \in Conns, NEW k \in 1..Len(out[c]), NEW v \in Workers,
                        WorkerOf(out[c][k]) = v
                 PROVE  /\ HoldsMutex(v)' => out[c][k] < task'[v].req
                        /\ \A i \in 1..Len(taskList[v]) : out[c][k] < taskList[v][i].req
        BY <1>1 DEF SentDone, Done, WorkerOf
    <2>1. Done(out[c][k]) /\ out[c][k] \in 1..Len(reqs)
        BY OrderTypes DEF OrderInv, SentDone
    <2> QED BY <1>7, <2>1
<1>10. AnswerOrder'
    <2> SUFFICES ASSUME NEW k \in 1..(n + 1), NEW l \in 1..(n + 1), k < l,
                        WorkerOf(responses'[k].req) = WorkerOf(responses'[l].req)
                 PROVE  responses'[k].req < responses'[l].req
        BY <1>1, <1>3 DEF AnswerOrder, WorkerOf
    <2>0. k \in 1..n /\ responses'[k].req = responses[k].req
        BY <1>3
    <2>1. CASE l \in 1..n
        <3>1. responses'[l].req = responses[l].req
            BY <1>3, <2>1
        <3> QED BY <2>0, <2>1, <3>1 DEF OrderInv, AnswerOrder, n
    <2>2. CASE l = n + 1
        <3>1. WorkerOf(responses[k].req) = w
            BY <1>3, <1>4, <2>0, <2>2
        <3>2. Done(responses[k].req)
            BY <2>0 DEF OrderInv, AnsweredDone, n
        <3> QED BY <1>1, <1>3, <2>0, <2>2, <3>1, <3>2 DEF Done, t
    <2> QED BY <1>3, <2>1, <2>2
<1>11. SentBefore'
    <2> SUFFICES ASSUME NEW c \in Conns, NEW k \in 1..Len(out[c]), NEW l \in 1..(n + 1),
                        WorkerOf(out[c][k]) = WorkerOf(responses'[l].req)
                 PROVE  out[c][k] < responses'[l].req
        BY <1>1, <1>3 DEF SentBefore, WorkerOf
    <2>1. CASE l \in 1..n
        <3>1. responses'[l].req = responses[l].req
            BY <1>3, <2>1
        <3> QED BY <2>1, <3>1 DEF OrderInv, SentBefore, n
    <2>2. CASE l = n + 1
        <3>1. WorkerOf(out[c][k]) = w
            BY <1>3, <1>4, <2>2
        <3>2. Done(out[c][k])
            BY DEF OrderInv, SentDone
        <3> QED BY <1>1, <1>3, <2>2, <3>1, <3>2 DEF Done, t
    <2> QED BY <1>3, <2>1, <2>2
<1>12. SentOrder' /\ SentOnce'
    BY <1>1 DEF OrderInv, SentOrder, SentOnce, WorkerOf
<1> QED BY <1>5, <1>6, <1>8, <1>9, <1>10, <1>11, <1>12 DEF OrderInv

\* SendResponsePduList takes the front answer: those of its worker behind it
\* are younger, those on the sockets older.
LEMMA SendResponseOrder ==
    ASSUME ProxyIInv, OrderInv, SendResponse
    PROVE  OrderInv'
<1> USE ProxyConstants
<1> DEFINE n == Len(responses)
<1> DEFINE r == responses[1].req
<1> DEFINE c == Receiver(Head(responses).uuid)
<1>1. /\ UNCHANGED <<reqs, taskList, task, wpc>>
      /\ responses # <<>>
      /\ responses' = Tail(responses)
      /\ out' = IF c = 0 THEN out ELSE [out EXCEPT ![c] = Append(out[c], Head(responses).req)]
    BY DEF SendResponse, workVars
<1>2. /\ n \in Nat \ {0} /\ Len(responses') = n - 1 /\ Head(responses) = responses[1]
      /\ \A k \in 1..(n - 1) : responses'[k] = responses[k + 1]
    <2>1. responses \in Seq(Tasks)
        BY DEF ProxyIInv, VarsTypeOK
    <2> QED BY <1>1, <2>1, TailElements, HeadTailProperties
<1>3. \A k \in 1..(n - 1) : k + 1 \in 1..n /\ responses'[k].req = responses[k + 1].req
    BY <1>2
<1>4. \A d \in Conns : Len(out[d]) \in Nat
    BY OrderTypes
<1>5. \A d \in Conns :
          \/ out'[d] = out[d]
          \/ /\ d = c /\ Len(out'[d]) = Len(out[d]) + 1
             /\ \A k \in 1..Len(out[d]) : out'[d][k] = out[d][k]
             /\ out'[d][Len(out[d]) + 1] = r
    <2> HIDE DEF c
    <2> SUFFICES ASSUME NEW d \in Conns, d = c, c # 0
                 PROVE  /\ Len(out'[d]) = Len(out[d]) + 1
                        /\ \A k \in 1..Len(out[d]) : out'[d][k] = out[d][k]
                        /\ out'[d][Len(out[d]) + 1] = r
        BY <1>1 DEF ProxyIInv, VarsTypeOK
    <2>1. out'[d] = Append(out[d], r)
        BY <1>1, <1>2 DEF ProxyIInv, VarsTypeOK
    <2>2. out[d] \in Seq(1..MaxReqs)
        BY OrderTypes
    <2> QED BY <2>1, <2>2
<1>6. r \in 1..Len(reqs) /\ Len(reqs) \in Nat /\ 1 \in 1..n
    BY <1>2, OrderTypes
<1>7. \A d \in Conns : \A k \in 1..Len(out[d]) : WorkerOf(out[d][k]) = WorkerOf(r) => out[d][k] < r
    BY <1>6 DEF OrderInv, SentBefore
<1>8. Done(r)
    BY <1>6 DEF OrderInv, AnsweredDone
<1>9. \A k \in 2..n : WorkerOf(responses[k].req) = WorkerOf(r) => r < responses[k].req
    BY <1>2, <1>6 DEF OrderInv, AnswerOrder
<1> HIDE DEF n, r, c
<1>0. UNCHANGED <<reqs, taskList, task, wpc>>
    BY <1>1
<1>10. \A d \in Conns : \A k \in 1..Len(out'[d]) :
          \/ k \in 1..Len(out[d]) /\ out'[d][k] = out[d][k]
          \/ d = c /\ k = Len(out[d]) + 1 /\ Len(out'[d]) = Len(out[d]) + 1 /\ out'[d][k] = r
    BY <1>4, <1>5
<1>11. QueueOrder' /\ RunOrder'
    BY <1>0 DEF OrderInv, QueueOrder, RunOrder, WorkerOf, HoldsMutex
<1>12. \A s : Done(s) => \A v \in Workers : WorkerOf(s) = v =>
          /\ wpc'[v] \in {"run", "db", "respond"} => s < task'[v].req
          /\ \A i \in 1..Len(taskList'[v]) : s < taskList'[v][i].req
    BY <1>0 DEF Done, HoldsMutex
<1>13. AnsweredDone'
    <2> SUFFICES ASSUME NEW k \in 1..(n - 1), NEW v \in Workers, WorkerOf(responses'[k].req) = v
                 PROVE  /\ wpc'[v] \in {"run", "db", "respond"} => responses'[k].req < task'[v].req
                        /\ \A i \in 1..Len(taskList'[v]) : responses'[k].req < taskList'[v][i].req
        BY <1>0, <1>2 DEF AnsweredDone, Done, WorkerOf, HoldsMutex
    <2>1. responses'[k].req = responses[k + 1].req /\ Done(responses[k + 1].req)
        BY <1>3 DEF OrderInv, AnsweredDone, n
    <2> QED BY <1>12, <2>1
<1>14. SentDone'
    <2> SUFFICES ASSUME NEW d \in Conns, NEW k \in 1..Len(out'[d]), NEW v \in Workers,
                        WorkerOf(out'[d][k]) = v
                 PROVE  /\ wpc'[v] \in {"run", "db", "respond"} => out'[d][k] < task'[v].req
                        /\ \A i \in 1..Len(taskList'[v]) : out'[d][k] < taskList'[v][i].req
        BY <1>0 DEF SentDone, Done, WorkerOf, HoldsMutex
    <2>1. Done(out'[d][k])
        BY <1>8, <1>10 DEF OrderInv, SentDone
    <2> QED BY <1>12, <2>1
<1>15. AnswerOrder'
    <2> SUFFICES ASSUME NEW k \in 1..(n - 1), NEW l \in 1..(n - 1), k < l,
                        WorkerOf(responses'[k].req) = WorkerOf(responses'[l].req)
                 PROVE  responses'[k].req < responses'[l].req
        BY <1>0, <1>2 DEF AnswerOrder, WorkerOf
    <2>1. k + 1 \in 1..n /\ l + 1 \in 1..n /\ k + 1 < l + 1
        BY <1>2
    <2> QED BY <1>3, <2>1 DEF OrderInv, AnswerOrder, n
<1>16. SentBefore'
    <2> SUFFICES ASSUME NEW d \in Conns, NEW k \in 1..Len(out'[d]), NEW l \in 1..(n - 1),
                        WorkerOf(out'[d][k]) = WorkerOf(responses'[l].req)
                 PROVE  out'[d][k] < responses'[l].req
        BY <1>0, <1>2 DEF SentBefore, WorkerOf
    <2>0. l + 1 \in 2..n /\ l + 1 \in 1..n /\ responses'[l].req = responses[l + 1].req
        BY <1>2, <1>3
    <2>1. CASE k \in 1..Len(out[d]) /\ out'[d][k] = out[d][k]
        BY <2>0, <2>1 DEF OrderInv, SentBefore, n
    <2>2. CASE out'[d][k] = r
        BY <1>9, <2>0, <2>2
    <2> QED BY <1>10, <2>1, <2>2
<1>17. SentOrder'
    <2> SUFFICES ASSUME NEW d \in Conns, NEW k \in 1..Len(out'[d]), NEW l \in 1..Len(out'[d]), k < l,
                        WorkerOf(out'[d][k]) = WorkerOf(out'[d][l])
                 PROVE  out'[d][k] < out'[d][l]
        BY <1>0 DEF SentOrder, WorkerOf
    <2>0. k \in 1..Len(out[d]) /\ out'[d][k] = out[d][k]
        BY <1>4, <1>10
    <2>1. CASE l \in 1..Len(out[d]) /\ out'[d][l] = out[d][l]
        BY <2>0, <2>1 DEF OrderInv, SentOrder
    <2>2. CASE out'[d][l] = r
        BY <1>7, <2>0, <2>2
    <2> QED BY <1>10, <2>1, <2>2
<1>18. SentOnce'
    <2> SUFFICES ASSUME NEW d \in Conns, NEW e \in Conns,
                        NEW k \in 1..Len(out'[d]), NEW l \in 1..Len(out'[e]),
                        out'[d][k] = out'[e][l]
                 PROVE  d = e /\ k = l
        BY DEF SentOnce
    <2>0. \A f \in Conns : \A i \in 1..Len(out[f]) : out[f][i] # r
        BY <1>6, <1>7
    <2>1. CASE k \in 1..Len(out[d]) /\ out'[d][k] = out[d][k]
        <3>1. l \in 1..Len(out[e]) /\ out'[e][l] = out[e][l]
            BY <1>10, <2>0, <2>1
        <3>2. out[d][k] = out[e][l]
            BY <2>1, <3>1
        <3>3. SentOnce
            BY DEF OrderInv
        <3> QED BY <2>1, <3>1, <3>2, <3>3 DEF SentOnce
    <2>2. CASE d = c /\ k = Len(out[d]) + 1 /\ out'[d][k] = r
        <3>1. e = c /\ l = Len(out[e]) + 1
            BY <1>10, <2>0, <2>2
        <3> QED BY <2>2, <3>1
    <2> QED BY <1>10, <2>1, <2>2
<1> QED BY <1>11, <1>13, <1>14, <1>15, <1>16, <1>17, <1>18 DEF OrderInv

LEMMA OrderInit == ProxyInit => OrderInv
<1> SUFFICES ASSUME ProxyInit PROVE OrderInv
    OBVIOUS
<1>1. /\ \A w \in Workers : taskList[w] = <<>> /\ task[w].req = 0 /\ ~HoldsMutex(w)
      /\ responses = <<>>
      /\ \A c \in Conns : out[c] = <<>>
    BY DEF ProxyInit, HoldsMutex, NoTask
<1>2. /\ \A w \in Workers : 1..Len(taskList[w]) = {}
      /\ 1..Len(responses) = {}
      /\ \A c \in Conns : 1..Len(out[c]) = {}
    BY <1>1, EmptyList
<1>3. QueueOrder /\ RunOrder
    BY <1>1, <1>2 DEF QueueOrder, RunOrder
<1>4. AnsweredDone /\ AnswerOrder /\ SentDone /\ SentBefore /\ SentOrder /\ SentOnce
    BY <1>2 DEF AnsweredDone, AnswerOrder, SentDone, SentBefore, SentOrder, SentOnce
<1> QED BY <1>3, <1>4 DEF OrderInv

LEMMA OrderStep == ProxyIInv /\ OrderInv /\ [ProxyNext]_proxyVars => OrderInv'
<1> SUFFICES ASSUME ProxyIInv, OrderInv, [ProxyNext]_proxyVars PROVE OrderInv'
    OBVIOUS
<1>0. wpc \in [Workers -> WorkerPcs]
    BY DEF ProxyIInv, VarsTypeOK
<1>1. ASSUME NEW h \in Handles, Accept(h) PROVE OrderInv'
    BY <1>1, OrderFrame DEF Accept, workVars, HoldsMutex
<1>2. ASSUME NEW c \in Conns, CloseConn(c) PROVE OrderInv'
    BY <1>2, OrderFrame DEF CloseConn, workVars, HoldsMutex
<1>3. ASSUME NEW c \in Conns, NEW b \in Batches, OnRead(c, b) PROVE OrderInv'
    BY <1>3, OrderFrame DEF OnRead, workVars, HoldsMutex
<1>4. CASE OnReadReturns \/ HandleIgnored \/ HandleBroken
    BY <1>4, OrderFrame DEF OnReadReturns, HandleIgnored, HandleBroken, workVars, HoldsMutex
<1>5. ASSUME NEW w \in Workers, AddTask(w) PROVE OrderInv'
    BY <1>5, OrderFrame DEF AddTask, workVars, HoldsMutex
<1>6. CASE PushTask
    BY <1>6, PushTaskOrder
<1>7. CASE SendResponse
    BY <1>7, SendResponseOrder
<1>8. CASE StartDrain \/ EndDrain \/ SigTerm \/ ExitCallback
    BY <1>8, OrderFrame DEF StartDrain, EndDrain, SigTerm, ExitCallback, workVars, HoldsMutex
<1>9. CASE StopWorker \/ JoinWorker
    BY <1>9, OrderFrame DEF StopWorker, JoinWorker, workVars, HoldsMutex
<1>10. ASSUME NEW w \in Workers,
              WorkerStep(w) \/ SpuriousTaskWakeup(w) \/ SpuriousDbWakeup(w)
       PROVE  OrderInv'
    <2>1. CASE CheckStarted(w) \/ WaitForTask(w) \/ SpuriousTaskWakeup(w)
        <3>1. \A v \in Workers : HoldsMutex(v)' <=> HoldsMutex(v)
            BY <1>0, <2>1 DEF CheckStarted, WaitForTask, SpuriousTaskWakeup, HoldsMutex
        <3> QED BY <2>1, <3>1, OrderFrame DEF CheckStarted, WaitForTask, SpuriousTaskWakeup
    <2>2. CASE \/ StartQuery(w) \/ AnswerAtOnce(w) \/ QueryGets(w) \/ QueryEnds(w)
               \/ SpuriousDbWakeup(w)
        <3>1. /\ wpc[w] \in {"run", "db"}
              /\ WorkerMoves(w, "db") \/ WorkerMoves(w, "respond")
            BY <2>2 DEF StartQuery, AnswerAtOnce, QueryGets, QueryEnds, SpuriousDbWakeup
        <3>2. \A v \in Workers : HoldsMutex(v)' <=> HoldsMutex(v)
            BY <1>0, <3>1 DEF WorkerMoves, HoldsMutex
        <3> QED BY <3>1, <3>2, OrderFrame DEF WorkerMoves
    <2>3. CASE TakeTask(w)
        BY <2>3, TakeTaskOrder
    <2>4. CASE DropAllUser(w) \/ AddResponseLate(w)
        BY <2>4, LetGoOrder DEF DropAllUser, AddResponseLate
    <2>5. CASE AddResponsePdu(w)
        BY <2>5, AddResponseOrder
    <2> QED BY <1>10, <2>1, <2>2, <2>3, <2>4, <2>5 DEF WorkerStep
<1>11. CASE UNCHANGED proxyVars
    BY <1>11, OrderFrame DEF proxyVars, workVars, HoldsMutex
<1> QED BY <1>1, <1>2, <1>3, <1>4, <1>5, <1>6, <1>7, <1>8, <1>9, <1>10, <1>11
        DEF ProxyNext, MainStep

\* ThreadPool, response_pdu_list_ and the sockets keep the requests of one
\* worker in their order, whichever worker Random draws for each.
THEOREM ProxyOrdered == ProxySpec => [](ProxyIInv /\ OrderInv)
    BY ProxyInitIInv, ProxyStepIInv, OrderInit, OrderStep, PTL DEF ProxySpec

\* Two answers that SendResponsePduList writes to one msg_server's socket, of
\* requests PushTask gave to the same WorkThread, are in the order of the
\* requests.
THEOREM ProxyAnswersInOrder == ProxySpec => []SameWorkerInOrder
<1>1. ProxyIInv /\ OrderInv => SameWorkerInOrder
    <2> SUFFICES ASSUME ProxyIInv, OrderInv PROVE SameWorkerInOrder
        OBVIOUS
    <2>1. \A c \in Conns : DOMAIN out[c] = 1..Len(out[c])
        BY DEF ProxyIInv, VarsTypeOK
    <2> QED BY <2>1 DEF OrderInv, SentOrder, SameWorkerInOrder, WorkerOf
<1> QED BY <1>1, ProxyOrdered, PTL

\* A set any two members of which are equal has at most one.
LEMMA AtMostOne ==
    ASSUME NEW S, \A p, q \in S : p = q
    PROVE  Cardinality(S) <= 1
<1>1. CASE S = {}
    BY <1>1, FS_EmptySet
<1>2. CASE S # {}
    <2>1. PICK p \in S : TRUE
        BY <1>2
    <2>2. S = {p}
        BY <2>1
    <2>3. Cardinality({p}) = 1
        BY FS_Singleton
    <2> QED BY <2>2, <2>3
<1> QED BY <1>1, <1>2

\* The four places a request can be in.
QueuedAt(w, i, r) == i \in DOMAIN taskList[w] /\ taskList[w][i].req = r
RunningAt(w, r) == task[w].req = r
AnsweredAt(i, r) == i \in DOMAIN responses /\ responses[i].req = r
SentAt(c, i, r) == i \in DOMAIN out[c] /\ out[c][i] = r

\* No request is twice in one kind of place, nor in two kinds: one its worker
\* is done with is neither queued nor run again, and one that was sent does
\* not wait to be sent.
LEMMA OnePlace ==
    ASSUME ProxyIInv, OrderInv, NEW r \in 1..Len(reqs)
    PROVE  /\ \A v, w \in Workers : \A i, j : QueuedAt(v, i, r) /\ QueuedAt(w, j, r) => v = w /\ i = j
           /\ \A v, w \in Workers : RunningAt(v, r) /\ RunningAt(w, r) => v = w
           /\ \A i, j : AnsweredAt(i, r) /\ AnsweredAt(j, r) => i = j
           /\ \A c, d \in Conns : \A i, j : SentAt(c, i, r) /\ SentAt(d, j, r) => c = d /\ i = j
           /\ \A v, w \in Workers : \A i : ~(QueuedAt(v, i, r) /\ RunningAt(w, r))
           /\ \A v \in Workers : \A i, j : ~(QueuedAt(v, i, r) /\ AnsweredAt(j, r))
           /\ \A v \in Workers, c \in Conns : \A i, j : ~(QueuedAt(v, i, r) /\ SentAt(c, j, r))
           /\ \A v \in Workers : \A j : ~(RunningAt(v, r) /\ AnsweredAt(j, r))
           /\ \A v \in Workers, c \in Conns : \A j : ~(RunningAt(v, r) /\ SentAt(c, j, r))
           /\ \A c \in Conns : \A i, j : ~(AnsweredAt(i, r) /\ SentAt(c, j, r))
<1>1. r \in Nat \ {0}
    BY OrderTypes
<1>2. /\ \A w \in Workers : DOMAIN taskList[w] = 1..Len(taskList[w]) /\ Len(taskList[w]) \in Nat
      /\ DOMAIN responses = 1..Len(responses) /\ Len(responses) \in Nat
      /\ \A c \in Conns : DOMAIN out[c] = 1..Len(out[c]) /\ Len(out[c]) \in Nat
    BY OrderTypes, LenProperties
<1>3. ASSUME NEW w \in Workers, NEW i, QueuedAt(w, i, r)
      PROVE  i \in 1..Len(taskList[w]) /\ taskList[w][i].req = r /\ WorkerOf(r) = w
    BY <1>2, <1>3 DEF QueuedAt, OrderInv, QueueOrder
<1>4. ASSUME NEW w \in Workers, RunningAt(w, r)
      PROVE  HoldsMutex(w) /\ task[w].req = r /\ WorkerOf(r) = w
    BY <1>1, <1>4 DEF RunningAt, OrderInv, RunOrder
<1>5. ASSUME NEW i, AnsweredAt(i, r)
      PROVE  i \in 1..Len(responses) /\ responses[i].req = r /\ Done(r)
    BY <1>2, <1>5 DEF AnsweredAt, OrderInv, AnsweredDone
<1>6. ASSUME NEW c \in Conns, NEW i, SentAt(c, i, r)
      PROVE  i \in 1..Len(out[c]) /\ out[c][i] = r /\ Done(r)
    BY <1>2, <1>6 DEF SentAt, OrderInv, SentDone
<1>7. ASSUME NEW w \in Workers, NEW i, QueuedAt(w, i, r) PROVE ~Done(r)
    BY <1>1, <1>3, <1>7 DEF Done
<1>8. ASSUME NEW w \in Workers, RunningAt(w, r) PROVE ~Done(r)
    BY <1>1, <1>4, <1>8 DEF Done
<1>9. ASSUME NEW v \in Workers, NEW w \in Workers, NEW i, NEW j, QueuedAt(v, i, r), QueuedAt(w, j, r)
      PROVE  v = w /\ i = j
    <2>1. v = w /\ i \in 1..Len(taskList[w]) /\ j \in 1..Len(taskList[w])
          /\ taskList[w][i].req = r /\ taskList[w][j].req = r
        BY <1>3, <1>9
    <2>2. ~(i < j) /\ ~(j < i)
        BY <1>1, <2>1 DEF OrderInv, QueueOrder
    <2>3. i \in Int /\ j \in Int
        BY <1>2, <2>1
    <2> QED BY <2>1, <2>2, <2>3
<1>10. ASSUME NEW v \in Workers, NEW w \in Workers, NEW i, QueuedAt(v, i, r), RunningAt(w, r)
       PROVE  FALSE
    <2>1. v = w /\ HoldsMutex(w) /\ i \in 1..Len(taskList[w]) /\ taskList[w][i].req = r
          /\ task[w].req = r
        BY <1>3, <1>4, <1>10
    <2> QED BY <1>1, <2>1 DEF OrderInv, RunOrder
<1>11. ASSUME NEW i, NEW j, AnsweredAt(i, r), AnsweredAt(j, r) PROVE i = j
    <2>1. i \in 1..Len(responses) /\ j \in 1..Len(responses)
          /\ responses[i].req = r /\ responses[j].req = r
        BY <1>5, <1>11
    <2>2. ~(i < j) /\ ~(j < i)
        BY <1>1, <2>1 DEF OrderInv, AnswerOrder
    <2>3. i \in Int /\ j \in Int
        BY <1>2, <2>1
    <2> QED BY <2>2, <2>3
<1>12. ASSUME NEW c \in Conns, NEW d \in Conns, NEW i, NEW j, SentAt(c, i, r), SentAt(d, j, r)
       PROVE  c = d /\ i = j
    BY <1>6, <1>12 DEF OrderInv, SentOnce
<1>13. ASSUME NEW c \in Conns, NEW i, NEW j, AnsweredAt(i, r), SentAt(c, j, r) PROVE FALSE
    <2>1. i \in 1..Len(responses) /\ responses[i].req = r /\ j \in 1..Len(out[c]) /\ out[c][j] = r
        BY <1>5, <1>6, <1>13
    <2> QED BY <1>1, <2>1 DEF OrderInv, SentBefore
<1>14. \A v, w \in Workers : RunningAt(v, r) /\ RunningAt(w, r) => v = w
    BY <1>4
<1>15. \A v \in Workers : \A i, j : ~(QueuedAt(v, i, r) /\ AnsweredAt(j, r))
    BY <1>5, <1>7
<1>16. \A v \in Workers, c \in Conns : \A i, j : ~(QueuedAt(v, i, r) /\ SentAt(c, j, r))
    BY <1>6, <1>7
<1>17. \A v \in Workers : \A j : ~(RunningAt(v, r) /\ AnsweredAt(j, r))
    BY <1>5, <1>8
<1>18. \A v \in Workers, c \in Conns : \A j : ~(RunningAt(v, r) /\ SentAt(c, j, r))
    BY <1>6, <1>8
<1> QED BY <1>9, <1>10, <1>11, <1>12, <1>13, <1>14, <1>15, <1>16, <1>17, <1>18

\* A ProxyTask is in one queue, or with one worker, or one waiting answer, or
\* one answer on a socket: it is run once and answered at most once.
THEOREM ProxyHandlesOnce == ProxySpec => []HandledOnce
<1>1. ProxyIInv /\ OrderInv => HandledOnce
    <2> SUFFICES ASSUME ProxyIInv, OrderInv PROVE HandledOnce
        OBVIOUS
    <2> DEFINE queued == {<<"queued", w, i>> : w \in Workers, i \in 1..MaxReqs}
    <2> DEFINE running == {<<"running", w, 0>> : w \in Workers}
    <2> DEFINE answered == {<<"answered", 0, i>> : i \in 1..MaxReqs}
    <2> DEFINE sent == {<<"sent", c, i>> : c \in Conns, i \in 1..MaxReqs}
    <2> DEFINE At(p, r) ==
            \/ p[1] = "queued" /\ p[3] \in DOMAIN taskList[p[2]] /\ taskList[p[2]][p[3]].req = r
            \/ p[1] = "running" /\ task[p[2]].req = r
            \/ p[1] = "answered" /\ p[3] \in DOMAIN responses /\ responses[p[3]].req = r
            \/ p[1] = "sent" /\ p[3] \in DOMAIN out[p[2]] /\ out[p[2]][p[3]] = r
    <2> DEFINE Places(r) == {p \in queued \cup running \cup answered \cup sent : At(p, r)}
    <2>1. DOMAIN reqs = 1..Len(reqs)
        BY DEF ProxyIInv, VarsTypeOK
    <2>2. ASSUME NEW r \in 1..Len(reqs), NEW p \in Places(r)
          PROVE  \/ \E w \in Workers, i \in 1..MaxReqs : p = <<"queued", w, i>> /\ QueuedAt(w, i, r)
                 \/ \E w \in Workers : p = <<"running", w, 0>> /\ RunningAt(w, r)
                 \/ \E i \in 1..MaxReqs : p = <<"answered", 0, i>> /\ AnsweredAt(i, r)
                 \/ \E c \in Conns, i \in 1..MaxReqs : p = <<"sent", c, i>> /\ SentAt(c, i, r)
        <3>1. CASE p \in queued
            <4>1. PICK w \in Workers, i \in 1..MaxReqs : p = <<"queued", w, i>>
                BY <3>1
            <4> QED BY <4>1 DEF QueuedAt
        <3>2. CASE p \in running
            <4>1. PICK w \in Workers : p = <<"running", w, 0>>
                BY <3>2
            <4> QED BY <4>1 DEF RunningAt
        <3>3. CASE p \in answered
            <4>1. PICK i \in 1..MaxReqs : p = <<"answered", 0, i>>
                BY <3>3
            <4> QED BY <4>1 DEF AnsweredAt
        <3>4. CASE p \in sent
            <4>1. PICK c \in Conns, i \in 1..MaxReqs : p = <<"sent", c, i>>
                BY <3>4
            <4> QED BY <4>1 DEF SentAt
        <3> QED BY <3>1, <3>2, <3>3, <3>4
    <2> HIDE DEF Places
    <2>3. ASSUME NEW r \in 1..Len(reqs), NEW p \in Places(r), NEW q \in Places(r) PROVE p = q
        <3>1. CASE \E w \in Workers, i \in 1..MaxReqs : p = <<"queued", w, i>> /\ QueuedAt(w, i, r)
            BY <2>2, <3>1, OnePlace
        <3>2. CASE \E w \in Workers : p = <<"running", w, 0>> /\ RunningAt(w, r)
            BY <2>2, <3>2, OnePlace
        <3>3. CASE \E i \in 1..MaxReqs : p = <<"answered", 0, i>> /\ AnsweredAt(i, r)
            BY <2>2, <3>3, OnePlace
        <3>4. CASE \E c \in Conns, i \in 1..MaxReqs : p = <<"sent", c, i>> /\ SentAt(c, i, r)
            BY <2>2, <3>4, OnePlace
        <3> QED BY <2>2, <3>1, <3>2, <3>3, <3>4
    <2>4. \A r \in 1..Len(reqs) : Cardinality(Places(r)) <= 1
        BY <2>3, AtMostOne
    <2> QED BY <2>1, <2>4 DEF HandledOnce, Places
<1> QED BY <1>1, ProxyOrdered, PTL
=============================================================================
