------------------------------- MODULE DBPool -------------------------------
(***************************************************************************)
(* The MySQL connection pool of db_proxy_server (db_pool.cpp).             *)
(*                                                                         *)
(* Worker threads borrow a DBConn with GetDBConn and give it back with     *)
(* ReleaseDBConn.  Both run under DBPool::mutex_, so each is one step,     *)
(* except that GetDBConn gives the mutex up while it waits on notEmpty_:   *)
(* a thread that waits takes part again only when it has been woken, and   *)
(* then evaluates the loop condition afresh.                               *)
(*                                                                         *)
(* A DBConn is named by the order of its creation: the k-th connection the *)
(* pool opened is k, and 0 stands for "no connection".                     *)
(***************************************************************************)
EXTENDS Integers, Sequences, FiniteSets

CONSTANTS
    Threads,          \* the threads that use the pool
    MIN_DB_CONN_CNT,  \* connections opened by DBPool::Init
    MaxDbConnCnt      \* maxDbConnCnt_, "max_conn" of db_proxy_server.json

ASSUME PoolAssumption ==
    /\ MIN_DB_CONN_CNT \in Nat
    /\ MaxDbConnCnt \in Nat
    /\ IsFiniteSet(Threads)

VARIABLES
    freeList,      \* freeList_, taken from the front and refilled at the back
    curDbConnCnt,  \* curDbConnCnt_
    dbPc,          \* where each thread is in a GetDBConn ... ReleaseDBConn use
    dbConn         \* the connection each thread holds

poolVars == <<freeList, curDbConnCnt, dbPc, dbConn>>

NoConn == 0

\* "want": inside GetDBConn, about to take (or take back) the mutex;
\* "wait": blocked on notEmpty_; "use": GetDBConn returned a connection;
\* "null": GetDBConn returned NULL because a new connection failed to open.
DbPcs == {"idle", "want", "wait", "use", "null"}

\* The larger of the initial size and max_conn: a max_conn below the initial
\* size does not close anything.
PoolLimit ==
    IF MaxDbConnCnt > MIN_DB_CONN_CNT THEN MaxDbConnCnt ELSE MIN_DB_CONN_CNT

PoolTypeOK ==
    /\ freeList \in Seq(1..PoolLimit)
    /\ curDbConnCnt \in MIN_DB_CONN_CNT..PoolLimit
    /\ dbPc \in [Threads -> DbPcs]
    /\ dbConn \in [Threads -> 0..PoolLimit]

\* DBPool::DBPool and a successful DBPool::Init; when Init fails the process
\* does not start.
PoolInit ==
    /\ freeList = [i \in 1..MIN_DB_CONN_CNT |-> i]
    /\ curDbConnCnt = MIN_DB_CONN_CNT
    /\ dbPc = [t \in Threads |-> "idle"]
    /\ dbConn = [t \in Threads |-> NoConn]

-----------------------------------------------------------------------------
\* A business handler calls DBManager::GetDBConn("slave").
RequestDBConn(t) ==
    /\ dbPc[t] = "idle"
    /\ dbPc' = [dbPc EXCEPT ![t] = "want"]
    /\ UNCHANGED <<freeList, curDbConnCnt, dbConn>>

\* Mutant: the front is handed out and stays on the list.
TakeFree_NoPop(t) ==
    /\ freeList # <<>>
    /\ dbConn' = [dbConn EXCEPT ![t] = Head(freeList)]
    /\ dbPc' = [dbPc EXCEPT ![t] = "use"]
    /\ UNCHANGED <<freeList, curDbConnCnt>>

\* The loop of GetDBConn is over: pop the front of freeList_.
TakeFree(t) ==
    /\ freeList # <<>>
    /\ dbConn' = [dbConn EXCEPT ![t] = Head(freeList)]
    /\ freeList' = Tail(freeList)
    /\ dbPc' = [dbPc EXCEPT ![t] = "use"]
    /\ UNCHANGED curDbConnCnt

\* Nothing free and the pool is at its limit: wait on notEmpty_.
WaitForFree(t) ==
    /\ freeList = <<>>
    /\ curDbConnCnt >= MaxDbConnCnt
    /\ dbPc' = [dbPc EXCEPT ![t] = "wait"]
    /\ UNCHANGED <<freeList, curDbConnCnt, dbConn>>

\* Nothing free below the limit: a new connection is opened, pushed and,
\* still under the mutex, popped by the same thread.
OpenNew(t) ==
    /\ freeList = <<>>
    /\ curDbConnCnt < MaxDbConnCnt
    /\ curDbConnCnt' = curDbConnCnt + 1
    /\ dbConn' = [dbConn EXCEPT ![t] = curDbConnCnt + 1]
    /\ dbPc' = [dbPc EXCEPT ![t] = "use"]
    /\ UNCHANGED freeList

\* DBConn::Init failed: GetDBConn returns NULL and counts nothing.
OpenFails(t) ==
    /\ freeList = <<>>
    /\ curDbConnCnt < MaxDbConnCnt
    /\ dbPc' = [dbPc EXCEPT ![t] = "null"]
    /\ UNCHANGED <<freeList, curDbConnCnt, dbConn>>

GetDBConn(t) ==
    /\ dbPc[t] = "want"
    /\ \/ TakeFree(t)
       \/ WaitForFree(t)
       \/ OpenNew(t)
       \/ OpenFails(t)

\* std::condition_variable may wake a waiter for no reason.
SpuriousWakeup(t) ==
    /\ dbPc[t] = "wait"
    /\ dbPc' = [dbPc EXCEPT ![t] = "want"]
    /\ UNCHANGED <<freeList, curDbConnCnt, dbConn>>

\* Mutant: the search ends on the list's end and nothing is pushed.
PushFree_Never(c) == freeList

\* The pushed connection joins the list unless it is already there.
PushFree(c) ==
    IF \E i \in DOMAIN freeList : freeList[i] = c THEN freeList ELSE Append(freeList, c)

\* Mutant: nobody is notified.
NotifyOne_Nobody(pc) == {pc}

\* notEmpty_.notify_one(): one waiter, if any, goes back to the mutex.
NotifyOne(pc) ==
    LET waiting == {u \in Threads : pc[u] = "wait"} IN
    IF waiting = {} THEN {pc} ELSE {[pc EXCEPT ![u] = "want"] : u \in waiting}

ReleaseDBConn(t) ==
    /\ dbPc[t] = "use"
    /\ freeList' = PushFree(dbConn[t])
    /\ dbPc' \in NotifyOne([dbPc EXCEPT ![t] = "idle"])
    /\ dbConn' = [dbConn EXCEPT ![t] = NoConn]
    /\ UNCHANGED curDbConnCnt

\* A caller that got NULL returns without releasing anything.
GiveUp(t) ==
    /\ dbPc[t] = "null"
    /\ dbPc' = [dbPc EXCEPT ![t] = "idle"]
    /\ UNCHANGED <<freeList, curDbConnCnt, dbConn>>

PoolNext ==
    \E t \in Threads :
        \/ RequestDBConn(t)
        \/ GetDBConn(t)
        \/ SpuriousWakeup(t)
        \/ ReleaseDBConn(t)
        \/ GiveUp(t)

PoolSpec == PoolInit /\ [][PoolNext]_poolVars

-----------------------------------------------------------------------------
\* Two threads never use one MySQL connection, and a connection in use is
\* never on the free list (GetDBConn pops it, ReleaseDBConn pushes it only
\* when it is absent).
ConnExclusive ==
    /\ \A t \in Threads : dbPc[t] = "use" <=> dbConn[t] # NoConn
    /\ \A t, u \in Threads : dbConn[t] = dbConn[u] /\ dbConn[t] # NoConn => t = u
    /\ \A t \in Threads, i \in DOMAIN freeList : dbConn[t] # freeList[i]
    /\ \A i, j \in DOMAIN freeList : freeList[i] = freeList[j] => i = j

\* The connections that are free or in use are exactly the ones
\* curDbConnCnt_ counts: none is lost, so a wait at the limit is always for a
\* connection that some thread will give back, and none escapes the limit.
NoConnLost ==
    /\ \A i \in DOMAIN freeList : freeList[i] \in 1..curDbConnCnt
    /\ \A t \in Threads : dbConn[t] \in 0..curDbConnCnt
    /\ \A c \in 1..curDbConnCnt :
           \/ \E i \in DOMAIN freeList : freeList[i] = c
           \/ \E t \in Threads : dbConn[t] = c

\* No wakeup is lost: while some thread waits on notEmpty_, at least as many
\* threads are on their way to the mutex as there are free connections
\* (ReleaseDBConn's notify_one wakes a waiter for each connection it frees).
NoLostWakeup ==
    (\E t \in Threads : dbPc[t] = "wait")
        => Len(freeList) <= Cardinality({t \in Threads : dbPc[t] = "want"})
=============================================================================
