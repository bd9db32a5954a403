------------------------------- MODULE DbProxy -------------------------------
(***************************************************************************)
(* db_proxy_server: the main thread reads requests from the msg_servers'   *)
(* connections (ProxyConn) and hands each to a worker thread of a          *)
(* ThreadPool; a worker runs the business handler, borrowing a DBConn from *)
(* the pool of module DBPool, and queues the answer on response_pdu_list_; *)
(* the main thread's loop callback sends the queued answers.               *)
(*                                                                         *)
(* A worker holds its own WorkThread::mutex_ while it runs a task, so the  *)
(* main thread blocks in PushTask for as long as the chosen worker is busy *)
(* (in particular for as long as it waits for a DBConn).                   *)
(*                                                                         *)
(* Connections are named by the order in which they were accepted, and     *)
(* requests by the order in which they were handed to the workers.         *)
(***************************************************************************)
EXTENDS DBPool

CONSTANTS
    NumThreads,   \* thread_num of db_proxy_server.json
    Handles,      \* the socket handles the kernel hands out and reuses
    MaxAccepts,   \* bound: connections accepted in a behaviour
    MaxReqs,      \* bound: requests handed to the workers in a behaviour
    UuidSpace,    \* 2^32 in the code: values of uuid_alloctor_
    Batches       \* what one OnRead may find complete in inBuf_: PDU kinds

\* "login" and "allUser" query the database, "msg" is echoed; "badLogin" and
\* "badAllUser" have a body protobuf cannot parse; "ignored" is a heartbeat or
\* a command without a handler; "broken" makes IsPduAvailable throw.
Kinds == {"login", "badLogin", "allUser", "badAllUser", "msg", "ignored", "broken"}

ASSUME ProxyAssumption ==
    /\ NumThreads \in Nat \ {0}
    /\ Threads = 1..NumThreads
    /\ MaxAccepts \in Nat
    /\ MaxReqs \in Nat
    /\ UuidSpace \in Nat /\ UuidSpace > 1
    /\ Batches \subseteq Seq(Kinds)

VARIABLES
    accepted,      \* ghost: connections accepted so far
    uuidAlloctor,  \* ProxyConn::uuid_alloctor_
    conn,          \* conn[c]: handle_ and uuid_ of the c-th ProxyConn
    connMap,       \* g_proxy_conn_map, 0 where the handle is absent
    uuidMap,       \* g_uuid_conn_map, 0 where the uuid is absent
    mainPc,        \* where the main thread is
    curConn,       \* the ProxyConn whose OnRead is running
    pending,       \* the PDUs of that OnRead not handled yet
    pushTo,        \* the worker Random chose in ThreadPool::AddTask, or 0
    reqs,          \* ghost: every request handed to a worker
    taskList,      \* WorkThread::taskList_
    wpc,           \* where each worker is in RunInThread
    task,          \* the task each worker runs
    responses,     \* ProxyConn::response_pdu_list_
    out,           \* ghost: out[c], the answers written to c's socket
    started,       \* WorkThread::started_
    sigterm,       \* the exit timer is registered
    stopping       \* the worker ~WorkThread is joining, during exit

connVars == <<accepted, uuidAlloctor, conn, connMap, uuidMap>>
readVars == <<curConn, pending, pushTo>>
workVars == <<taskList, wpc, task>>
exitVars == <<started, sigterm, stopping>>
proxyVars == <<connVars, mainPc, readVars, reqs, workVars, responses, out, exitVars, poolVars>>

Conns == 1..MaxAccepts
Uuids == 1..(UuidSpace - 1)
Workers == Threads

\* "loop": between two callbacks of the event loop; "read": inside OnRead's
\* loop over the PDUs; "drain": inside SendResponsePduList, holding
\* ProxyConn::mutex_; "stop", "join": in ~WorkThread during exit(0);
\* "exited", "crashed": the process is gone.
MainPcs == {"loop", "read", "drain", "stop", "join", "exited", "crashed"}

\* "check": reads started_; "lock": wants mutex_ to look at taskList_;
\* "wait": asleep on notEmpty_; the next three hold mutex_ and run a task:
\* "run": at the handler's start, "db": using the DBPool, "respond": about
\* to call AddResponsePdu; "done": RunInThread has returned.
WorkerPcs == {"check", "lock", "wait", "run", "db", "respond", "done"}

NoTask == [uuid |-> 0, req |-> 0]
Tasks == [uuid : Uuids, req : 1..MaxReqs]

VarsTypeOK ==
    /\ accepted \in 0..MaxAccepts
    /\ uuidAlloctor \in 0..(UuidSpace - 1)
    /\ conn \in Seq([handle : Handles, uuid : Uuids]) /\ Len(conn) = accepted
    /\ connMap \in [Handles -> 0..accepted]
    /\ uuidMap \in [Uuids -> 0..accepted]
    /\ mainPc \in MainPcs
    /\ curConn \in 0..accepted
    /\ pending \in Seq(Kinds)
    /\ pushTo \in 0..NumThreads
    /\ reqs \in Seq([kind : Kinds, conn : Conns, worker : Workers])
    /\ Len(reqs) <= MaxReqs
    /\ taskList \in [Workers -> Seq(Tasks)]
    /\ wpc \in [Workers -> WorkerPcs]
    /\ task \in [Workers -> Tasks \cup {NoTask}]
    /\ responses \in Seq(Tasks)
    /\ out \in [Conns -> Seq(1..MaxReqs)]
    /\ started \in [Workers -> BOOLEAN]
    /\ sigterm \in BOOLEAN
    /\ stopping \in 0..NumThreads

ProxyTypeOK == PoolTypeOK /\ VarsTypeOK

ProxyInit ==
    /\ PoolInit
    /\ accepted = 0 /\ uuidAlloctor = 0
    /\ conn = <<>>
    /\ connMap = [h \in Handles |-> 0]
    /\ uuidMap = [u \in Uuids |-> 0]
    /\ mainPc = "loop"
    /\ curConn = 0 /\ pending = <<>> /\ pushTo = 0
    /\ reqs = <<>>
    /\ taskList = [w \in Workers |-> <<>>]
    /\ wpc = [w \in Workers |-> "check"]
    /\ task = [w \in Workers |-> NoTask]
    /\ responses = <<>>
    /\ out = [c \in Conns |-> <<>>]
    /\ started = [w \in Workers |-> TRUE]
    /\ sigterm = FALSE /\ stopping = 0

-----------------------------------------------------------------------------
\* Connections: proxy_serv_callback, SetUuid, OnConnect and Close.

\* uuid_ = ++uuid_alloctor_, once more when the result is 0.
NextUuid(u) ==
    LET v == (u + 1) % UuidSpace IN IF v = 0 THEN 1 ELSE v

\* std::map::insert: an entry that is there already stays.
MapInsert(m, k, v) == IF m[k] = 0 THEN [m EXCEPT ![k] = v] ELSE m

Accept(h) ==
    LET c == accepted + 1
        u == NextUuid(uuidAlloctor)
    IN  /\ mainPc = "loop"
        /\ accepted < MaxAccepts
        /\ connMap[h] = 0
        /\ accepted' = c
        /\ uuidAlloctor' = u
        /\ conn' = Append(conn, [handle |-> h, uuid |-> u])
        /\ uuidMap' = MapInsert(uuidMap, u, c)
        /\ connMap' = MapInsert(connMap, h, c)
        /\ UNCHANGED <<mainPc, readVars, reqs, workVars, responses, out, exitVars, poolVars>>

IsOpen(c) == c \in 1..accepted /\ connMap[conn[c].handle] = c

\* Mutant: Close forgets g_uuid_conn_map.
EraseUuid_Keeps(c) == uuidMap

EraseUuid(c) == [uuidMap EXCEPT ![conn[c].uuid] = 0]

\* netlib_close and the two erases: the handle is free for the next accept.
Close(c) ==
    /\ connMap' = [connMap EXCEPT ![conn[c].handle] = 0]
    /\ uuidMap' = EraseUuid(c)
    /\ UNCHANGED <<accepted, uuidAlloctor, conn>>

\* The peer closed the connection (NETLIB_MSG_CLOSE, OnClose), or nothing
\* was received for SERVER_TIMEOUT (OnTimer).
CloseConn(c) ==
    /\ mainPc = "loop"
    /\ IsOpen(c)
    /\ Close(c)
    /\ UNCHANGED <<mainPc, readVars, reqs, workVars, responses, out, exitVars, poolVars>>

-----------------------------------------------------------------------------
\* The main thread: OnRead, HandlePduBuf, AddTask and PushTask.

\* Data arrived: OnRead takes all of it and finds the PDUs of b complete.
\* (MaxReqs bounds the behaviour here, so that no batch is left half done.)
OnRead(c, b) ==
    /\ mainPc = "loop"
    /\ Len(reqs) + Len(b) <= MaxReqs
    /\ IsOpen(c)
    /\ mainPc' = "read"
    /\ curConn' = c
    /\ pending' = b
    /\ UNCHANGED <<connVars, pushTo, reqs, workVars, responses, out, exitVars, poolVars>>

OnReadReturns ==
    /\ mainPc = "read"
    /\ pending = <<>>
    /\ mainPc' = "loop"
    /\ curConn' = 0
    /\ UNCHANGED <<connVars, pending, pushTo, reqs, workVars, responses, out, exitVars, poolVars>>

\* A heartbeat, or a command HandlerMapManager has no handler for.
HandleIgnored ==
    /\ mainPc = "read"
    /\ pending # <<>> /\ Head(pending) = "ignored"
    /\ pending' = Tail(pending)
    /\ UNCHANGED <<connVars, mainPc, curConn, pushTo, reqs, workVars, responses, out, exitVars,
                   poolVars>>

\* IsPduAvailable throws: OnRead closes the connection and drops the rest.
HandleBroken ==
    /\ mainPc = "read"
    /\ pending # <<>> /\ Head(pending) = "broken"
    /\ Close(curConn)
    /\ pending' = <<>>
    /\ UNCHANGED <<mainPc, curConn, pushTo, reqs, workVars, responses, out, exitVars, poolVars>>

\* HandlePduBuf makes a ProxyTask and AddTask draws the worker.
AddTask(w) ==
    /\ mainPc = "read"
    /\ pending # <<>> /\ Head(pending) \notin {"ignored", "broken"}
    /\ pushTo = 0
    /\ pushTo' = w
    /\ UNCHANGED <<connVars, mainPc, curConn, pending, reqs, workVars, responses, out, exitVars,
                   poolVars>>

\* A worker that runs a task holds its mutex_.
HoldsMutex(w) == wpc[w] \in {"run", "db", "respond"}

\* Mutant: push_back without notify_one.
NotifyWorker_Never(w) == wpc

\* notEmpty_.notify_one(): only the worker itself ever waits on it.
NotifyWorker(w) == IF wpc[w] = "wait" THEN [wpc EXCEPT ![w] = "lock"] ELSE wpc

NewTask == [uuid |-> conn[curConn].uuid, req |-> Len(reqs) + 1]

PushTask ==
    /\ mainPc = "read"
    /\ pushTo # 0
    /\ ~HoldsMutex(pushTo)
    /\ reqs' = Append(reqs, [kind |-> Head(pending), conn |-> curConn, worker |-> pushTo])
    /\ taskList' = [taskList EXCEPT ![pushTo] = Append(@, NewTask)]
    /\ wpc' = NotifyWorker(pushTo)
    /\ pending' = Tail(pending)
    /\ pushTo' = 0
    /\ UNCHANGED <<connVars, mainPc, curConn, task, responses, out, exitVars, poolVars>>

-----------------------------------------------------------------------------
\* A worker: WorkThread::RunInThread and the business handlers.

\* while (started_)
CheckStarted(w) ==
    /\ wpc[w] = "check"
    /\ wpc' = [wpc EXCEPT ![w] = IF started[w] THEN "lock" ELSE "done"]
    /\ UNCHANGED <<connVars, mainPc, readVars, reqs, taskList, task, responses, out, exitVars,
                   poolVars>>

WaitForTask(w) ==
    /\ wpc[w] = "lock"
    /\ taskList[w] = <<>>
    /\ wpc' = [wpc EXCEPT ![w] = "wait"]
    /\ UNCHANGED <<connVars, mainPc, readVars, reqs, taskList, task, responses, out, exitVars,
                   poolVars>>

SpuriousTaskWakeup(w) ==
    /\ wpc[w] = "wait"
    /\ wpc' = [wpc EXCEPT ![w] = "lock"]
    /\ UNCHANGED <<connVars, mainPc, readVars, reqs, taskList, task, responses, out, exitVars,
                   poolVars>>

\* Mutant: the task is left on the list.
PopTask_Keeps(w) == taskList

PopTask(w) == [taskList EXCEPT ![w] = Tail(@)]

TakeTask(w) ==
    /\ wpc[w] = "lock"
    /\ taskList[w] # <<>>
    /\ task' = [task EXCEPT ![w] = Head(taskList[w])]
    /\ taskList' = PopTask(w)
    /\ wpc' = [wpc EXCEPT ![w] = "run"]
    /\ UNCHANGED <<connVars, mainPc, readVars, reqs, responses, out, exitVars, poolVars>>

TaskKind(w) == reqs[task[w].req].kind

\* The part of a handler's step that leaves everything but the worker alone.
WorkerMoves(w, pc) ==
    /\ wpc' = [wpc EXCEPT ![w] = pc]
    /\ UNCHANGED <<connVars, mainPc, readVars, reqs, taskList, task, responses, out, exitVars>>

\* DoLogin and GetAllUser parsed the body and ask for a DBConn.
StartQuery(w) ==
    /\ wpc[w] = "run"
    /\ TaskKind(w) \in {"login", "allUser"}
    /\ RequestDBConn(w)
    /\ WorkerMoves(w, "db")

\* ProcessSessionMsg echoes the PDU; DoLogin answers code 2 to a bad body.
AnswerAtOnce(w) ==
    /\ wpc[w] = "run"
    /\ TaskKind(w) \in {"msg", "badLogin"}
    /\ WorkerMoves(w, "respond")
    /\ UNCHANGED poolVars

\* GetAllUser drops a request it cannot parse: nothing is answered.
DropAllUser(w) ==
    /\ wpc[w] = "run"
    /\ TaskKind(w) = "badAllUser"
    /\ task' = [task EXCEPT ![w] = NoTask]
    /\ wpc' = [wpc EXCEPT ![w] = "check"]
    /\ UNCHANGED <<connVars, mainPc, readVars, reqs, taskList, responses, out, exitVars, poolVars>>

\* One step inside DBManager::GetDBConn.
QueryGets(w) ==
    /\ wpc[w] = "db"
    /\ GetDBConn(w)
    /\ WorkerMoves(w, "db")

SpuriousDbWakeup(w) ==
    /\ wpc[w] = "db"
    /\ SpuriousWakeup(w)
    /\ WorkerMoves(w, "db")

\* Mutant: a handler returns without giving its DBConn back.
QueryEnds_Leaks(w) ==
    /\ wpc[w] = "db"
    /\ dbPc[w] \in {"use", "null"}
    /\ dbPc' = [dbPc EXCEPT ![w] = "idle"]
    /\ dbConn' = [dbConn EXCEPT ![w] = NoConn]
    /\ UNCHANGED <<freeList, curDbConnCnt>>
    /\ WorkerMoves(w, "respond")

\* The query is done, or there was no DBConn (Z_CHECK): both answer.
QueryEnds(w) ==
    /\ wpc[w] = "db"
    /\ ReleaseDBConn(w) \/ GiveUp(w)
    /\ WorkerMoves(w, "respond")

\* Mutant: an answer overtakes the ones queued before it.
QueueResponse_Front(r) == <<r>> \o responses

QueueResponse(r) == Append(responses, r)

\* AddResponsePdu takes ProxyConn::mutex_, which the main thread holds
\* throughout SendResponsePduList.
AddResponsePdu(w) ==
    /\ wpc[w] = "respond"
    /\ mainPc \in {"loop", "read"}
    /\ responses' = QueueResponse(task[w])
    /\ task' = [task EXCEPT ![w] = NoTask]
    /\ wpc' = [wpc EXCEPT ![w] = "check"]
    /\ UNCHANGED <<connVars, mainPc, readVars, reqs, taskList, out, exitVars, poolVars>>

\* response_pdu_list_ is destroyed before g_thread_pool (it is defined after
\* it), so a push during exit goes to a dead list: it is lost or the process
\* crashes.
AddResponseLate(w) ==
    /\ wpc[w] = "respond"
    /\ mainPc \in {"stop", "join"}
    /\ mainPc' \in {mainPc, "crashed"}
    /\ task' = [task EXCEPT ![w] = NoTask]
    /\ wpc' = [wpc EXCEPT ![w] = "check"]
    /\ UNCHANGED <<connVars, readVars, reqs, taskList, responses, out, exitVars, poolVars>>

-----------------------------------------------------------------------------
\* The main thread: SendResponsePduList, run by the loop callback.  A NULL
\* PDU, for which it would close the connection, is never queued: HandlePduBuf
\* uses every PDU it makes a task of.

StartDrain ==
    /\ mainPc = "loop"
    /\ responses # <<>>
    /\ mainPc' = "drain"
    /\ UNCHANGED <<connVars, readVars, reqs, workVars, responses, out, exitVars, poolVars>>

\* get_proxy_conn_by_uuid, then SendPdu on that connection's handle: the
\* bytes reach whichever open connection has the handle now.
Receiver(uuid) ==
    LET c == uuidMap[uuid] IN IF c = 0 THEN 0 ELSE connMap[conn[c].handle]

SendResponse ==
    LET r == Head(responses)
        c == Receiver(r.uuid)
    IN  /\ mainPc = "drain"
        /\ responses # <<>>
        /\ out' = IF c = 0 THEN out ELSE [out EXCEPT ![c] = Append(@, r.req)]
        /\ responses' = Tail(responses)
        /\ UNCHANGED <<connVars, mainPc, readVars, reqs, workVars, exitVars, poolVars>>

EndDrain ==
    /\ mainPc = "drain"
    /\ responses = <<>>
    /\ mainPc' = "loop"
    /\ UNCHANGED <<connVars, readVars, reqs, workVars, responses, out, exitVars, poolVars>>

-----------------------------------------------------------------------------
\* SIGTERM and exit.

\* sig_handler registers the 4 s exit timer.
SigTerm ==
    /\ ~sigterm
    /\ mainPc \in {"loop", "read", "drain"}
    /\ sigterm' = TRUE
    /\ UNCHANGED <<connVars, mainPc, readVars, reqs, workVars, responses, out, started, stopping,
                   poolVars>>

\* exit_callback: exit(0) destroys response_pdu_list_, then g_thread_pool.
ExitCallback ==
    /\ mainPc = "loop"
    /\ sigterm
    /\ mainPc' = "stop"
    /\ stopping' = 1
    /\ responses' = <<>>
    /\ UNCHANGED <<connVars, readVars, reqs, workVars, out, started, sigterm, poolVars>>

\* ~WorkThread calls Stop: clear started_ ...
StopWorker ==
    /\ mainPc = "stop"
    /\ started' = [started EXCEPT ![stopping] = FALSE]
    /\ mainPc' = "join"
    /\ UNCHANGED <<connVars, readVars, reqs, workVars, responses, out, sigterm, stopping, poolVars>>

\* ... and join.  Nothing notifies notEmpty_.
JoinWorker ==
    /\ mainPc = "join"
    /\ wpc[stopping] = "done"
    /\ \/ stopping < NumThreads /\ stopping' = stopping + 1 /\ mainPc' = "stop"
       \/ stopping = NumThreads /\ stopping' = stopping /\ mainPc' = "exited"
    /\ UNCHANGED <<connVars, readVars, reqs, workVars, responses, out, started, sigterm, poolVars>>

-----------------------------------------------------------------------------
Alive == mainPc \notin {"exited", "crashed"}

MainStep ==
    \/ OnReadReturns
    \/ HandleIgnored
    \/ HandleBroken
    \/ \E w \in Workers : AddTask(w)
    \/ PushTask
    \/ StartDrain
    \/ SendResponse
    \/ EndDrain
    \/ ExitCallback
    \/ StopWorker
    \/ JoinWorker

WorkerStep(w) ==
    \/ CheckStarted(w)
    \/ WaitForTask(w)
    \/ TakeTask(w)
    \/ StartQuery(w)
    \/ AnswerAtOnce(w)
    \/ DropAllUser(w)
    \/ QueryGets(w)
    \/ QueryEnds(w)
    \/ AddResponsePdu(w)
    \/ AddResponseLate(w)

ProxyNext ==
    \/ \E h \in Handles : Accept(h)
    \/ \E c \in Conns : CloseConn(c) \/ \E b \in Batches : OnRead(c, b)
    \/ MainStep
    \/ SigTerm
    \/ /\ Alive
       /\ \E w \in Workers : WorkerStep(w) \/ SpuriousTaskWakeup(w) \/ SpuriousDbWakeup(w)

ProxySpec == ProxyInit /\ [][ProxyNext]_proxyVars

\* The operating system schedules the main thread and every worker, and
\* std::mutex is granted to a thread that keeps asking while others let go.
ProxyFairness ==
    /\ WF_proxyVars(MainStep)
    /\ \A w \in Workers : WF_proxyVars(Alive /\ WorkerStep(w))

ProxyFairSpec == ProxySpec /\ ProxyFairness

-----------------------------------------------------------------------------
\* An answer is written only to the connection that asked, although the
\* handle of a closed connection is reused while its requests are still with
\* the workers ("the socket's handle may repeat, so a uuid names the
\* connection", proxy_conn.h): as long as uuid_alloctor_ has not wrapped.
ReplyToAsker ==
    accepted < UuidSpace =>
        \A c \in Conns : \A i \in DOMAIN out[c] : reqs[out[c][i]].conn = c

\* A request is in one place at a time, so it is run once and answered at
\* most once, by whatever worker it was drawn for.
HandledOnce ==
    LET queued == {<<"queued", w, i>> : w \in Workers, i \in 1..MaxReqs}
        running == {<<"running", w, 0>> : w \in Workers}
        answered == {<<"answered", 0, i>> : i \in 1..MaxReqs}
        sent == {<<"sent", c, i>> : c \in Conns, i \in 1..MaxReqs}
        At(p, r) ==
            \/ p[1] = "queued" /\ p[3] \in DOMAIN taskList[p[2]] /\ taskList[p[2]][p[3]].req = r
            \/ p[1] = "running" /\ task[p[2]].req = r
            \/ p[1] = "answered" /\ p[3] \in DOMAIN responses /\ responses[p[3]].req = r
            \/ p[1] = "sent" /\ p[3] \in DOMAIN out[p[2]] /\ out[p[2]][p[3]] = r
    IN  \A r \in DOMAIN reqs :
            Cardinality({p \in queued \cup running \cup answered \cup sent : At(p, r)}) <= 1

\* Two requests of one connection that were drawn for the same worker are
\* answered in the order they arrived (different workers may reorder them).
SameWorkerInOrder ==
    \A c \in Conns : \A i, j \in DOMAIN out[c] :
        /\ i < j
        /\ reqs[out[c][i]].worker = reqs[out[c][j]].worker
        => out[c][i] < out[c][j]

\* A worker never sleeps on notEmpty_ while it has a task.
NoTaskAsleep ==
    \A w \in Workers : wpc[w] = "wait" => taskList[w] = <<>>

Asked(r) == r \in DOMAIN reqs /\ reqs[r].kind # "badAllUser"

Settled(r) ==
    /\ r \in DOMAIN reqs
    /\ LET c == reqs[r].conn IN
       \/ \E i \in DOMAIN out[c] : out[c][i] = r
       \/ ~IsOpen(c)

\* Every request handed to a worker is answered, unless its connection closes
\* first or the server exits: nobody waits for ever, neither the main thread
\* for a busy worker nor a worker for a DBConn.
Answered == \A r \in 1..MaxReqs : Asked(r) ~> (Settled(r) \/ sigterm)

\* "Used to close gracefully" (the comment on exit_callback): once SIGTERM's
\* timer has called exit, the process ends.
ExitCompletes == mainPc = "stop" ~> mainPc = "exited"
=============================================================================
