---------------------------- MODULE WorkerQueues ----------------------------
(***************************************************************************)
(* The threads that wait for work in a queue of their own and are stopped  *)
(* by a flag: the Logger of the servers and that of the client, HttpThread *)
(* and OperationManager of the client, and EventLoopThread, which waits in *)
(* poll.  They differ in who holds which mutex while it looks at the queue *)
(* and in what is done with a queue that is not empty when they stop.      *)
(***************************************************************************)
EXTENDS Integers, Sequences, Functions

CONSTANTS
    WorkerKinds,   \* subset of {"logger", "client_logger", "http", "operation", "eventloop"}
    RollSize,      \* rollSize_ of a Logger, in logs
    MaxTasks,      \* bound: tasks that are queued
    MaxSeconds     \* bound: seconds that pass

ASSUME WorkerQueuesAssumption ==
    /\ WorkerKinds \subseteq {"logger", "client_logger", "http", "operation", "eventloop"}
    /\ {RollSize, MaxTasks, MaxSeconds} \subseteq Nat

Loggers == {"logger", "client_logger"}
Monitors == Loggers \cup {"http"}

VARIABLES
    kind,      \* which of the threads this is
    pc,        \* where the worker is
    locked,    \* the worker holds the mutex that a push takes
    queue,     \* queue_, lstHttpOperations_, realtimeOperations_, pendingFunctors_
    pushed,    \* all that was queued, in the order of its turn
    done,      \* what the worker has written or processed, in order
    woken,     \* a notify_one (or the eventfd) has been seen by the waiting worker
    exit,      \* exit_, !started_, !running_, quit_
    stop,      \* how far Stop, Shutdown or ~EventLoopThread has come
    now,       \* the second, which names a log file
    log        \* the files by their second, which is open, how much is in it, one opened twice

workerVars == <<kind, pc, locked, queue, pushed, done, woken, exit, stop, now, log>>

WorkerInit ==
    /\ kind \in WorkerKinds
    /\ pc = IF kind = "eventloop" THEN "init" ELSE "top"
    /\ locked = FALSE /\ queue = <<>> /\ pushed = <<>> /\ done = <<>>
    /\ woken = FALSE /\ exit = FALSE /\ stop = "no" /\ now = 0
    /\ log = [files |-> [s \in 0..MaxSeconds |-> {}], open |-> 0, size |-> 0, twice |-> FALSE]

Others == <<kind, pushed, stop, now>>

-----------------------------------------------------------------------------
\* The worker.

\* EventLoop::loop starts with quit_ = false, after the loop was published.
LoopInit ==
    /\ pc = "init"
    /\ pc' = "top" /\ exit' = FALSE
    /\ UNCHANGED <<locked, queue, done, woken, log, Others>>

\* while (!exit_), and the mutex: that of the queue, or the operation thread's
\* own, which a push does not take.
Top ==
    /\ pc = "top"
    /\ pc' = IF exit THEN "end" ELSE IF kind \in Monitors THEN "lock" ELSE "check"
    /\ UNCHANGED <<locked, queue, done, woken, exit, log, Others>>

Lock ==
    /\ pc = "lock" /\ pc' = "check"
    /\ locked' = TRUE
    /\ UNCHANGED <<queue, done, woken, exit, log, Others>>

\* Mutant: the worker lets go of the mutex before it waits.
Check_Unlocks ==
    /\ pc = "check"
    /\ pc' = IF queue = <<>> THEN "empty" ELSE "take"
    /\ locked' = (locked /\ queue # <<>>)
    /\ UNCHANGED <<queue, done, woken, exit, log, Others>>

\* while (queue.empty()).
Check ==
    /\ pc = "check"
    /\ pc' = IF queue = <<>> THEN "empty" ELSE "take"
    /\ UNCHANGED <<locked, queue, done, woken, exit, log, Others>>

\* if (exit_) return; poll does not ask.
Empty ==
    /\ pc = "empty"
    /\ IF exit /\ kind # "eventloop" THEN pc' = "end" /\ locked' = FALSE
       ELSE pc' = "sleep" /\ UNCHANGED locked
    /\ UNCHANGED <<queue, done, woken, exit, log, Others>>

\* cv_.wait lets go of the mutex and waits; the eventfd keeps what was written to it.
Sleep ==
    /\ pc = "sleep" /\ pc' = "wait"
    /\ locked' = FALSE
    /\ woken' = (woken /\ kind = "eventloop")
    /\ UNCHANGED <<queue, done, exit, log, Others>>

\* notify_one, or a wakeup for nothing, and the mutex again; poll goes on to
\* doPendingFunctors and the test of quit_.
WakeUp ==
    /\ pc = "wait"
    /\ woken' = FALSE
    /\ IF kind = "eventloop" THEN pc' = "take" /\ UNCHANGED locked
       ELSE pc' = "check" /\ locked' = (kind \in Monitors)
    /\ UNCHANGED <<queue, done, exit, log, Others>>

\* fopen with "wt+" of the file of this second.
Open(l) == [l EXCEPT !.open = now, !.size = 0, !.files[now] = {},
                     !.twice = @ \/ l.files[now] # {}]

\* A log goes to the file, after a roll when that is over rollSize_.
Written(l, task) ==
    LET m == IF l.size > RollSize THEN Open(l) ELSE l IN
    [m EXCEPT !.files[m.open] = @ \cup {task}, !.size = @ + 1]

\* A Logger writes the first log and pops it.
WriteFirst ==
    /\ log' = Written(log, Head(queue))
    /\ done' = Append(done, Head(queue)) /\ queue' = Tail(queue)

\* The thread unlocks at the end of the turn.
TakeLog ==
    /\ kind \in Loggers /\ pc = "take"
    /\ WriteFirst
    /\ pc' = "top" /\ locked' = FALSE
    /\ UNCHANGED <<woken, exit, Others>>

\* HttpThread and the operation thread pop; the latter asks running_ first.
TakeOperation ==
    /\ kind \in {"http", "operation"} /\ pc = "take"
    /\ IF kind = "operation" /\ exit THEN pc' = "end" /\ UNCHANGED queue
       ELSE pc' = "process" /\ queue' = Tail(queue)
    /\ UNCHANGED <<locked, done, woken, exit, log, Others>>

\* Process: HttpThread holds the mutex all the while; the operation thread asks
\* running_ once more.
Process ==
    LET task == CHOOSE t \in Range(pushed) : t \notin Range(done) /\ t \notin Range(queue) IN
    /\ pc = "process" /\ locked' = FALSE
    /\ IF kind = "operation" /\ exit THEN pc' = "end" /\ UNCHANGED done
       ELSE pc' = "top" /\ done' = Append(done, task)
    /\ UNCHANGED <<queue, woken, exit, log, Others>>

\* doPendingFunctors.
DoPending ==
    /\ kind = "eventloop" /\ pc = "take"
    /\ done' = done \o queue /\ queue' = <<>> /\ pc' = "top"
    /\ UNCHANGED <<locked, woken, exit, log, Others>>

-----------------------------------------------------------------------------
\* The others.

\* notify_one: only who waits is woken; a write to the eventfd stays there.
Notify == woken' = (woken \/ pc = "wait" \/ kind = "eventloop")

\* A new task, which becomes what is queued, under the mutex of the queue.
\* (Nobody takes what is pushed after Stop has returned: left out here.)
Push(task, tasks) ==
    /\ Len(pushed) < MaxTasks /\ ~locked /\ stop # "done"
    /\ queue' = tasks
    /\ pushed' = Append(pushed, task)
    /\ Notify
    /\ UNCHANGED <<kind, pc, locked, done, exit, stop, now, log>>

NewTask == Len(pushed) + 1

AddToQueue == kind \in Loggers /\ Push(NewTask, Append(queue, NewTask))

\* HttpThread::PushHttpOperation, for an urgent operation in front.
PushHttpOperation(front) ==
    /\ kind = "http"
    /\ Push(NewTask, IF front THEN <<NewTask>> \o queue ELSE Append(queue, NewTask))

\* Pushed under operationMutex_; the thread waits under cvMutex_.
StartOperation == kind = "operation" /\ Push(NewTask, Append(queue, NewTask))

QueueFunctor == kind = "eventloop" /\ Push(NewTask, Append(queue, NewTask))

\* Stop: the flag, without the mutex.
StopFlag ==
    /\ stop = "no" /\ stop' = "notify"
    /\ exit' = TRUE
    /\ UNCHANGED <<kind, pc, locked, queue, pushed, done, woken, now, log>>

\* Mutant: only the flag.
StopNotify_Not ==
    /\ stop = "notify" /\ stop' = "join"
    /\ UNCHANGED <<kind, pc, locked, queue, pushed, done, woken, exit, now, log>>

StopNotify ==
    /\ stop = "notify" /\ stop' = "join"
    /\ Notify
    /\ UNCHANGED <<kind, pc, locked, queue, pushed, done, exit, now, log>>

\* Mutant: the servers' Logger leaves what is queued, as the client's does.
StopJoin_NoDrain ==
    /\ stop = "join" /\ pc = "end" /\ stop' = "done"
    /\ queue' = IF kind \in {"http", "operation"} THEN <<>> ELSE queue
    /\ UNCHANGED <<kind, pc, locked, pushed, done, woken, exit, now, log>>

\* join, and what is left: a server's Logger goes on to write it, the client's
\* leaves it, HttpThread and OperationManager clear it.
StopJoin ==
    /\ stop = "join" /\ pc = "end"
    /\ stop' = IF kind = "logger" THEN "drain" ELSE "done"
    /\ queue' = IF kind \in {"http", "operation"} THEN <<>> ELSE queue
    /\ UNCHANGED <<kind, pc, locked, pushed, done, woken, exit, now, log>>

\* while (!queue_.empty()), without the mutex: a log that is queued meanwhile
\* races with the loop and is seen by it or lost, and then it counts as never
\* pushed.
StopDrain ==
    /\ stop = "drain"
    /\ IF queue = <<>> THEN stop' = "done" /\ UNCHANGED <<log, done, queue>>
       ELSE WriteFirst /\ UNCHANGED stop
    /\ UNCHANGED <<kind, pc, locked, pushed, woken, exit, now>>

Second ==
    /\ kind \in Loggers /\ now < MaxSeconds /\ now' = now + 1
    /\ UNCHANGED <<kind, pc, locked, queue, pushed, done, woken, exit, stop, log>>

-----------------------------------------------------------------------------
WorkerStep ==
    LoopInit \/ Top \/ Lock \/ Check \/ Empty \/ Sleep \/ TakeLog \/ TakeOperation \/ Process \/ DoPending

WorkerNext ==
    \/ WorkerStep \/ WakeUp
    \/ AddToQueue \/ StartOperation \/ QueueFunctor
    \/ \E front \in BOOLEAN : PushHttpOperation(front)
    \/ StopFlag \/ StopNotify \/ StopJoin \/ StopDrain
    \/ Second

WorkerSpec == WorkerInit /\ [][WorkerNext]_workerVars

\* The threads run; who was notified wakes up.
WorkerFairness ==
    /\ WF_workerVars(WorkerStep) /\ WF_workerVars(woken /\ WakeUp)
    /\ WF_workerVars(StopNotify) /\ WF_workerVars(StopJoin) /\ WF_workerVars(StopDrain)

WorkerFairSpec == WorkerSpec /\ WorkerFairness

-----------------------------------------------------------------------------
\* A thread whose queue is pushed to under the mutex it waits with never sleeps
\* on a task (the operation thread, which waits with another, may).
WorkerWakes ==
    kind \in Monitors \cup {"eventloop"} /\ pc = "wait" /\ ~woken => queue = <<>>

\* Logs are written once and in order, and once Stop of a server's Logger has
\* returned all of them; they are in the files, unless two rolls in one second
\* opened the same file, which empties it.
LogsKept ==
    kind \in Loggers =>
        /\ done \o queue = pushed
        /\ kind = "logger" /\ stop = "done" => done = pushed
        /\ ~log.twice => UNION Range(log.files) = Range(done)

\* Stop returns, but for one case: the flag and the notify both fall between the
\* worker's last look at the flag and its wait (or before the loop resets it).
StopReturns ==
    (stop = "join" /\ exit /\ pc # "init" /\ (pc \in {"sleep", "wait"} => woken)) ~> stop = "done"

\* "operations that are handled in real time" (operation_manager.h:38): the
\* operation thread takes what is queued, though nothing is queued after it.
OperationsRun == kind = "operation" /\ queue # <<>> ~> queue = <<>> \/ exit
=============================================================================
