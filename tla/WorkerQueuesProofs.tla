------------------------- MODULE WorkerQueuesProofs -------------------------
(***************************************************************************)
(* The threads with a queue, for any number of tasks and any length of a   *)
(* run: none sleeps on a task that was pushed under its mutex, and a       *)
(* Logger writes every log once, in order and to the end.                  *)
(***************************************************************************)
EXTENDS WorkerQueues, TLAPS

-----------------------------------------------------------------------------
\* The inductive invariant.

Pcs == {"init", "top", "lock", "check", "empty", "sleep", "wait", "take", "process", "end"}
Stops == {"no", "notify", "join", "drain", "done"}
Logs == [files : [0..MaxSeconds -> SUBSET Nat], open : 0..MaxSeconds, size : Nat, twice : BOOLEAN]

WorkerTypeOK ==
    /\ kind \in WorkerKinds /\ pc \in Pcs /\ stop \in Stops
    /\ locked \in BOOLEAN /\ woken \in BOOLEAN /\ exit \in BOOLEAN
    /\ queue \in Seq(Nat) /\ pushed \in Seq(Nat)
    /\ now \in 0..MaxSeconds /\ log \in Logs

\* A thread that waits with the mutex of its queue holds it from the look at the
\* queue to the wait or the end of the turn, so that what it has seen stays so.
SeenUnderMutex ==
    kind \in Monitors =>
        /\ locked <=> pc \in {"check", "empty", "sleep", "take", "process"}
        /\ pc \in {"empty", "sleep"} => queue = <<>>
        /\ pc = "wait" /\ ~woken => queue = <<>>

\* What the thread takes is there: only the thread itself shortens the queue.
TakenIsThere == kind # "eventloop" /\ pc = "take" => queue # <<>>

\* The eventfd stays readable until the functors are called.
WokenForFunctors == kind = "eventloop" /\ queue # <<>> => woken \/ pc = "take"

\* Stop goes on after the thread has ended.
JoinedAtEnd ==
    /\ stop \in {"drain", "done"} => pc = "end"
    /\ stop = "drain" => kind = "logger"

\* A log is in the queue or written.
LogsInOrder ==
    kind \in Loggers =>
        /\ pc # "process" /\ done \in Seq(Nat) /\ done \o queue = pushed
        /\ kind = "logger" /\ stop = "done" => queue = <<>>
        /\ ~log.twice => UNION Range(log.files) = Range(done)

WorkerInv ==
    /\ WorkerTypeOK /\ SeenUnderMutex /\ TakenIsThere
    /\ WokenForFunctors /\ JoinedAtEnd /\ LogsInOrder

-----------------------------------------------------------------------------
\* The constants, one by one.
LEMMA Sizes == RollSize \in Nat /\ MaxTasks \in Nat /\ MaxSeconds \in Nat
BY WorkerQueuesAssumption

\* Sequences: the first of one goes to the end of another.
LEMMA FirstMoved ==
    ASSUME NEW d \in Seq(Nat), NEW q \in Seq(Nat), q # <<>>
    PROVE  /\ Head(q) \in Nat /\ Tail(q) \in Seq(Nat) /\ Append(d, Head(q)) \in Seq(Nat)
           /\ Append(d, Head(q)) \o Tail(q) = d \o q
<1>1. Head(q) \in Nat /\ Tail(q) \in Seq(Nat) /\ Append(d, Head(q)) \in Seq(Nat)
  OBVIOUS
<1>2. Append(d, Head(q)) \o Tail(q) = d \o q
  OBVIOUS
<1>. QED
  BY <1>1, <1>2

\* A task that is pushed comes behind all the others.
LEMMA PushedLast ==
    ASSUME NEW d \in Seq(Nat), NEW q \in Seq(Nat), NEW t \in Nat
    PROVE  d \o Append(q, t) = Append(d \o q, t)
OBVIOUS

\* It is in the queue, whichever end it is pushed at.
LEMMA PushedThere ==
    ASSUME NEW q \in Seq(Nat), NEW t \in Nat
    PROVE  Append(q, t) # <<>> /\ <<t>> \o q # <<>>
<1>1. Len(Append(q, t)) = Len(q) + 1 /\ Len(<<t>> \o q) = 1 + Len(q) /\ Len(q) \in Nat /\ Len(<<>>) = 0
  OBVIOUS
<1>. QED
  BY <1>1

\* What an appended sequence holds.
LEMMA RangeOfAppend ==
    ASSUME NEW d \in Seq(Nat), NEW t \in Nat
    PROVE  Range(Append(d, t)) = Range(d) \cup {t}
<1>1. DOMAIN Append(d, t) = 1..(Len(d) + 1) /\ DOMAIN d = 1..Len(d) /\ Len(d) \in Nat
  OBVIOUS
<1>2. \A i \in 1..Len(d) : Append(d, t)[i] = d[i]
  OBVIOUS
<1>3. Append(d, t)[Len(d) + 1] = t
  OBVIOUS
<1>. QED
  BY <1>1, <1>2, <1>3 DEF Range

\* A set added to one file is added to what is in the files.
LEMMA FileAddedTo ==
    ASSUME NEW S, NEW f \in [S -> SUBSET Nat], NEW i \in S, NEW t \in Nat,
           NEW g \in [S -> SUBSET Nat], g[i] = f[i] \cup {t}, \A j \in S \ {i} : g[j] = f[j]
    PROVE  UNION Range(g) = (UNION Range(f)) \cup {t}
<1>1. \A x : x \in UNION Range(g) <=> \E j \in S : x \in g[j]
  BY DEF Range
<1>2. \A x : x \in UNION Range(f) <=> \E j \in S : x \in f[j]
  BY DEF Range
<1>3. \A x : x \in UNION Range(g) <=> x \in (UNION Range(f)) \cup {t}
  BY <1>1, <1>2
<1>. QED
  BY <1>3

\* A log that is written is in the files, with all that were there, unless a roll
\* opened a file twice.
LEMMA WrittenIs ==
    ASSUME log \in Logs, now \in 0..MaxSeconds, NEW t \in Nat
    PROVE  /\ Written(log, t) \in Logs
           /\ ~Written(log, t).twice =>
                  ~log.twice /\ UNION Range(Written(log, t).files) = (UNION Range(log.files)) \cup {t}
<1>. DEFINE m == IF log.size > RollSize THEN Open(log) ELSE log
<1>1. m \in Logs
  BY DEF Logs, Open
<1>2. ~m.twice => ~log.twice /\ m.files = log.files
  <2>1. CASE log.size > RollSize
    <3>1. m = [log EXCEPT !.open = now, !.size = 0, !.files[now] = {}, !.twice = @ \/ log.files[now] # {}]
      BY <2>1 DEF Open
    <3>2. m.twice = (log.twice \/ log.files[now] # {})
      BY <3>1 DEF Logs
    <3>3. m.files = [log.files EXCEPT ![now] = {}]
      BY <3>1 DEF Logs
    <3>4. log.files \in [0..MaxSeconds -> SUBSET Nat]
      BY DEF Logs
    <3>5. log.files[now] = {} => m.files = log.files
      BY <3>3, <3>4
    <3>. HIDE DEF m
    <3>. QED
      BY <3>2, <3>5
  <2>2. CASE ~(log.size > RollSize)
    BY <2>2
  <2>. QED
    BY <2>1, <2>2
<1>3. Written(log, t) = [m EXCEPT !.files[m.open] = @ \cup {t}, !.size = @ + 1]
  BY DEF Written
<1>. HIDE DEF m
<1>4. m.files \in [0..MaxSeconds -> SUBSET Nat] /\ m.open \in 0..MaxSeconds /\ m.size \in Nat /\ m.twice \in BOOLEAN
  BY <1>1 DEF Logs
<1>5. /\ Written(log, t).files = [m.files EXCEPT ![m.open] = @ \cup {t}]
      /\ Written(log, t).twice = m.twice
  BY <1>1, <1>3 DEF Logs
<1>. DEFINE f == m.files
<1>. DEFINE o == m.open
<1>. DEFINE g == [f EXCEPT ![o] = @ \cup {t}]
<1>6. g \in [0..MaxSeconds -> SUBSET Nat] /\ UNION Range(g) = (UNION Range(f)) \cup {t}
  <2>. DEFINE S == 0..MaxSeconds
  <2>1. f \in [S -> SUBSET Nat] /\ o \in S
    BY <1>4
  <2>. HIDE DEF f, o, S
  <2>2. g \in [S -> SUBSET Nat] /\ g[o] = f[o] \cup {t} /\ \A j \in S \ {o} : g[j] = f[j]
    BY <2>1
  <2>. HIDE DEF g
  <2>3. UNION Range(g) = (UNION Range(f)) \cup {t}
    BY <2>1, <2>2, FileAddedTo
  <2>. QED
    BY <2>2, <2>3 DEF S
<1>7. Written(log, t).files = g /\ Written(log, t) = [m EXCEPT !.files = g, !.size = m.size + 1]
  BY <1>3, <1>5
<1>8. Written(log, t) \in Logs
  <2>. DEFINE F == [0..MaxSeconds -> SUBSET Nat]
  <2>. DEFINE S == 0..MaxSeconds
  <2>. DEFINE N == Nat
  <2>. DEFINE B == BOOLEAN
  <2>. DEFINE n == m.size + 1
  <2>1. m \in [files : F, open : S, size : N, twice : B] /\ g \in F /\ n \in N
    BY <1>1, <1>4, <1>6 DEF Logs
  <2>2. Written(log, t) = [m EXCEPT !.files = g, !.size = n]
    BY <1>7
  <2>. HIDE DEF F, S, N, B, n, g
  <2>3. Written(log, t) \in [files : F, open : S, size : N, twice : B]
    BY <2>1, <2>2
  <2>. QED
    BY <2>3 DEF Logs, F, S, N, B
<1>. QED
  BY <1>2, <1>5, <1>6, <1>7, <1>8

\* WriteFirst keeps the logs in order.
LEMMA WriteFirstOrder ==
    ASSUME WorkerTypeOK, LogsInOrder, kind \in Loggers, queue # <<>>, WriteFirst, UNCHANGED pushed
    PROVE  /\ log' \in Logs /\ queue' \in Seq(Nat) /\ done' \in Seq(Nat)
           /\ done' \o queue' = pushed'
           /\ ~log'.twice => UNION Range(log'.files) = Range(done')
<1>1. queue \in Seq(Nat) /\ done \in Seq(Nat) /\ log \in Logs /\ now \in 0..MaxSeconds
  BY DEF WorkerTypeOK, LogsInOrder
<1>2. /\ Head(queue) \in Nat /\ queue' \in Seq(Nat) /\ done' \in Seq(Nat)
      /\ done' \o queue' = done \o queue
  BY <1>1, FirstMoved DEF WriteFirst
<1>3. Range(done') = Range(done) \cup {Head(queue)}
  BY <1>1, <1>2, RangeOfAppend DEF WriteFirst
<1>4. /\ log' \in Logs
      /\ ~log'.twice => ~log.twice /\ UNION Range(log'.files) = (UNION Range(log.files)) \cup {Head(queue)}
  BY <1>1, <1>2, WrittenIs DEF WriteFirst
<1>. QED
  BY <1>2, <1>3, <1>4 DEF LogsInOrder

-----------------------------------------------------------------------------
\* The invariant is inductive: one lemma per action.  The steps of the thread
\* that only move it.
LEMMA LoopInitInv ==
    ASSUME WorkerInv, LoopInit
    PROVE  WorkerInv'
<1>. USE DEF LoopInit, Others
<1>1. WorkerTypeOK'
  BY DEF WorkerInv, WorkerTypeOK, Pcs, Stops
<1>2. SeenUnderMutex'
  BY DEF WorkerInv, WorkerTypeOK, SeenUnderMutex, Monitors, Loggers
<1>3. TakenIsThere'
  BY DEF WorkerInv, WorkerTypeOK, TakenIsThere
<1>4. WokenForFunctors'
  BY DEF WorkerInv, WorkerTypeOK, WokenForFunctors
<1>5. JoinedAtEnd'
  BY DEF WorkerInv, WorkerTypeOK, JoinedAtEnd
<1>6. LogsInOrder'
  BY DEF WorkerInv, WorkerTypeOK, LogsInOrder, Loggers
<1>. QED
  BY <1>1, <1>2, <1>3, <1>4, <1>5, <1>6 DEF WorkerInv

LEMMA TopInv ==
    ASSUME WorkerInv, Top
    PROVE  WorkerInv'
<1>. USE DEF Top, Others
<1>1. WorkerTypeOK'
  BY DEF WorkerInv, WorkerTypeOK, Pcs, Stops
<1>2. SeenUnderMutex'
  BY DEF WorkerInv, WorkerTypeOK, SeenUnderMutex, Monitors, Loggers
<1>3. TakenIsThere'
  BY DEF WorkerInv, WorkerTypeOK, TakenIsThere
<1>4. WokenForFunctors'
  BY DEF WorkerInv, WorkerTypeOK, WokenForFunctors
<1>5. JoinedAtEnd'
  BY DEF WorkerInv, WorkerTypeOK, JoinedAtEnd
<1>6. LogsInOrder'
  BY DEF WorkerInv, WorkerTypeOK, LogsInOrder, Loggers
<1>. QED
  BY <1>1, <1>2, <1>3, <1>4, <1>5, <1>6 DEF WorkerInv

LEMMA LockInv ==
    ASSUME WorkerInv, Lock
    PROVE  WorkerInv'
<1>. USE DEF Lock, Others
<1>1. WorkerTypeOK'
  BY DEF WorkerInv, WorkerTypeOK, Pcs, Stops
<1>2. SeenUnderMutex'
  BY DEF WorkerInv, WorkerTypeOK, SeenUnderMutex, Monitors, Loggers
<1>3. TakenIsThere'
  BY DEF WorkerInv, WorkerTypeOK, TakenIsThere
<1>4. WokenForFunctors'
  BY DEF WorkerInv, WorkerTypeOK, WokenForFunctors
<1>5. JoinedAtEnd'
  BY DEF WorkerInv, WorkerTypeOK, JoinedAtEnd
<1>6. LogsInOrder'
  BY DEF WorkerInv, WorkerTypeOK, LogsInOrder, Loggers
<1>. QED
  BY <1>1, <1>2, <1>3, <1>4, <1>5, <1>6 DEF WorkerInv

LEMMA CheckInv ==
    ASSUME WorkerInv, Check
    PROVE  WorkerInv'
<1>. USE DEF Check, Others
<1>1. WorkerTypeOK'
  BY DEF WorkerInv, WorkerTypeOK, Pcs, Stops
<1>2. SeenUnderMutex'
  BY DEF WorkerInv, WorkerTypeOK, SeenUnderMutex, Monitors, Loggers
<1>3. TakenIsThere'
  BY DEF WorkerInv, WorkerTypeOK, TakenIsThere
<1>4. WokenForFunctors'
  BY DEF WorkerInv, WorkerTypeOK, WokenForFunctors
<1>5. JoinedAtEnd'
  BY DEF WorkerInv, WorkerTypeOK, JoinedAtEnd
<1>6. LogsInOrder'
  BY DEF WorkerInv, WorkerTypeOK, LogsInOrder, Loggers
<1>. QED
  BY <1>1, <1>2, <1>3, <1>4, <1>5, <1>6 DEF WorkerInv

LEMMA EmptyInv ==
    ASSUME WorkerInv, Empty
    PROVE  WorkerInv'
<1>. USE DEF Empty, Others
<1>1. WorkerTypeOK'
  BY DEF WorkerInv, WorkerTypeOK, Pcs, Stops
<1>2. SeenUnderMutex'
  BY DEF WorkerInv, WorkerTypeOK, SeenUnderMutex, Monitors, Loggers
<1>3. TakenIsThere'
  BY DEF WorkerInv, WorkerTypeOK, TakenIsThere
<1>4. WokenForFunctors'
  BY DEF WorkerInv, WorkerTypeOK, WokenForFunctors
<1>5. JoinedAtEnd'
  BY DEF WorkerInv, WorkerTypeOK, JoinedAtEnd
<1>6. LogsInOrder'
  BY DEF WorkerInv, WorkerTypeOK, LogsInOrder, Loggers
<1>. QED
  BY <1>1, <1>2, <1>3, <1>4, <1>5, <1>6 DEF WorkerInv

LEMMA SleepInv ==
    ASSUME WorkerInv, Sleep
    PROVE  WorkerInv'
<1>. USE DEF Sleep, Others
<1>1. WorkerTypeOK'
  BY DEF WorkerInv, WorkerTypeOK, Pcs, Stops
<1>2. SeenUnderMutex'
  BY DEF WorkerInv, WorkerTypeOK, SeenUnderMutex, Monitors, Loggers
<1>3. TakenIsThere'
  BY DEF WorkerInv, WorkerTypeOK, TakenIsThere
<1>4. WokenForFunctors'
  BY DEF WorkerInv, WorkerTypeOK, WokenForFunctors
<1>5. JoinedAtEnd'
  BY DEF WorkerInv, WorkerTypeOK, JoinedAtEnd
<1>6. LogsInOrder'
  BY DEF WorkerInv, WorkerTypeOK, LogsInOrder, Loggers
<1>. QED
  BY <1>1, <1>2, <1>3, <1>4, <1>5, <1>6 DEF WorkerInv

\* The waiter has the mutex again, or goes on to the functors.
LEMMA WakeUpInv ==
    ASSUME WorkerInv, WakeUp
    PROVE  WorkerInv'
<1>. USE DEF WakeUp, Others
<1>1. WorkerTypeOK'
  <2>1. locked' \in BOOLEAN
    <3>1. CASE kind = "eventloop"
      BY <3>1 DEF WorkerInv, WorkerTypeOK
    <3>2. CASE kind # "eventloop"
      <4>1. locked' = (kind \in Monitors)
        BY <3>2
      <4>. HIDE DEF WakeUp
      <4>. QED
        BY <4>1
    <3>. QED
      BY <3>1, <3>2
  <2>2. UNCHANGED <<kind, queue, pushed, exit, stop, now, log>> /\ pc' \in Pcs /\ woken' = FALSE
    BY DEF Pcs
  <2>. HIDE DEF WakeUp
  <2>. QED
    BY <2>1, <2>2 DEF WorkerInv, WorkerTypeOK
<1>2. SeenUnderMutex'
  BY DEF WorkerInv, WorkerTypeOK, SeenUnderMutex, Monitors, Loggers
<1>3. TakenIsThere'
  BY DEF WorkerInv, WorkerTypeOK, TakenIsThere
<1>4. WokenForFunctors'
  BY DEF WorkerInv, WorkerTypeOK, WokenForFunctors
<1>5. JoinedAtEnd'
  BY DEF WorkerInv, WorkerTypeOK, JoinedAtEnd
<1>6. LogsInOrder'
  BY DEF WorkerInv, WorkerTypeOK, LogsInOrder, Loggers
<1>. QED
  BY <1>1, <1>2, <1>3, <1>4, <1>5, <1>6 DEF WorkerInv

\* The steps that take what is queued: a log is written, ...
LEMMA TakeLogInv ==
    ASSUME WorkerInv, TakeLog
    PROVE  WorkerInv'
<1>. USE DEF TakeLog, Others
<1>1. WorkerTypeOK'
  BY WriteFirstOrder DEF WorkerInv, WorkerTypeOK, TakenIsThere, Pcs, Loggers
<1>2. SeenUnderMutex'
  BY DEF WorkerInv, WorkerTypeOK, SeenUnderMutex, Monitors, Loggers
<1>3. TakenIsThere'
  BY DEF WorkerInv, WorkerTypeOK, TakenIsThere
<1>4. WokenForFunctors'
  BY DEF WokenForFunctors, Loggers
<1>5. JoinedAtEnd'
  BY DEF WorkerInv, WorkerTypeOK, JoinedAtEnd
<1>6. LogsInOrder'
  BY WriteFirstOrder DEF WorkerInv, TakenIsThere, JoinedAtEnd, LogsInOrder, Loggers
<1>. QED
  BY <1>1, <1>2, <1>3, <1>4, <1>5, <1>6 DEF WorkerInv

\* ... an operation is popped ...
LEMMA TakeOperationInv ==
    ASSUME WorkerInv, TakeOperation
    PROVE  WorkerInv'
<1>. USE DEF TakeOperation, Others
<1>1. WorkerTypeOK'
  <2>1. queue \in Seq(Nat) /\ queue # <<>>
    BY DEF WorkerInv, WorkerTypeOK, TakenIsThere
  <2>2. Tail(queue) \in Seq(Nat)
    BY <2>1, FirstMoved
  <2>3. queue' \in Seq(Nat)
    BY <2>1, <2>2
  <2>. QED
    BY <2>3 DEF WorkerInv, WorkerTypeOK, Pcs
<1>2. SeenUnderMutex'
  BY DEF WorkerInv, WorkerTypeOK, SeenUnderMutex, Monitors, Loggers
<1>3. TakenIsThere'
  BY DEF WorkerInv, WorkerTypeOK, TakenIsThere
<1>4. WokenForFunctors'
  BY DEF WorkerInv, WorkerTypeOK, WokenForFunctors
<1>5. JoinedAtEnd'
  BY DEF WorkerInv, WorkerTypeOK, JoinedAtEnd
<1>6. LogsInOrder'
  BY DEF WorkerInv, WorkerTypeOK, LogsInOrder, Loggers
<1>. QED
  BY <1>1, <1>2, <1>3, <1>4, <1>5, <1>6 DEF WorkerInv

\* ... and run, ...
LEMMA ProcessInv ==
    ASSUME WorkerInv, Process
    PROVE  WorkerInv'
<1>. USE DEF Process, Others
<1>1. WorkerTypeOK'
  BY DEF WorkerInv, WorkerTypeOK, Pcs, Stops
<1>2. SeenUnderMutex'
  BY DEF WorkerInv, WorkerTypeOK, SeenUnderMutex, Monitors, Loggers
<1>3. TakenIsThere'
  BY DEF WorkerInv, WorkerTypeOK, TakenIsThere
<1>4. WokenForFunctors'
  BY DEF WorkerInv, WorkerTypeOK, WokenForFunctors
<1>5. JoinedAtEnd'
  BY DEF WorkerInv, WorkerTypeOK, JoinedAtEnd
<1>6. LogsInOrder'
  BY DEF WorkerInv, WorkerTypeOK, LogsInOrder, Loggers
<1>. QED
  BY <1>1, <1>2, <1>3, <1>4, <1>5, <1>6 DEF WorkerInv

\* ... or all functors are called.
LEMMA DoPendingInv ==
    ASSUME WorkerInv, DoPending
    PROVE  WorkerInv'
<1>. USE DEF DoPending, Others
<1>1. WorkerTypeOK'
  BY DEF WorkerInv, WorkerTypeOK, Pcs, Stops
<1>2. SeenUnderMutex'
  BY DEF WorkerInv, WorkerTypeOK, SeenUnderMutex, Monitors, Loggers
<1>3. TakenIsThere'
  BY DEF WorkerInv, WorkerTypeOK, TakenIsThere
<1>4. WokenForFunctors'
  BY DEF WorkerInv, WorkerTypeOK, WokenForFunctors
<1>5. JoinedAtEnd'
  BY DEF WorkerInv, WorkerTypeOK, JoinedAtEnd
<1>6. LogsInOrder'
  BY DEF WorkerInv, WorkerTypeOK, LogsInOrder, Loggers
<1>. QED
  BY <1>1, <1>2, <1>3, <1>4, <1>5, <1>6 DEF WorkerInv

\* The pushes: a thread between its look and its wait keeps them out, one that
\* waits is woken.
LEMMA AddToQueueInv ==
    ASSUME WorkerInv, AddToQueue
    PROVE  WorkerInv'
<1>. USE DEF AddToQueue, Push, NewTask, Notify
<1>1. WorkerTypeOK'
  BY DEF WorkerInv, WorkerTypeOK, Pcs, Stops
<1>2. SeenUnderMutex'
  BY DEF WorkerInv, WorkerTypeOK, SeenUnderMutex, Monitors, Loggers
<1>3. TakenIsThere'
  <2>1. queue \in Seq(Nat) /\ NewTask \in Nat
    BY DEF WorkerInv, WorkerTypeOK
  <2>. QED
    BY <2>1, PushedThere DEF WorkerInv, TakenIsThere
<1>4. WokenForFunctors'
  BY DEF WorkerInv, WorkerTypeOK, WokenForFunctors
<1>5. JoinedAtEnd'
  BY DEF WorkerInv, WorkerTypeOK, JoinedAtEnd
<1>6. LogsInOrder'
  <2>1. done \in Seq(Nat) /\ done \o queue = pushed
    BY DEF WorkerInv, LogsInOrder
  <2>2. queue \in Seq(Nat) /\ NewTask \in Nat
    BY DEF WorkerInv, WorkerTypeOK
  <2>3. done \o Append(queue, NewTask) = Append(pushed, NewTask)
    BY <2>1, <2>2, PushedLast
  <2>. QED
    BY <2>1, <2>3 DEF WorkerInv, LogsInOrder
<1>. QED
  BY <1>1, <1>2, <1>3, <1>4, <1>5, <1>6 DEF WorkerInv

LEMMA StartOperationInv ==
    ASSUME WorkerInv, StartOperation
    PROVE  WorkerInv'
<1>. USE DEF StartOperation, Push, NewTask, Notify
<1>1. WorkerTypeOK'
  BY DEF WorkerInv, WorkerTypeOK, Pcs, Stops
<1>2. SeenUnderMutex'
  BY DEF WorkerInv, WorkerTypeOK, SeenUnderMutex, Monitors, Loggers
<1>3. TakenIsThere'
  <2>1. queue \in Seq(Nat) /\ NewTask \in Nat
    BY DEF WorkerInv, WorkerTypeOK
  <2>. QED
    BY <2>1, PushedThere DEF WorkerInv, TakenIsThere
<1>4. WokenForFunctors'
  BY DEF WorkerInv, WorkerTypeOK, WokenForFunctors
<1>5. JoinedAtEnd'
  BY DEF WorkerInv, WorkerTypeOK, JoinedAtEnd
<1>6. LogsInOrder'
  BY DEF WorkerInv, WorkerTypeOK, LogsInOrder, Loggers
<1>. QED
  BY <1>1, <1>2, <1>3, <1>4, <1>5, <1>6 DEF WorkerInv

LEMMA QueueFunctorInv ==
    ASSUME WorkerInv, QueueFunctor
    PROVE  WorkerInv'
<1>. USE DEF QueueFunctor, Push, NewTask, Notify
<1>1. WorkerTypeOK'
  BY DEF WorkerInv, WorkerTypeOK, Pcs, Stops
<1>2. SeenUnderMutex'
  BY DEF WorkerInv, WorkerTypeOK, SeenUnderMutex, Monitors, Loggers
<1>3. TakenIsThere'
  BY DEF WorkerInv, WorkerTypeOK, TakenIsThere
<1>4. WokenForFunctors'
  BY DEF WorkerInv, WorkerTypeOK, WokenForFunctors
<1>5. JoinedAtEnd'
  BY DEF WorkerInv, WorkerTypeOK, JoinedAtEnd
<1>6. LogsInOrder'
  BY DEF WorkerInv, WorkerTypeOK, LogsInOrder, Loggers
<1>. QED
  BY <1>1, <1>2, <1>3, <1>4, <1>5, <1>6 DEF WorkerInv

LEMMA PushHttpOperationInv ==
    ASSUME WorkerInv, NEW front \in BOOLEAN, PushHttpOperation(front)
    PROVE  WorkerInv'
<1>. USE DEF PushHttpOperation, Push, NewTask, Notify
<1>1. WorkerTypeOK'
  BY DEF WorkerInv, WorkerTypeOK, Pcs, Stops
<1>2. SeenUnderMutex'
  BY DEF WorkerInv, WorkerTypeOK, SeenUnderMutex, Monitors, Loggers
<1>3. TakenIsThere'
  <2>1. queue \in Seq(Nat) /\ NewTask \in Nat
    BY DEF WorkerInv, WorkerTypeOK
  <2>. QED
    BY <2>1, PushedThere DEF WorkerInv, TakenIsThere
<1>4. WokenForFunctors'
  BY DEF WorkerInv, WorkerTypeOK, WokenForFunctors
<1>5. JoinedAtEnd'
  BY DEF WorkerInv, WorkerTypeOK, JoinedAtEnd
<1>6. LogsInOrder'
  BY DEF WorkerInv, WorkerTypeOK, LogsInOrder, Loggers
<1>. QED
  BY <1>1, <1>2, <1>3, <1>4, <1>5, <1>6 DEF WorkerInv

\* Stop, step by step.
LEMMA StopFlagInv ==
    ASSUME WorkerInv, StopFlag
    PROVE  WorkerInv'
<1>. USE DEF StopFlag
<1>1. WorkerTypeOK'
  BY DEF WorkerInv, WorkerTypeOK, Pcs, Stops
<1>2. SeenUnderMutex'
  BY DEF WorkerInv, WorkerTypeOK, SeenUnderMutex, Monitors, Loggers
<1>3. TakenIsThere'
  BY DEF WorkerInv, WorkerTypeOK, TakenIsThere
<1>4. WokenForFunctors'
  BY DEF WorkerInv, WorkerTypeOK, WokenForFunctors
<1>5. JoinedAtEnd'
  BY DEF WorkerInv, WorkerTypeOK, JoinedAtEnd
<1>6. LogsInOrder'
  BY DEF WorkerInv, WorkerTypeOK, LogsInOrder, Loggers
<1>. QED
  BY <1>1, <1>2, <1>3, <1>4, <1>5, <1>6 DEF WorkerInv

LEMMA StopNotifyInv ==
    ASSUME WorkerInv, StopNotify
    PROVE  WorkerInv'
<1>. USE DEF StopNotify, Notify
<1>1. WorkerTypeOK'
  BY DEF WorkerInv, WorkerTypeOK, Pcs, Stops
<1>2. SeenUnderMutex'
  BY DEF WorkerInv, WorkerTypeOK, SeenUnderMutex, Monitors, Loggers
<1>3. TakenIsThere'
  BY DEF WorkerInv, WorkerTypeOK, TakenIsThere
<1>4. WokenForFunctors'
  BY DEF WorkerInv, WorkerTypeOK, WokenForFunctors
<1>5. JoinedAtEnd'
  BY DEF WorkerInv, WorkerTypeOK, JoinedAtEnd
<1>6. LogsInOrder'
  BY DEF WorkerInv, WorkerTypeOK, LogsInOrder, Loggers
<1>. QED
  BY <1>1, <1>2, <1>3, <1>4, <1>5, <1>6 DEF WorkerInv

LEMMA StopJoinInv ==
    ASSUME WorkerInv, StopJoin
    PROVE  WorkerInv'
<1>. USE DEF StopJoin
<1>1. WorkerTypeOK'
  BY DEF WorkerInv, WorkerTypeOK, Pcs, Stops
<1>2. SeenUnderMutex'
  BY DEF WorkerInv, WorkerTypeOK, SeenUnderMutex, Monitors, Loggers
<1>3. TakenIsThere'
  BY DEF WorkerInv, WorkerTypeOK, TakenIsThere
<1>4. WokenForFunctors'
  BY DEF WorkerInv, WorkerTypeOK, WokenForFunctors
<1>5. JoinedAtEnd'
  BY DEF WorkerInv, WorkerTypeOK, JoinedAtEnd
<1>6. LogsInOrder'
  BY DEF WorkerInv, WorkerTypeOK, LogsInOrder, Loggers
<1>. QED
  BY <1>1, <1>2, <1>3, <1>4, <1>5, <1>6 DEF WorkerInv

LEMMA StopDrainInv ==
    ASSUME WorkerInv, StopDrain
    PROVE  WorkerInv'
<1>. USE DEF StopDrain
<1>1. WorkerTypeOK'
  <2>1. CASE queue = <<>>
    BY <2>1 DEF WorkerInv, WorkerTypeOK, Stops
  <2>2. CASE queue # <<>>
    BY <2>2, WriteFirstOrder DEF WorkerInv, WorkerTypeOK, JoinedAtEnd, Loggers
  <2>. QED
    BY <2>1, <2>2
<1>2. SeenUnderMutex'
  BY DEF WorkerInv, WorkerTypeOK, SeenUnderMutex, Monitors, Loggers
<1>3. TakenIsThere'
  BY DEF WorkerInv, JoinedAtEnd, TakenIsThere
<1>4. WokenForFunctors'
  BY DEF WorkerInv, WorkerTypeOK, WokenForFunctors
<1>5. JoinedAtEnd'
  BY DEF WorkerInv, WorkerTypeOK, JoinedAtEnd
<1>6. LogsInOrder'
  <2>1. CASE queue = <<>>
    BY <2>1 DEF WorkerInv, LogsInOrder
  <2>2. CASE queue # <<>>
    <3>1. kind \in Loggers /\ WriteFirst /\ UNCHANGED <<pushed, pc, stop, kind>>
      BY <2>2 DEF WorkerInv, JoinedAtEnd, Loggers
    <3>2. /\ done' \in Seq(Nat) /\ done' \o queue' = pushed'
          /\ ~log'.twice => UNION Range(log'.files) = Range(done')
      BY <2>2, <3>1, WriteFirstOrder DEF WorkerInv
    <3>. QED
      BY <3>1, <3>2 DEF WorkerInv, LogsInOrder
  <2>. QED
    BY <2>1, <2>2
<1>. QED
  BY <1>1, <1>2, <1>3, <1>4, <1>5, <1>6 DEF WorkerInv

\* Time passes.
LEMMA SecondInv ==
    ASSUME WorkerInv, Second
    PROVE  WorkerInv'
<1>. USE DEF Second
<1>1. WorkerTypeOK'
  BY Sizes DEF WorkerInv, WorkerTypeOK
<1>2. SeenUnderMutex'
  BY DEF WorkerInv, WorkerTypeOK, SeenUnderMutex, Monitors, Loggers
<1>3. TakenIsThere'
  BY DEF WorkerInv, WorkerTypeOK, TakenIsThere
<1>4. WokenForFunctors'
  BY DEF WorkerInv, WorkerTypeOK, WokenForFunctors
<1>5. JoinedAtEnd'
  BY DEF WorkerInv, WorkerTypeOK, JoinedAtEnd
<1>6. LogsInOrder'
  BY DEF WorkerInv, WorkerTypeOK, LogsInOrder, Loggers
<1>. QED
  BY <1>1, <1>2, <1>3, <1>4, <1>5, <1>6 DEF WorkerInv

\* Nothing happens here.
LEMMA StutterInv ==
    ASSUME WorkerInv, UNCHANGED workerVars
    PROVE  WorkerInv'
BY DEF workerVars, WorkerInv, WorkerTypeOK, SeenUnderMutex, TakenIsThere, WokenForFunctors,
       JoinedAtEnd, LogsInOrder

\* The inductive invariant holds at every step of every thread.
THEOREM WorkerInvariant == WorkerSpec => []WorkerInv
<1>1. WorkerInit => WorkerInv
  <2>. SUFFICES ASSUME WorkerInit PROVE WorkerInv
    OBVIOUS
  <2>1. log \in Logs /\ ~log.twice /\ UNION Range(log.files) = {}
    <3>. DEFINE f == [s \in 0..MaxSeconds |-> {}]
    <3>1. log = [files |-> f, open |-> 0, size |-> 0, twice |-> FALSE]
      BY DEF WorkerInit
    <3>2. f \in [0..MaxSeconds -> SUBSET Nat] /\ UNION Range(f) = {} /\ 0 \in 0..MaxSeconds
      BY Sizes DEF Range
    <3>. HIDE DEF f
    <3>. QED
      BY <3>1, <3>2 DEF Logs
  <2>2. WorkerTypeOK
    <3>1. kind \in WorkerKinds /\ pc \in Pcs /\ stop \in Stops /\ now \in 0..MaxSeconds
      BY Sizes DEF WorkerInit, Pcs, Stops
    <3>2. queue \in Seq(Nat) /\ pushed \in Seq(Nat)
      BY DEF WorkerInit
    <3>3. locked \in BOOLEAN /\ woken \in BOOLEAN /\ exit \in BOOLEAN
      BY DEF WorkerInit
    <3>. QED
      BY <2>1, <3>1, <3>2, <3>3 DEF WorkerTypeOK
  <2>3. SeenUnderMutex /\ TakenIsThere /\ WokenForFunctors /\ JoinedAtEnd
    BY DEF WorkerInit, SeenUnderMutex, TakenIsThere, WokenForFunctors, JoinedAtEnd
  <2>4. LogsInOrder
    BY <2>1 DEF WorkerInit, LogsInOrder, Range
  <2>. QED
    BY <2>2, <2>3, <2>4 DEF WorkerInv
<1>2. WorkerInv /\ [WorkerNext]_workerVars => WorkerInv'
  BY LoopInitInv, TopInv, LockInv, CheckInv, EmptyInv, SleepInv, WakeUpInv, TakeLogInv,
     TakeOperationInv, ProcessInv, DoPendingInv, AddToQueueInv, StartOperationInv,
     QueueFunctorInv, PushHttpOperationInv, StopFlagInv, StopNotifyInv, StopJoinInv,
     StopDrainInv, SecondInv, StutterInv
  DEF WorkerNext, WorkerStep
<1>. QED
  BY <1>1, <1>2, PTL DEF WorkerSpec

\* No thread that waits with the mutex of its queue, and no event loop, sleeps on
\* a task: between its look at the queue and its wait nobody can push.
THEOREM NoTaskAsleep == WorkerSpec => []WorkerWakes
<1>1. WorkerInv => WorkerWakes
  BY DEF WorkerInv, SeenUnderMutex, WokenForFunctors, WorkerWakes
<1>. QED
  BY <1>1, WorkerInvariant, PTL

\* Every log is written once and in order, all of them before a server's Stop
\* returns, and each is in a file as long as no file was opened twice.
THEOREM AllLogsKept == WorkerSpec => []LogsKept
<1>1. WorkerInv => LogsKept
  <2>. SUFFICES ASSUME WorkerInv, kind \in Loggers PROVE LogsKept
    BY DEF LogsKept
  <2>1. done \in Seq(Nat) /\ done \o queue = pushed
    BY DEF WorkerInv, LogsInOrder
  <2>2. queue = <<>> => done \o queue = done
    BY <2>1
  <2>. QED
    BY <2>1, <2>2 DEF WorkerInv, LogsInOrder, LogsKept
<1>. QED
  BY <1>1, WorkerInvariant, PTL
=============================================================================
