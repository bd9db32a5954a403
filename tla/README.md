# xx_chat: TLA+ specifications

xx_chat is an instant-messaging system: four server processes
(`login_server`, `msg_server`, `route_server`, `db_proxy_server`) over two network
libraries (`base/` and `net/`), and a Qt client. The modules here specify the
concurrent and distributed part of the servers and of the client, and the code that
takes byte streams apart; they are checked with TLC on small instances, and part of
them is proved with TLAPS for every instance.

Paths below are relative to `src/xx_chat_server/src/` unless they say otherwise.

## 1. The system

    client --HTTP--> login_server <--report of users---+
       |                                               |
       +---PDUs----> msg_server ---queries---> db_proxy_server --> MySQL
                         |
                         +---online states---> route_server

| Part | State | Operations | What makes it hard | What makes it correct |
|---|---|---|---|---|
| **MySQL pool** (`db_proxy_server/db_pool.cpp`) | `freeList_`, `curDbConnCnt_`, one mutex and one condition variable | `GetDBConn`, `ReleaseDBConn` | worker threads contend; `notify_one` races newcomers; the limit | no connection shared or lost, limit kept, no lost wakeup |
| **db_proxy_server** (`proxy_conn.cpp`, `base/thread*.cpp`, `business/`) | `g_proxy_conn_map`, `g_uuid_conn_map`, a task list per worker, `response_pdu_list_` | accept, read, close; take, run and answer a task; drain; SIGTERM | the main thread blocks in `PushTask` behind a busy worker; connections close and handles are reused while a request is with a worker; exit joins sleeping threads | an answer goes to the connection that asked, once, and always comes |
| **msg_server, clients** (`msg_conn.cpp`, `im_user.cpp`, `db_server_conn.cpp`) | `g_msg_conn_map`, `ImUserManager`'s two tables, raw `MsgConn*` in every `ImUser` | connect, login, user list, message, the database's answers, timeouts | a login is split by a round trip; pointers outlive their object; handles and memory are reused; two names of one user | tables sound, an open connection is found, keeps its identity, and gets only what is its own |
| **msg_server, links** (`base/serv_info.h`, `db_server_conn.cpp`, `login_server_conn.cpp`, `route_server_conn.cpp`) | a slot per configured server: `serv_conn`, `idle_cnt`, `reconnect_cnt`; `g_master_rs_conn` | connect, confirm, close, one-second timers | back-off counters; several links time out in one tick; connects that fail at once | the master is the oldest link; silent peers are dropped; lost servers are retried |
| **base network** (`base/im_conn.cpp`, `base_socket.cpp`, `event_dispatch.cpp`, `im_pdu_base.cpp`) | `outBuf_`, `inBuf_`, `busy_`, `state_`, the epoll instance | send, read, write, confirm, close, accept | edge-triggered epoll, partial sends and reads, resets, events used up by another purpose | PDUs arrive whole, in order, once; nothing is left lying |
| **login_server** (`login_server/`) | the `TcpServer` of `main`; `g_msg_serv_info`, the total of users, `g_http_conn_map` | HTTP request for a msg_server; reports of msg_servers; timeouts | requests in pieces; counts kept by increments from elsewhere; handles from a counter that wraps | an answer is right, every connection ends, counts agree with the reports, a dead msg_server is cleared |
| **route_server** (`route_server/`) | `g_route_conn_map` | accept, report of on-line users, close, timeout | links that die silently | a dead link is cleared |
| **net library** (`net/`) | `pendingFunctors_`, channels, `TcpConnection` states, `Buffer` | run-in-loop, accept, send, shutdown, force close; append, retrieve, prepend, read | calls between threads; life of objects across callbacks; indexes into a vector that moves and grows | no assert fails; a connection is told of, closed and destroyed once; no functor sleeps; a buffer is a queue of bytes |
| **PDUs and HTTP** (`base/im_pdu_base.cpp`, `util_pdu.cpp`, `thirdparty/http/`) | the bytes received and the state of the parser | write, read, parse | a message may be cut at any byte | what was sent is what is handled |
| **Threads with a queue** (both `logger.cpp`, the client's `operation_manager.cpp`, `http_pool_module.cpp`, `net/event_loop_thread.cpp`) | a queue, a flag, a mutex, a condition variable | push, take, stop | stop notifies without the mutex; wait and notify under different mutexes | a worker wakes for its work, stop returns, logs are kept |
| **Client** (`src/xx_chat_client/`) | `TcpClientModule` with `handle_`, `busy_`, `outBuf_`; `g_client_conn`; timers; operations | login over HTTP and TCP, heartbeat, send, loss, relogin | three threads; one module for one connection after another; a retry races the connection it replaces | the connection in use is reachable, a lost one is noticed and replaced |

Parts interact by PDUs over TCP (between processes), by callbacks from the one
event-loop thread to connection objects found by handle in global maps (in
`msg_server`, `route_server`, `db_proxy_server`), and by mutexes and condition
variables between the main thread and the workers of `db_proxy_server`, between
`EventLoop`s by functors queued under a mutex, and in the client by operations, Qt
signals and unguarded members of `TcpClientModule`. The hazards these give rise to, each with its source line and the properties that cover
it, are listed in `PROJECT.json` under `hazards`.

## 2. Modules

| Module | Models | Uses |
|---|---|---|
| `DBPool` | the MySQL connection pool | |
| `DbProxy` | db_proxy_server: main thread, workers, handlers, exit | `DBPool` (its actions are conjuncts of the workers' steps) |
| `DbProxyProofs` | theorems about `DBPool` and `DbProxy` | `DbProxy` |
| `MsgServer` | msg_server's clients, users and the database's answers | |
| `MsgServerProofs` | theorems about `MsgServer` | `MsgServer` |
| `ServInfo` | msg_server's links to the other servers | |
| `PduChannel` | abstract: a FIFO channel of PDUs that either end may cut off | |
| `ImConn` | two `ImConn`s over `BaseSocket`, epoll and TCP; implements `PduChannel` | `PduChannel` |
| `ImConnProofs` | theorems about `ImConn`, the refinement among them | `ImConn` |
| `TcpServer` | `net/`: loops, channels, connections, acceptor | |
| `LoginServer` | login_server's process: the message callback on `TcpServer`, and any other user of `TcpServer` | `TcpServer` |
| `TcpServerProofs` | theorems about `TcpServer` under `LoginServer` and under any other user | `LoginServer` |
| `ByteQueue` | abstract: a queue of bytes | |
| `NetBuffer` | `net::Buffer`; implements `ByteQueue` | `ByteQueue` |
| `PduStream` | the bytes of PDUs: `SimpleBuffer`, `ByteStream`, `ImPdu`, `DbAttachData` | |
| `BytesProofs` | theorems about `PduStream` and `NetBuffer` | `PduStream`, `NetBuffer` |
| `HttpParser` | `http_parser_execute` and its helpers, as functions | |
| `HttpStream` | a message handed to the parser in pieces | `HttpParser` |
| `HttpUrl` | `http_parser_parse_url`, into a struct used before | `HttpParser` |
| `HttpConn` | login_server's `HttpConn` and `CHttpParserWrapper` | `HttpParser` |
| `Directory` | links of msg_servers to login_server and route_server, both ends | |
| `LinksProofs` | theorems about `ServInfo`, `Directory` and `HttpConn` | `ServInfo`, `Directory`, `HttpConn` |
| `WorkerQueues` | five kinds of threads with a queue | |
| `WorkerQueuesProofs` | theorems about `WorkerQueues` | `WorkerQueues` |
| `Client` | the client from its login window to msg_server | |
| `ClientProofs` | theorem about `Client` | `Client` |
| `MCHttpSamples`, `MC...` | constants for TLC | |

Every definition that translates code is mapped to its lines in `PROJECT.json`
(`map`). Definitions with a suffix such as `TakeFree_NoPop`, under a comment
"Mutant:", are deliberately wrong variants of the definition that follows; they
are used by no specification and serve to show that the properties notice such
mistakes.

### DBPool

`dbPc[t]` is where thread `t` is: `idle` (not in the pool), `want` (inside
`GetDBConn`, wanting the mutex), `wait` (asleep on the condition variable), `use`
(holding `dbConn[t]`) or `null` (`GetDBConn` returned NULL because a new connection
could not be opened). One pass of `GetDBConn` under the mutex is one step; so is
`ReleaseDBConn` with its `notify_one`. Wakeups may be spurious. The first
connections are opened in `Init`; a new one that fails to open is not counted.

### DbProxy

Connections are numbered in the order of their accept; `conn[c]` is the handle
and the uuid of the c-th, `connMap` and `uuidMap` are the two global maps. The main
thread has a program counter because it can block: in `PushTask`, for as
long as the worker drawn by `Random` runs a task (a worker keeps its `mutex_` over
the whole task), and during exit, in a join. A batch is what one `OnRead` finds
complete in the buffer; a broken PDU in it closes the connection in the middle of
the batch while its earlier requests are with the workers. An answer is written
to whichever connection has the handle when the answer is sent (`Receiver`), so
a wrong uuid or a stale map entry would send it to a stranger.
`exit(0)` destroys `response_pdu_list_` before `g_thread_pool`, as their order of
definition implies; a push by a worker that is still running is then undefined
behaviour, and is lost or fatal (`AddResponseLate`).

### MsgServer

Memory is explicit: `obj[a]` is the `MsgConn` at address `a`, freed objects
keep their last contents until the address is reused, and a handler that follows a
pointer to a freed object either reads those contents or crashes
(`CrashOnDangling`, `CrashOnReport`). `OnRead` is split into start, one step per
PDU, and end, since it keeps handling PDUs after one of them closed the connection
and keeps the object alive until it returns. `requests` is the set of
requests under way to `db_proxy_server` and back: it answers in any order
(workers), late, or never. The database is external: it finds the id `IdOf[name]`
for a known name or refuses; two names may have one id because the database
compares without regard to case.

### ServInfo

One step `Tick` is what the three one-second timer callbacks do: the links'
own `OnTimer` first, then `serv_check_reconnect` on every slot, with the outcome of
each `netlib_connect` chosen freely. Between ticks links are confirmed, closed
and read from at will. `older` is the order in which the open links to route servers were
confirmed, which the code keeps as `connectTime_`.

### ImConn and PduChannel

A byte stream is a sequence of cells, the first of each PDU its header. The
kernel is external and modelled from what `base/` asks of it: a bounded send buffer;
cells that arrive one by one; an edge for a socket when data, FIN or RST arrives
and when space is gained after a send that found none; RST for data that meets a
closed socket, for a close with unread data, and for a connection whose
listener goes away before the accept. An end's event loop takes the edge with the bits that
hold at that moment, and runs `OnRead`, `OnWrite` and `OnClose` in that order as
`StartDispatch` does, other ends' and kernel steps in between. `ChannelSpec` says that this
implements `PduChannel` with `shut` mapped to "closed". Some operators have the prefix `Im`
(and `ServOnRead` in `ServInfo` has `Serv`), because another module checked in the same run has the source's name.

### TcpServer and LoginServer

A loop is a thread: it polls, handles the active channels one by one, then calls the
functors it swapped out of `pendingFunctors_`. Each handler and each functor is a step;
a read and the write of the same event are two, as the code holds no lock between
them. Loops meet only in `queueInLoop` with its `wakeup`. A connection is a record of its
state, its channel (`events_`, `index_`) and its socket; it is `Alive` while a
`shared_ptr` to it is in `connections_`, in a functor or in the handler under way.
Epoll is level-triggered here and external. `asserts` turns false when an assert of the code
fails. `LoginServer` puts the message callback in: `login_server` has no
threads and force-closes a GET even if only a part of it has come; as `msgServerInfos_`
is never filled the answer is always that there is no msg_server. So that `net/` is
not checked for this one user only, a second kind of behaviour (`app = "other"`) has a user that
sends, shuts down and force-closes as it likes, on one loop or with a pool.

### NetBuffer, ByteQueue and PduStream

`NetBuffer` keeps the vector, both indexes and the arithmetic of `makeSpace`, `shrink`
and `readFd`. `ByteQueue` says what it is for. `PduStream` has the client's copy of the
classes write and the server's copy read: header fields and the body's integers are
bytes in network order, `SimpleBuffer` has its growth and its move to the front, and
`OnRead` receives in pieces that end anywhere. Where `ImConn` has cells, this is what
the cells stand for.

### HttpParser, HttpStream, HttpUrl and HttpConn

`http_parser_execute` is a fold of `Byte` over the data, with the state, the marks, the
counts and the flags of the code; `Switch` has one operator per group of states. Bytes
are one-letter strings; header names and values are cut to the letters that tell them
apart and those where the matching starts over. `HttpStream` feeds a message in pieces and compares with the
message as it was composed. `HttpUrl` runs the two machines of
`http_parser_parse_url`, on one URL after the other with one `http_parser_url`, of which the code
clears only `port` and `field_set`: the offsets and lengths are those of the URL before, or at first any of
`Leftovers`, and where they point behind the URL the byte read is any of `Beyond`. Nothing in the
repository calls the function, so the caller is free. `HttpConn` has the wrapper (whose
`m_url` outlives a parse), the map of connections under handles from a counter, and the choice of
a msg_server. `main` of login_server has the wiring of `HttpConn` and of `LoginConn` in a comment; it is
modelled as that comment has it.

### Directory

Both ends of a link: `LoginServConn` or `RouteServConn` in msg_server, and
`LoginConn` or `RouteConn`. Links end by a close, or go silent (`cut`) and end by the timer
of each end. No code of this commit sends `UserCntUpdate` (`send_to_all_login_server` has
no caller); its sender is the external step `UserChange`, its handling is the code's.

### WorkerQueues

One worker and its callers, `kind` saying which of the five it is. They differ in
the mutex the worker holds at its checks, in what runs with it held (`HttpThread` processes
a request under it), in who notifies under what, and in what stop does with the rest of the
queue. Log files are named by the second they are opened in, and opening one again empties it.
The loop in which the servers' `Stop` writes what is left is a step per log (`StopDrain`): a log
pushed meanwhile races with it, and is written or counts as never pushed.

### Client

The operation thread runs one operation after another and is split where the network
thread can come between (`netlib_connect`, storing the handle, the insert into
`g_client_conn`); the network thread handles what one `select` reported, socket by
socket, looking handles up as the code does; the Qt thread gets signals in order and has the
timers. msg_server's end and TCP are external. With `Patient` a retry is only
due when what the earlier one started has come to an end: the assumption under which one would
expect `Reconnects`.

## 3. What TLC checks

| Run | Shows |
|---|---|
| `proxy_and_im` | db_proxy_server: `ReplyToAsker`, `HandledOnce`, `SameWorkerInOrder`, `NoTaskAsleep`; `PoolSpec`: the handlers use the pool as `DBPool` demands. `ImConn`: `ChannelSpec` (refinement), `EventuallyHandled`, `PeerCloseNoticed` |
| `pool_and_links` | `ConnExclusive`, `NoConnLost`, `NoLostWakeup` of the pool under its real callers; `Answered`: every request is answered although threads wait for each other. The links of msg_server: `MasterIsOldest`, `PromptAfterSuccess`, `SilentPeerDropped`, `EmptySlotRetried` |
| `msg_server` | `UserIdMapSound`, `OpenConnFound`, `DeliveredToOwner`, `IdentityStable`, `EveryConnSettles` |
| `login_server` | `AssertsHold`, `DestroyedClean`, `NoFunctorAsleep`, `CallbackOrder`, `Reaped` of `net/`, under login_server and under any other user |
| `parts` | `net::Buffer`: `BufTypeOK`, `OpsOfQueue`; PDUs: `PdusRoundTrip`; parser: `ParsedAsSent`, `UrlTakenApart`; `HttpConn`: `RequestAnswered`, `HttpSettles`; directory: `CountsSound`, `DirectoryCleared`; threads: `WorkerWakes`, `LogsKept`, `StopReturns` |
| `client` | `HandleReached`, `LostNoticed` |

The run `parts` holds seven components that share no variable, `proxy_and_im` and
`pool_and_links` two each: `part` chooses at the start which of them moves, so that the
states are the sum and not the product of theirs (`MCParts`, `MCImParts`, `MCProxyParts`).

Six runs show that what a comment of the code says is not what the code does
(TLC finds the counterexample):

| Run | The code says | The code does |
|---|---|---|
| `db_proxy_exit` | exit_callback is "for closing connections gracefully" (`proxy_conn.cpp:45`) | `WorkThread::Stop` joins a worker asleep on `notEmpty_` that nobody notifies: the process hangs |
| `msg_server_open` | `open_`: "only db validate passed will be set to true" (`msg_conn.h:49`) | a late answer opens the connection that has the handle, or the memory, of the one that asked |
| `serv_stuck` | "reconnect db_proxy_server in 4s, 8s, 16s, 32s, 4s, 8s, ..." (`db_server_conn.cpp:39`) | a connect that fails at once leaves a dead object in the slot, which is never tried again |
| `url_schema` | "host must be present if there is a schema", "parsing http:///toto will fail" (`http_parser.cpp:2148`) | the host's field is not cleared: after another URL in the same struct such a URL is judged by that one's host, and may be accepted |
| `operations` | `realtimeOperations_`: "实时处理的操作", operations handled in real time (`operation_manager.h:38` of the client) | an operation pushed between the thread's look at the queue and its wait, which are under another mutex, lies there until the next one |
| `client_relogin` | "断线重连", reconnect after the line is lost (`relogin_manager.cpp:5` of the client) | a send on the closed connection leaves `busy_` set; the login of every later connection is queued behind it and never leaves |

(The waits that comment lists are not the code's either: with the constants of
`serv_info.h` they are 6, 10, 18, 34, 66, 66 ... seconds, as `Tick` and `Doubled` show.)

### Limits of the properties

Some properties hold only up to a limit, which is part of their statement:

- `ReplyToAsker`: until `uuid_alloctor_` wraps (2^32 accepts in the code).
- `OpenConnFound`, `DeliveredToOwner` and the last part of `UserIdMapSound`: until
  a handle or the memory of a `MsgConn` is reused. Afterwards
  the raw pointers in `ImUser` may stand for another connection; `msg_server_open` is a
  consequence.
- `SilentPeerDropped` and `PromptAfterSuccess` are not claimed for a `DBServConn`:
  its timer compares with the send time, which its own heartbeat keeps fresh, and
  its confirm does not reset the back-off.
- `UrlTakenApart` excepts a URL with a schema and nothing that could be a host, parsed into a struct that
  still has the length of a host (`HostLeftOver`): whether it is refused depends on that, as `url_schema` shows.
- `WorkerWakes` leaves out the operation thread, which pushes under one mutex and waits
  under another and may sleep beside an operation: that is `OperationsRun`, which fails. `StopReturns` leaves out a flag set in
  the window between the worker's check and its wait (and a `quit()` before `loop()` has
  reset `quit_`), in which the notification is lost.
- `LogsKept`: the client's logger stops without writing what is queued (`if (!fp_)` in
  its `Stop`), so the last part is for the servers' logger; and two rolls within one second
  open the same file and empty it, which the property excepts.
- `RequestAnswered` excepts a url that a read cut in two: `m_url` is appended to again,
  and the request is refused as unknown.
- `HandleReached` excepts the moment between `netlib_connect` and the insert into
  `g_client_conn`, in which an event of the new connection finds nobody.
- `LostNoticed` is about connections in `g_client_conn`; that a retry then succeeds is
  `Reconnects`, which fails.
- `EventuallyHandled` and `PeerCloseNoticed` rest on heartbeats. A PDU sent before the
  connection was confirmed stays in `outBuf_` with `busy_` set until some event, e.g. the peer's
  heartbeat, makes the socket's writability be reported again; an end in that state does
  not notice a close by its own heartbeats either, hence the condition in
  `PeerCloseNoticed`.

### Bounds, and why they suffice

- `proxy_and_im`, db_proxy_server: two workers; one handle for three connections, so that every accept
  reuses it; two requests; uuids 1 and 2 only, so that the third accept is past the wrap
  and the model shows the guard of `ReplyToAsker` to be needed.
  In `pool_and_links`: three queries and one database connection, so that the main thread
  waits for a worker that waits for another worker.
- `msg_server`: two addresses and two handles (both may be reused: the next
  object takes either), two names of one id and one of another, two connections, three
  requests: two logins on one connection and a message or user list, or one each.
- `pool_and_links`, the links: one database and two route servers, counters from 1 to 3 (doubling is
  cut off), a timeout of two ticks. `serv_stuck` uses one server.
- `proxy_and_im`, the ends of an `ImConn`: two PDUs of two cells, or with a broken header, and send buffers of two
  cells, so that the second PDU is cut by a full buffer; heartbeats of one cell from both
  ends shift the cut. One heartbeat per end is under way at a time.

- `login_server`: two clients, requests of two cells of which one read may bring one;
  the base loop alone, and with one loop in the pool; a send buffer of one cell, so that
  an answer of two waits for a write event. The mixes of requests are two GETs and a GET beside
  something else.
- `parts`: bytes of two values, a prepend area of one byte and a new buffer of two, so that
  the five ways through `makeSpace` and `readFd` occur within four bytes; PDUs with header
  fields and handles of more than one byte, read 17 bytes at a time, so that a read ends inside the
  second PDU's header; one HTTP message of each kind and of each error, cut into two or three pieces anywhere,
  with a header limit of 60 bytes and lengths modulo 4096; 124 URLs with the delimiters
  of one part inside another, each parsed after each other into one struct that was cleared or not; two HTTP clients, handles modulo 3, so that 0 is
  skipped; two msg_servers and two links, so that a descriptor is used again; three tasks and
  three seconds for the threads.
- `url_schema`: the same URLs, in a struct that was cleared at first. `operations`: two operations.
- `client`: two handles, one click, one message, one failure: a loss, a retry on the
  other or the same handle, and a send in between. The signals the Qt thread is behind and
  the operations queued are bounded by one where the user or a timer adds them.

Type invariants (`PoolTypeOK`, `ProxyTypeOK`, `MsgTypeOK`, `ServTypeOK`, `ImConnTypeOK`,
`NetTypeOK`) hold in these instances too; they are not among the runs' properties because they
say little beside the others. All but `MsgTypeOK` are proved (`ServTypeOK` as a part of
`ServInv`); for `MsgServer` the proof has the part of it that it needs (`TablesTypeOK`). To check one
with TLC, add it to the INVARIANTS of the run's cfg.

The bounds on counters (`MaxAccepts`, `MaxReqs`, `MaxPdus`, `AwayBound`) are constants or
definitions named in the modules. Deadlock is not checked where a bounded
behaviour, or an exit or a crash, ends it.

### Fairness

- `ProxyFairness`: weak fairness of the main thread's and of every worker's steps; the operating
  system schedules threads. No fairness for clients (accept, read, close, SIGTERM)
  or for spurious wakeups.
- `MsgFairSpec`: a handler returns (weak, `EndRead`), and the timer visits every
  connection again and again (strong, `LoginTimeout`: `CheckTimer` runs in every round of the
  loop, so reads, which disable the step while they last, cannot
  starve it). The database need not answer.
- `ServFairSpec`: the one-second timers keep running (weak).
- `ImConnFairSpec`: the network delivers, a connect ends, and each event loop handles its events
  (weak); the heartbeat timer fires again and again (strong, for the same
  reason as above). No fairness for senders or for closes.
- `LoginSpec`: each loop takes steps (weak); a poll returns after 100 ms at the latest. The clients and the
  network need not do anything.
- `PartsSpec`: the timers of `HttpConn` and of the links come due (weak), a worker that can
  run does, and one that was notified wakes up; a `Stop` that has begun goes on. The operating
  system schedules threads, and timers are called by the loop every second.
- `WorkerFairSpec`, for `OperationsRun`: the operation thread runs, and who was notified wakes up (weak); it may
  but need not wake up for nothing.
- `ClientSpec`: the three threads run (weak). `ClientFairSpec`, for `Reconnects` only, adds that the HTTP thread runs,
  that the retry timer comes due (strong, as it is disabled while `Patient` waits), and
  that msg_server does its part while it is up: the counterexample needs no failure of theirs.

## 4. What TLAPS proves

A theorem holds for every value of the constants that satisfies the assumption its
component names. Each invariant below was found by asking what the property
needs of the state one step earlier; hardly any of the properties is inductive alone.

**MySQL pool and db_proxy_server**, for every number of threads, limits, handles, connections
and requests (`PoolAssumption`, `ProxyAssumption`):

- `PoolTypeCorrect`, `PoolExclusive`, `PoolLosesNothing`: `PoolTypeOK`, `ConnExclusive`
  and `NoConnLost` are inductive only together (`PoolIInv`): that a released
  connection is not on the free list already needs exclusiveness, that
  a new one is fresh needs the count.
- `PoolWakesWaiters`: `NoLostWakeup` is inductive relative to `PoolIInv`. It bounds
  the free connections by the threads that are awake to take them whenever someone
  sleeps; the proof counts the `want` threads before and after each step.
- `ProxyUsesPool`: `ProxySpec => PoolSpec`, step by step: every action of `DbProxy`
  leaves the pool alone or is one of its actions. `ProxyPoolSafe` carries the pool's invariants
  over.
- `ProxyTypeCorrect`, `ProxyRepliesToAsker`, `ProxyNoTaskAsleep`, from one inductive
  invariant, `ProxyIInv`: the types; `ConnInv` (a mapped connection has the handle it is
  mapped under); `ReadInv` (who is being read and where the main thread
  is agree); `UuidInv` (up to the wrap the c-th connection has uuid c, and the
  uuid map has a connection only while it is open under its own handle); `TaskInv` (every task, wherever
  it is, carries the uuid of the connection that asked); `NoTaskAsleep`; `ReplyToAsker`.
  `UuidInv` is what makes an answer to a closed connection vanish instead
  of reaching the next owner of the handle.
- `ProxyAnswersInOrder` (`SameWorkerInOrder`) from `ProxyOrdered`: two requests that one worker
  got are in the order of their numbers along the whole way (`OrderInv`): in the worker's list
  (`QueueOrder`), behind the one it runs (`RunOrder`), in `response_pdu_list_` (`AnswerOrder`) and
  on the sockets (`SentOrder`), and a request that is further on is not also further back
  (`AnsweredDone`, `SentDone`, `SentBefore`, `SentOnce`).
- `ProxyHandlesOnce` (`HandledOnce`): a request is in one place at a time (`OnePlace`).

**msg_server's clients**, for all addresses, handles, names, ids and numbers of requests, with
memory and handles reused at will (`MsgAssumption`):

- `IdTableSound` (`UserIdMapSound`), `OpenConnsFound` (`OpenConnFound`) and `DeliveryCorrect`
  (`DeliveredToOwner`), from `MsgInv` (`MsgInvariant`): an address in `g_msg_conn_map` is that of
  the object that has the handle (`MapOwns`); until the first reuse an address and a handle stand
  for one connection each (`FirstUse`); each name has an `ImUser` of its own, filed under no id but
  that of the name, and a filed one is validated (`NamesApart`, `IdsFiled`); a connection in a user's list is one of that user
  (`ConnsOfUser`); an open one is in its list (`OpenFiled`).
- `IdentityKept` (`IdentityStable`): the action property, from the same invariant.

**msg_server's links**, for any number of servers of each kind, back-off limits and timeouts
(`ServAssumption`):

- `MasterCorrect` (`MasterIsOldest`), `PromptReconnect` (`PromptAfterSuccess`), `SilenceEnds`
  (`SilentPeerDropped`), from `ServInv` (`ServInvariant`): the order of the confirms has a first among
  any open route links (`WellOrdered`, without which the search for a new master could
  come back with nothing), the ticks since a link ended are bounded by its `idle_cnt`
  (`IdleCounted`), and an open link has its back-off reset (`BackOffReset`).

**login_server's directory**, for any msg_servers, handles, links and users, as long as all the users
there can be are fewer than `CountMod`, 2^32 in the code (`DirectoryAssumption`):

- `DirCountsSound` (`CountsSound`), from `DirInv`. `LinksFollow` says of every link to login_server
  which counts the PDUs under way stand for: before the info is handled the first of
  them is that info, afterwards they are updates that lead, one by one and never below zero, from what
  is kept to what the msg_server has (`Follows`). It needs that a handle is of one open socket
  (`HandlesOwned`), that the connection of an open socket is found (`ConnsFound`), that nothing is kept of a
  msg_server whose link is closed (`InfoOfLink`: else a new link on the same handle would find the
  entry and keep it), that updates go only to a login_server (`RoutesGetInfo`) and that links are made in
  order (`MadeInOrder`). `TotalIsSum` carries the sums over all sets of handles along instead of the total alone; with
  `SumsChange`, `SumsBound` and `SumsUnique` a step of one handle changes the total by as much, no addition
  wraps, and the fold of `CountsSound` has no other value.

**login_server's answers over HTTP**, for any requests, any number of clients and any directory of
`uint32_t` counts (`HttpConnAssumption`):

- `HttpAnswersRight` (`AnswersRight`, the second part of `RequestAnswered`), from `HttpInv`: what waits in `outBuf_` and what was sent is right
  (`RightConn`), of every connection, also of one that an event of another reaches by a stale
  handle. That an answer is right when it is made (`AnswerIsRight`) is an induction along the loop: a
  turn keeps the best of the servers seen (`TurnBest`, where no count below its limit reaches the value
  `min_user_cnt` starts with), and the fold is that loop (`LoopsExist`, `LoopsBest`, `FoldIsLoop`). The
  parser enters only as what decides when to answer. The directory does not change while the
  clients of `HttpConn` ask; its changes are those of `Directory`.

**Two `ImConn`s**, for PDUs of any length, any send buffer and any number of PDUs
(`ImConnAssumption`):

- `ConnImplementsChannel`: `ImConnSpec => ChannelSpec`. Every step of the two ends, of the kernel
  and of the network is a step of the FIFO channel or a stutter. The invariant (`ConnInvariant`,
  with `ConnTyped`) is `ConnInv`: `busy_` says that `outBuf_` is not empty (`BusyInv`); and the cells in the
  peer's `inBuf_`, its receive buffer, this end's send buffer and `outBuf_`, put behind each other,
  are those of the PDUs sent and not handled (`StreamInv`; without the last two once the peer has
  closed, as they cannot reach it). This is stated cell by cell rather than as an equation
  of sequences: every cell is followed by the rest of its PDU or by the next PDU's header
  (`Framed`), the headers are in the order of sending and begin with the first PDU not
  handled (`Ordered`), and as long as neither end has closed nothing is missing at the tail
  (`Whole`, `AllThere`). After a close the stream may be cut off anywhere, which
  is what `Framed` and `Ordered` still allow.

**net: loops, connections and the acceptor**, for any number of clients and loops, both under
login_server's callback and under a user that sends, shuts down and force-closes as it likes
(`TcpServerAssumption`, `LoginServerAssumption`):

- `AssertsNeverFail` (`AssertsHold`), `ConnectionsDestroyedClean` (`DestroyedClean`),
  `FunctorsNeverSleep` (`NoFunctorAsleep`), `CallbacksInOrder` (`CallbackOrder`, an action
  property) and `NetTypes`, from `NetInv` (`NetInvariant`). Its core is `LifeInv`: a connection is in one of seven
  stages (`Unborn`, `Connecting`, `Up`, `Closing`, `Leaving`, `Erased`, `Gone`), and in
  each the functors that wait for it, its state, its channel and its place in `connections_` are
  known. `QueuesInv` says that a functor waits once and in its own loop, `WakeInv`
  that a functor queued while its loop calls others has set the wakeup, and `ActiveInv` that a
  channel the poll returned is still that of a connection that is up when its turn comes.

**Threads with a queue**, for any tasks and any number of seconds (`WorkerQueuesAssumption`):

- `NoTaskAsleep` (`WorkerWakes`) and `AllLogsKept` (`LogsKept`), from `WorkerInv`
  (`WorkerInvariant`): what the worker saw under the mutex still holds while it has the mutex
  (`SeenUnderMutex`), a task it is about to take is there (`TakenIsThere`), functors wake the loop
  (`WokenForFunctors`), `Stop` drains only after the join (`JoinedAtEnd`), and what is written
  followed by what is queued are the logs pushed, in order (`LogsInOrder`).


**The client**, for every set of handles and every bound, without an assumption:

- `ClientHandleReached` (`HandleReached`), from `ReachedInv`: an open socket stays in the read and the
  exception set (`Watched`), and between its steps `DoLogin` holds the handle that `handle_` has or will
  have (`LoginHolds`), which is what covers the moment before the insert.

**The bytes of PDUs**, for headers of 16-bit fields, attachments of 32-bit fields, any bodies and sizes
of a receive (`PduStreamAssumption`):

- `PdusReadAsSent` (`PdusRoundTrip`), from the invariant `PduInv`: the PDUs handled are the first ones sent
  (`ReadInOrder`), and `inBuf_` followed by the wire holds the bytes of the others, one PDU behind the
  other (`LeftIsUnread`). The lemmas say that every field is read back from the octets it was
  written to, and that a PDU is cut from the stream only when all of it is there.

**net::Buffer**, for every size of the prepend area, of a new buffer and of `readFd`'s second buffer
(`NetBufferAssumption`), and all bytes:

- `BufferInOrder`: `BufTypeOK`, which is inductive as it stands. The lemmas say of each
  value-level operation (`MakeSpaceIs`, `EnsureIs`, `AppendIs`) that it gives a buffer in order,
  with room, and with the content it should have; sequences are compared byte by byte
  (`ContentByBytes`).
- `BufferOps` and `BufferIsQueue`: every operation, under the mapping of the queue to the
  content between the two indexes, is the queue's operation of the same meaning, and `shrink` is a
  stutter; hence `BufSpec => Queue!QueueSpec`.

That an integer is read back as it was written (`IntsReadBack`) needs induction over its
digits and is evaluated by TLC for the integers of the instance (an assumption of `MCParts`).

Only model-checked:

- all liveness properties;
- `ParsedAsSent`, `UrlTakenApart` and the first part of `RequestAnswered`: what the parser computes over the bytes of a
  message is an induction over data, which is out of the prover's reach.

## 5. Not modelled

- The text of messages, SQL, JSON and protobuf encodings; logging.
- Strings, configuration files and the Windows `select` loop of the servers' `base/`.
- A PDU header that announces a length from 1 to 15 bytes (less than the header
  itself): no peer of this system produces one. `GetBodyLength` would wrap.
- A batch of events for several sockets in one `epoll_wait` of `base/` (`ImConn` follows one
  connection).
- `Connector` and `TcpClient` of `net/`: no program creates one. (`removeAndResetChannel`
  does not reset `channel_`, and a connection that ends leaves `state_` at `kConnected`, so that a
  second connect would fail an assert; there is no use to model this from.)
- `LoginConn` for clients in `login_server`: the client asks over HTTP.
- `RouteUserInfo`: nothing fills `g_user_map`.
- `findCRLF` and `findEOL` of `Buffer`; `http_parser_pause` and `http_body_is_final`.
- A content length or chunk size that wraps 2^64 more than once in a digit: the test
  of the code compares with the last value only.
- In the client: messages that arrive, which change only what is shown; the fd_sets
  of a socket closed by the other thread; `lstTimerEvent_`, used by three threads without a
  lock, below the level of one registration.
- Qt windows and dialogs; generated protobuf code.

## 6. Plan

Done, in this order: `DBPool`, `DbProxy` and their proofs; `MsgServer`; `ServInfo`; `ImConn`
over `PduChannel`; `TcpServer` with `LoginServer`; `NetBuffer` over `ByteQueue` with
its proofs; `PduStream`; the HTTP parser and `HttpConn`; `Directory`; `WorkerQueues`; `Client`.

Proved since: the order and the uniqueness of answers of `DbProxy`; the invariants of `MsgServer`,
`ServInfo`, `WorkerQueues` and `TcpServer`; the refinement of `PduChannel` by `ImConn`; the round trip of
`PduStream`, the counts of `Directory`, the answers of `HttpConn` and the handles of `Client`.

What is left is the parser: it would take a definition of well-formed messages and a proof, state by
state, that a piece that ends anywhere leaves the parser where the next one goes on.
