----------------------------- MODULE TcpServer ------------------------------
(***************************************************************************)
(* The server side of net/: a TcpServer with its Acceptor on the base      *)
(* EventLoop 0 and its TcpConnections on that loop or, with threads in the *)
(* EventLoopThreadPool, on the loops 1..threadNum.  A loop polls, handles  *)
(* the active channels and calls the functors queued for it; loops only    *)
(* meet in queueInLoop.  The kernel (external) delivers cells, FIN and RST *)
(* and drains send buffers; epoll is level-triggered.                      *)
(*                                                                         *)
(* What a message callback does is left to the user of the module: it      *)
(* gives LoopStep, for every active channel that has read, the set of      *)
(* outcomes [k |-> the connection, force |-> forceClose was called].       *)
(*                                                                         *)
(* The descriptor of a connection is never closed (~Socket is empty), so   *)
(* descriptors, like the connection numbers, are never used again.         *)
(***************************************************************************)
EXTENDS Integers, Sequences, FiniteSets

CONSTANTS
    MaxConns,    \* bound: connections that clients open
    ThreadNums,  \* the values setThreadNum may have been given
    SndCap       \* cells a socket's send buffer takes

ASSUME TcpServerAssumption ==
    /\ MaxConns \in Nat
    /\ ThreadNums \subseteq Nat
    /\ SndCap \in Nat \ {0}

VARIABLES
    threadNum,    \* EventLoopThreadPool::threadNum_
    phase,        \* EventLoop::loop: "handle"s events or "call"s functors, then polls
    active,       \* activeChannels_ not handled yet, with their revents_
    current,      \* currentActiveChannel_, when its write is still to be handled
    pending,      \* pendingFunctors_
    calling,      \* the functors of doPendingFunctors not called yet
    wakeup,       \* wakeupFd_ is readable
    connections,  \* TcpServer::connections_
    conn,         \* the TcpConnections, with channel, buffers and socket
    backlog,      \* kernel: connections not accepted yet
    asserts,      \* ghost: every assert so far held
    told          \* ghost: what the callbacks of a connection have been told

loopVars == <<phase, active, current, pending, calling, wakeup>>
serverVars == <<threadNum, connections, backlog>>
ghosts == <<asserts, told>>
netVars == <<loopVars, serverVars, conn, ghosts>>

Conns == 1..MaxConns
Loops == 0..threadNum
Idle == 0    \* current, when there is none
Acceptor == 0
Wakeup == 0 - 1

\* A TcpConnection: state_, events_ and index_ of its channel, the cells in its
\* two buffers, and its socket: cells to read and to send, FIN and RST of the
\* peer, SO_ERROR, and whether this side has been shut down.
Conn ==
    [state : {"none", "connecting", "connected", "disconnecting", "disconnected"},
     events : SUBSET {"in", "out"}, index : {"new", "added", "deleted"},
     in : Nat, out : Nat,
     rcv : Nat, snd : 0..SndCap, fin : BOOLEAN, rst : BOOLEAN, err : BOOLEAN, shutWr : BOOLEAN]

NoConn ==
    [state |-> "none", events |-> {}, index |-> "new", in |-> 0, out |-> 0,
     rcv |-> 0, snd |-> 0, fin |-> FALSE, rst |-> FALSE, err |-> FALSE, shutWr |-> FALSE]

Functors == {"connectEstablished", "forceCloseInLoop", "removeConnectionInLoop",
             "connectDestroyed"} \X Conns

NetTypeOK ==
    /\ threadNum \in ThreadNums
    /\ phase \in [Loops -> {"handle", "call"}]
    /\ \A l \in Loops :
           /\ active[l] \subseteq ({Acceptor, Wakeup} \cup Conns) \X SUBSET {"err", "in", "out"}
           /\ current[l] \in {Idle} \cup Conns
           /\ pending[l] \in Seq(Functors) /\ calling[l] \in Seq(Functors)
    /\ wakeup \in [Loops -> BOOLEAN]
    /\ connections \subseteq Conns
    /\ conn \in [Conns -> Conn]
    /\ backlog \in 0..MaxConns
    /\ asserts \in BOOLEAN
    /\ told \in [Conns -> {"none", "up", "closing", "down"}]

\* The constructor of EventLoop, for every loop.
LoopsInit ==
    /\ phase = [l \in Loops |-> "call"]
    /\ active = [l \in Loops |-> {}]
    /\ current = [l \in Loops |-> Idle]
    /\ pending = [l \in Loops |-> <<>>]
    /\ calling = [l \in Loops |-> <<>>]
    /\ wakeup = [l \in Loops |-> FALSE]

NetInit ==
    /\ threadNum \in ThreadNums
    /\ LoopsInit
    /\ connections = {}
    /\ conn = [c \in Conns |-> NoConn]
    /\ backlog = 0
    /\ asserts = TRUE
    /\ told = [c \in Conns |-> "none"]

Created == {c \in Conns : conn[c].state # "none"}

\* EventLoopThreadPool::getNextLoop goes round the loops of the pool.
LoopOf(c) == IF threadNum = 0 THEN 0 ELSE 1 + ((c - 1) % threadNum)

\* A shared_ptr to the TcpConnection exists: in connections_, in a functor, or
\* the guard of the event that is handled.
Mentions(fs, c) == \E i \in DOMAIN fs : fs[i][2] = c
Alive(c) ==
    \/ c \in connections
    \/ \E l \in Loops : \/ Mentions(pending[l], c) \/ Mentions(calling[l], c)
                        \/ current[l] = c

-----------------------------------------------------------------------------
\* Channel and EPollPoller.

Writing(k) == "out" \in k.events

\* EPollPoller::updateChannel: a channel that is new or was deleted is added
\* even when it wants no event.
UpdateChannel(k) ==
    [k EXCEPT !.index = IF @ = "added" /\ k.events = {} THEN "deleted" ELSE "added"]

\* enableReading, enableWriting, disableWriting, disableAll.
SetEvents(k, evs) == UpdateChannel([k EXCEPT !.events = evs])

\* Channel::remove asserts that the channel wants no event, removeChannel of
\* the poller that it knows the channel.  The buffers go with the connection.
RemoveAsserts(k) == k.events = {} /\ k.index # "new"
RemoveChannel(k) == [NoConn EXCEPT !.state = k.state]

\* What epoll_wait reports of a socket: data, FIN and RST make it readable,
\* space or RST writable, and RST is an error besides.
Revents(k) ==
    {b \in k.events : k.rst \/ (IF b = "in" THEN k.rcv > 0 \/ k.fin ELSE k.snd < SndCap)}
        \cup (IF k.rst THEN {"err"} ELSE {})

-----------------------------------------------------------------------------
\* TcpConnection: what its operations do to the connection itself.

\* sendInLoop writes directly only past nothing that waits; after an EPIPE or
\* ECONNRESET of that write the rest is dropped.
SendInLoop(k, len) ==
    LET direct == ~Writing(k) /\ k.out = 0
        n == IF ~direct \/ k.rst THEN 0
             ELSE IF len < SndCap - k.snd THEN len ELSE SndCap - k.snd
        fault == direct /\ k.rst
        written == [k EXCEPT !.snd = @ + n, !.err = @ /\ ~direct]
        kept == [written EXCEPT !.out = @ + (len - n)]
    IN  IF k.state = "disconnected" THEN k
        ELSE IF fault \/ n = len THEN written
        ELSE IF Writing(k) THEN kept ELSE SetEvents(kept, k.events \cup {"out"})

\* send, by the loop of the connection.
Send(k, len) == IF k.state = "connected" THEN SendInLoop(k, len) ELSE k

ShutdownInLoop(k) == IF Writing(k) THEN k ELSE [k EXCEPT !.shutWr = TRUE]

\* shutdown, by the loop of the connection.
Shutdown(k) ==
    IF k.state = "connected" THEN ShutdownInLoop([k EXCEPT !.state = "disconnecting"]) ELSE k

\* forceClose queues forceCloseInLoop, which the caller of this operator adds.
MayForceClose(k) == k.state \in {"connected", "disconnecting"}
ForceClose(k) == IF MayForceClose(k) THEN [k EXCEPT !.state = "disconnecting"] ELSE k

\* handleWrite.
HandleWrite(k) ==
    LET n == IF k.rst THEN 0 ELSE IF k.out < SndCap - k.snd THEN k.out ELSE SndCap - k.snd
        wrote == [k EXCEPT !.snd = @ + n, !.out = @ - n, !.err = FALSE]
        done == SetEvents(wrote, k.events \ {"out"})
    IN  IF ~Writing(k) THEN k
        ELSE IF n = 0 \/ wrote.out > 0 THEN wrote
        ELSE IF k.state = "disconnecting" THEN ShutdownInLoop(done) ELSE done

\* Mutant: the channel keeps its events when the connection closes.
Disconnect_KeepsEvents(k) == [k EXCEPT !.state = "disconnected"]

\* connectEstablished and the first part of handleClose.
Establish(k) == SetEvents([k EXCEPT !.state = "connected"], k.events \cup {"in"})
Disconnect(k) == SetEvents([k EXCEPT !.state = "disconnected"], {})

-----------------------------------------------------------------------------
\* Mutant: only another thread wakes the loop.
NeedsWakeup_OtherOnly(from, to) == from # to

\* EventLoop::queueInLoop by loop `from`: a functor for another loop, or for the
\* own one while it calls functors, wakes the next poll.
NeedsWakeup(from, to) == from # to \/ phase[to] = "call"

QueueInLoop(from, to, f) ==
    /\ pending' = [pending EXCEPT ![to] = Append(@, f)]
    /\ wakeup' = IF NeedsWakeup(from, to) THEN [wakeup EXCEPT ![to] = TRUE] ELSE wakeup

\* Mutant: the connection goes out of the map and that is all.
RemoveConnectionInLoop_Drops(c, fine) ==
    /\ asserts' = (fine /\ c \in connections)
    /\ connections' = connections \ {c}
    /\ UNCHANGED <<pending, wakeup>>

\* TcpServer::removeConnectionInLoop, on the base loop; `fine` is whether the
\* asserts before it held.
RemoveConnectionInLoop(c, fine) ==
    /\ asserts' = (fine /\ c \in connections)
    /\ connections' = connections \ {c}
    /\ QueueInLoop(0, LoopOf(c), <<"connectDestroyed", c>>)

\* handleClose: disconnect, tell the connection callback, and removeConnection,
\* which the base loop runs at once or has queued.
HandleClose(l, c) ==
    LET fine == asserts /\ conn[c].state \in {"connected", "disconnecting"} IN
    /\ conn' = [conn EXCEPT ![c] = Disconnect(@)]
    /\ told' = [told EXCEPT ![c] = "down"]
    /\ IF l = 0
       THEN RemoveConnectionInLoop(c, fine)
       ELSE /\ asserts' = fine
            /\ QueueInLoop(l, 0, <<"removeConnectionInLoop", c>>)
            /\ UNCHANGED connections

-----------------------------------------------------------------------------
\* The loop.

\* EventLoop::loop polls, all functors being called: epoll_wait returns every
\* ready channel, or after kPollTimeMs none.  (A round that finds neither event
\* nor functor is left out.)
Poll(l) ==
    LET ready == {<<c, Revents(conn[c])>> :
                      c \in {d \in Conns : LoopOf(d) = l /\ conn[d].index = "added"
                                               /\ Revents(conn[d]) # {}}}
        accept == IF l = 0 /\ backlog > 0 THEN {<<Acceptor, {"in"}>>} ELSE {}
        woken == IF wakeup[l] THEN {<<Wakeup, {"in"}>>} ELSE {}
        all == ready \cup accept \cup woken
    IN  /\ phase[l] = "call" /\ calling[l] = <<>>
        /\ all # {} \/ pending[l] # <<>>
        /\ active' = [active EXCEPT ![l] = all]
        /\ phase' = [phase EXCEPT ![l] = "handle"]
        /\ UNCHANGED <<current, pending, calling, wakeup, serverVars, conn, ghosts>>

Take(l, a) ==
    /\ phase[l] = "handle"
    /\ current[l] = Idle
    /\ a \in active[l]
    /\ active' = [active EXCEPT ![l] = @ \ {a}]
    /\ UNCHANGED <<phase, calling>>

\* EventLoop::handleRead.
HandleWakeup(l, a) ==
    /\ Take(l, a) /\ a[1] = Wakeup
    /\ wakeup' = [wakeup EXCEPT ![l] = FALSE]
    /\ UNCHANGED <<current, pending, serverVars, conn, ghosts>>

\* Acceptor::handleRead accepts one connection.
HandleAccept(l, a) ==
    /\ Take(l, a) /\ a[1] = Acceptor
    /\ backlog' = backlog - 1

\* TcpServer::newConnection makes the TcpConnection and has its loop call
\* connectEstablished.
NewConnection(l, a) ==
    LET c == Cardinality(Created) + 1
        made == [conn[c] EXCEPT !.state = "connecting"]
    IN  /\ HandleAccept(l, a)
        /\ connections' = connections \cup {c}
        /\ IF LoopOf(c) = l
           THEN /\ conn' = [conn EXCEPT ![c] = Establish(made)]
                /\ told' = [told EXCEPT ![c] = "up"]
                /\ UNCHANGED <<pending, wakeup>>
           ELSE /\ conn' = [conn EXCEPT ![c] = made]
                /\ QueueInLoop(l, LoopOf(c), <<"connectEstablished", c>>)
                /\ UNCHANGED told
        /\ UNCHANGED <<current, threadNum, asserts>>

\* Channel::handleEvent for a readable channel: handleError, which takes
\* SO_ERROR, comes first, then the read, then the write.
HandleEvent(l, a) ==
    /\ Take(l, a) /\ a[1] \in Conns /\ "in" \in a[2]
    /\ current' = [current EXCEPT ![l] = IF "out" \in a[2] THEN a[1] ELSE Idle]

\* handleError takes SO_ERROR.
HandleError(k) == [k EXCEPT !.err = FALSE]

\* readFd takes all there is.
HasRead(a) ==
    LET k == IF "err" \in a[2] THEN HandleError(conn[a[1]]) ELSE conn[a[1]]
    IN  [k EXCEPT !.in = @ + k.rcv, !.rcv = 0]

\* handleRead with data, and the message callback.
HandleMessage(l, a, outcomes) ==
    LET c == a[1]
    IN  /\ HandleEvent(l, a)
        /\ conn[c].rcv > 0
        /\ \E o \in outcomes :
               /\ conn' = [conn EXCEPT ![c] = o.k]
               /\ IF o.force
                  THEN /\ told' = [told EXCEPT ![c] = "closing"]
                       /\ QueueInLoop(l, l, <<"forceCloseInLoop", c>>)
                  ELSE UNCHANGED <<told, pending, wakeup>>
        /\ UNCHANGED <<serverVars, asserts>>

\* Mutant: the end of the stream is taken for an error.
HandleEof_Error(l, a) ==
    /\ HandleEvent(l, a)
    /\ conn[a[1]].rcv = 0
    /\ conn' = [conn EXCEPT ![a[1]].err = FALSE]
    /\ UNCHANGED <<pending, wakeup, serverVars, ghosts>>

\* readFd returns 0, or -1 when an RST has arrived since the poll: handleError
\* takes the error, and the next poll finds the socket closed.
HandleEof(l, a) ==
    LET c == a[1] IN
    /\ HandleEvent(l, a)
    /\ conn[c].rcv = 0
    /\ IF conn[c].err /\ "err" \notin a[2]
       THEN /\ conn' = [conn EXCEPT ![c] = HandleError(@)]
            /\ UNCHANGED <<pending, wakeup, connections, ghosts>>
       ELSE HandleClose(l, c)
    /\ UNCHANGED <<threadNum, backlog>>

\* A channel that is only writable, or has been read.
HandleWritable(l, a) ==
    /\ Take(l, a) /\ a[2] = {"out"}
    /\ conn' = [conn EXCEPT ![a[1]] = HandleWrite(@)]
    /\ UNCHANGED <<current, pending, wakeup, serverVars, ghosts>>

HandleWriteAfterRead(l) ==
    /\ current[l] # Idle
    /\ current' = [current EXCEPT ![l] = Idle]
    /\ conn' = [conn EXCEPT ![current[l]] = HandleWrite(@)]
    /\ UNCHANGED <<phase, active, pending, calling, wakeup, serverVars, ghosts>>

\* doPendingFunctors takes all that is queued now.
DoPendingFunctors(l) ==
    /\ phase[l] = "handle"
    /\ active[l] = {} /\ current[l] = Idle
    /\ phase' = [phase EXCEPT ![l] = "call"]
    /\ calling' = [calling EXCEPT ![l] = pending[l]]
    /\ pending' = [pending EXCEPT ![l] = <<>>]
    /\ UNCHANGED <<active, current, wakeup, serverVars, conn, ghosts>>

NextFunctor(l, op) ==
    /\ phase[l] = "call"
    /\ calling[l] # <<>> /\ Head(calling[l])[1] = op
    /\ calling' = [calling EXCEPT ![l] = Tail(@)]
    /\ UNCHANGED <<phase, active, current, threadNum, backlog>>

ConnectEstablished(l) ==
    LET c == Head(calling[l])[2] IN
    /\ NextFunctor(l, "connectEstablished")
    /\ asserts' = (asserts /\ conn[c].state = "connecting")
    /\ conn' = [conn EXCEPT ![c] = Establish(@)]
    /\ told' = [told EXCEPT ![c] = "up"]
    /\ UNCHANGED <<pending, wakeup, connections>>

\* Mutant: only a connection that is still kConnected is closed.
ForceCloseInLoop_Connected(l) ==
    LET c == Head(calling[l])[2] IN
    /\ NextFunctor(l, "forceCloseInLoop")
    /\ IF conn[c].state = "connected"
       THEN HandleClose(l, c)
       ELSE UNCHANGED <<pending, wakeup, connections, conn, ghosts>>

ForceCloseInLoop(l) ==
    LET c == Head(calling[l])[2] IN
    /\ NextFunctor(l, "forceCloseInLoop")
    /\ IF MayForceClose(conn[c])
       THEN HandleClose(l, c)
       ELSE UNCHANGED <<pending, wakeup, connections, conn, ghosts>>

RemoveConnection(l) ==
    LET c == Head(calling[l])[2] IN
    /\ NextFunctor(l, "removeConnectionInLoop")
    /\ RemoveConnectionInLoop(c, asserts)
    /\ UNCHANGED <<conn, told>>

ConnectDestroyed(l) ==
    LET c == Head(calling[l])[2]
        open == conn[c].state = "connected"
        k == IF open THEN Disconnect(conn[c]) ELSE conn[c]
    IN  /\ NextFunctor(l, "connectDestroyed")
        /\ asserts' = (asserts /\ RemoveAsserts(k))
        /\ conn' = [conn EXCEPT ![c] = RemoveChannel(k)]
        /\ told' = IF open THEN [told EXCEPT ![c] = "down"] ELSE told
        /\ UNCHANGED <<pending, wakeup, connections>>

LoopStep(l, onMessage) ==
    \/ Poll(l)
    \/ \E a \in active[l] :
           \/ HandleWakeup(l, a) \/ NewConnection(l, a)
           \/ HandleMessage(l, a, onMessage[a])
           \/ HandleEof(l, a) \/ HandleWritable(l, a)
    \/ HandleWriteAfterRead(l)
    \/ DoPendingFunctors(l)
    \/ ConnectEstablished(l) \/ ForceCloseInLoop(l) \/ RemoveConnection(l)
    \/ ConnectDestroyed(l)

-----------------------------------------------------------------------------
\* The clients and the network.

Kernel(c, k) ==
    /\ conn[c].state \in {"connecting", "connected", "disconnecting"} /\ ~conn[c].rst
    /\ conn' = [conn EXCEPT ![c] = k]
    /\ UNCHANGED <<loopVars, serverVars, ghosts>>

ClientConnects ==
    /\ backlog + Cardinality(Created) < MaxConns
    /\ backlog' = backlog + 1
    /\ UNCHANGED <<loopVars, threadNum, connections, conn, ghosts>>

\* (Bound: a client sends `stream` cells.)
ClientSends(c, stream) ==
    /\ ~conn[c].fin /\ conn[c].in + conn[c].rcv < stream
    /\ Kernel(c, [conn[c] EXCEPT !.rcv = @ + 1])

ClientCloses(c) == ~conn[c].fin /\ Kernel(c, [conn[c] EXCEPT !.fin = TRUE])

ClientResets(c) == Kernel(c, [conn[c] EXCEPT !.rst = TRUE, !.err = TRUE, !.snd = 0])

SendBufferDrains(c) == conn[c].snd > 0 /\ Kernel(c, [conn[c] EXCEPT !.snd = 0])

Network(stream) ==
    \/ ClientConnects
    \/ \E c \in Conns :
           ClientSends(c, stream) \/ ClientCloses(c) \/ ClientResets(c) \/ SendBufferDrains(c)

-----------------------------------------------------------------------------
\* No assert of TcpConnection, TcpServer, Channel and EPollPoller fails: a
\* connection is established once, closed once, erased from connections_ once,
\* and its channel wants no event when it is removed.
AssertsHold == asserts

\* When the last shared_ptr to a connection goes, ~TcpConnection finds it
\* kDisconnected and ~Channel finds the channel removed from its loop; and no
\* connection goes while activeChannels_ points to its channel.
DestroyedClean ==
    \A c \in Created :
        /\ ~Alive(c) => conn[c].state = "disconnected" /\ conn[c].index = "new"
        /\ (\E l \in Loops : \E a \in active[l] : a[1] = c) => Alive(c) /\ conn[c].index # "new"

\* A functor never waits for the 100 ms timeout of the poll: queued from another
\* loop or while functors are called, it wakes the loop.
NoFunctorAsleep ==
    \A l \in Loops :
        phase[l] = "call" /\ calling[l] = <<>> /\ pending[l] # <<>> => wakeup[l]

\* The callbacks of a connection come in order: up, messages, down; and after
\* forceClose no message any more, although the close itself waits in the queue.
CallbackOrder ==
    [][\A c \in Conns :
          /\ conn'[c].in > conn[c].in => told[c] = "up"
          /\ told'[c] # told[c] =>
                 <<told[c], told'[c]>> \in {<<"none", "up">>, <<"up", "closing">>,
                                          <<"up", "down">>, <<"closing", "down">>}]_netVars

\* A connection that the client closed or reset, or that was force-closed, is
\* taken down and destroyed, whatever its loop and whatever else goes on.
Reaped ==
    \A c \in Conns :
        (c \in Created /\ (conn[c].fin \/ conn[c].rst \/ told[c] = "closing")) ~> ~Alive(c)
=============================================================================
