--------------------------- MODULE TcpServerProofs ---------------------------
(***************************************************************************)
(* For every number of connections and of threads in the pool, for         *)
(* login_server and for any other user of a TcpServer: no assert of net/   *)
(* fails, connections are destroyed clean, functors do not sleep, and      *)
(* callbacks come in order.                                                *)
(***************************************************************************)
EXTENDS LoginServer, FiniteSetTheorems, SequenceTheorems, TLAPS

-----------------------------------------------------------------------------
\* The functors that wait.

Has(s, f) == \E i \in 1..Len(s) : s[i] = f
Once(s) == \A i, j \in 1..Len(s) : s[i] = s[j] => i = j

Ops == {"connectEstablished", "forceCloseInLoop", "removeConnectionInLoop", "connectDestroyed"}

\* Where a functor is run: removeConnectionInLoop by the base loop, all others by
\* the loop of the connection.
Home(f) == IF f[1] = "removeConnectionInLoop" THEN 0 ELSE LoopOf(f[2])

\* The functors that wait for c in the queues P and C.
Waiting(P, C, c) == {op \in Ops : \E l \in Loops : Has(P[l], <<op, c>>) \/ Has(C[l], <<op, c>>)}
WaitsFor(c) == Waiting(pending, calling, c)

\* A functor waits once, and in its own loop.
QueuesOK(P, C) ==
    \A l \in Loops :
        /\ Once(P[l]) /\ Once(C[l])
        /\ \A f \in Functors : ~(Has(P[l], f) /\ Has(C[l], f))
        /\ \A f \in Functors : Has(P[l], f) \/ Has(C[l], f) => l = Home(f)

-----------------------------------------------------------------------------
\* The inductive invariant, part by part.

LoopTypes ==
    /\ threadNum \in Nat
    /\ phase \in [Loops -> {"handle", "call"}]
    /\ active \in [Loops -> SUBSET (({Acceptor, Wakeup} \cup Conns) \X SUBSET {"err", "in", "out"})]
    /\ current \in [Loops -> {Idle} \cup Conns]
    /\ pending \in [Loops -> Seq(Functors)]
    /\ calling \in [Loops -> Seq(Functors)]
    /\ wakeup \in [Loops -> BOOLEAN]

ConnTypes ==
    /\ connections \subseteq Conns
    /\ conn \in [Conns -> Conn]
    /\ backlog \in 0..MaxConns
    /\ told \in [Conns -> {"none", "up", "closing", "down"}]

QueuesInv == QueuesOK(pending, calling)

\* The life of a TcpConnection: in each stage its state_, channel, place in
\* connections_, what its user was told, and the one functor that is to take it
\* to the next stage, go together.
Shut(k, idx) == k.events = {} /\ k.index = idx
Open(k) == k.state \in {"connected", "disconnecting"} /\ "in" \in k.events /\ k.index = "added"

Unborn(c) == /\ conn[c].state = "none" /\ Shut(conn[c], "new")
             /\ c \notin connections /\ told[c] = "none" /\ WaitsFor(c) = {}
Connecting(c) == /\ conn[c].state = "connecting" /\ Shut(conn[c], "new")
                 /\ c \in connections /\ told[c] = "none" /\ WaitsFor(c) = {"connectEstablished"}
Up(c) == Open(conn[c]) /\ c \in connections /\ told[c] = "up" /\ WaitsFor(c) = {}
Closing(c) == /\ Open(conn[c])
              /\ c \in connections /\ told[c] = "closing" /\ WaitsFor(c) = {"forceCloseInLoop"}
Leaving(c) == /\ conn[c].state = "disconnected" /\ Shut(conn[c], "deleted")
              /\ c \in connections /\ told[c] = "down" /\ WaitsFor(c) = {"removeConnectionInLoop"}
Erased(c) == /\ conn[c].state = "disconnected" /\ Shut(conn[c], "deleted")
             /\ c \notin connections /\ told[c] = "down" /\ WaitsFor(c) = {"connectDestroyed"}
Gone(c) == /\ conn[c].state = "disconnected" /\ Shut(conn[c], "new")
           /\ c \notin connections /\ told[c] = "down" /\ WaitsFor(c) = {}

Stage(c) == \/ Unborn(c) \/ Connecting(c) \/ Up(c) \/ Closing(c)
            \/ Leaving(c) \/ Erased(c) \/ Gone(c)

LifeInv == \A c \in Conns : Stage(c)

\* A forceCloseInLoop is queued while events are handled and called before the
\* next poll.
PhaseInv ==
    \A l \in Loops :
        /\ phase[l] = "handle" => calling[l] = <<>>
        /\ phase[l] = "call" => active[l] = {}
        /\ \A c \in Conns : Has(pending[l], <<"forceCloseInLoop", c>>) => phase[l] = "handle"

\* An active channel is that of a connection that is up, in its own loop, or the
\* acceptor's with a connection to accept.
ActiveInv ==
    \A l \in Loops : \A a \in active[l] :
        /\ a[1] \in Conns => LoopOf(a[1]) = l /\ Up(a[1])
        /\ a[1] \notin Conns => a[2] = {"in"}
        /\ a[1] = Acceptor => l = 0 /\ backlog > 0
        /\ \A b \in active[l] : a[1] = b[1] => a = b

\* Connections are made in the order of their numbers.
BirthInv == \E n \in 0..MaxConns : Created = 1..n /\ backlog + n <= MaxConns

WakeInv == \A l \in Loops : phase[l] = "call" /\ pending[l] # <<>> => wakeup[l]

NetInv ==
    /\ LoopTypes /\ ConnTypes /\ QueuesInv /\ LifeInv /\ PhaseInv /\ ActiveInv /\ BirthInv
    /\ WakeInv /\ AssertsHold

-----------------------------------------------------------------------------
\* Sequences of functors.

LEMMA HasAppend ==
    ASSUME NEW S, NEW s \in Seq(S), NEW e \in S
    PROVE  /\ Append(s, e) \in Seq(S)
           /\ \A f : Has(Append(s, e), f) <=> Has(s, f) \/ f = e
           /\ Once(s) /\ ~Has(s, e) => Once(Append(s, e))
<1>1. /\ Append(s, e) \in Seq(S) /\ Len(s) \in Nat
      /\ Len(Append(s, e)) = Len(s) + 1
      /\ \A i \in 1..Len(s) : Append(s, e)[i] = s[i]
      /\ Append(s, e)[Len(s) + 1] = e
    BY AppendProperties, LenProperties
<1> DEFINE t == Append(s, e)
<1> HIDE DEF t
<1>2. \A f : Has(t, f) <=> Has(s, f) \/ f = e
    BY <1>1 DEF Has, t
<1>3. Once(s) /\ ~Has(s, e) => Once(t)
    BY <1>1 DEF Has, Once, t
<1> QED BY <1>1, <1>2, <1>3 DEF t

LEMMA HasTail ==
    ASSUME NEW S, NEW s \in Seq(S), s # <<>>, Once(s)
    PROVE  /\ Tail(s) \in Seq(S) /\ Head(s) \in S /\ Has(s, Head(s))
           /\ \A f : Has(Tail(s), f) <=> Has(s, f) /\ f # Head(s)
           /\ Once(Tail(s))
<1>1. /\ Tail(s) \in Seq(S) /\ Head(s) \in S /\ Len(s) \in Nat \ {0} /\ Head(s) = s[1]
      /\ Len(Tail(s)) = Len(s) - 1
      /\ \A i \in 1..(Len(s) - 1) : Tail(s)[i] = s[i + 1]
    BY HeadTailProperties, LenProperties, EmptySeq, ElementOfSeq
<1> DEFINE t == Tail(s)
<1>0. Len(t) = Len(s) - 1 /\ \A i \in 1..(Len(s) - 1) : t[i] = s[i + 1]
    BY <1>1
<1> HIDE DEF t
<1>2. Has(s, Head(s))
    BY <1>1 DEF Has
<1>3. ASSUME NEW f, Has(t, f) PROVE Has(s, f) /\ f # Head(s)
    <2>1. PICK i \in 1..Len(t) : t[i] = f
        BY <1>3 DEF Has
    <2>2. i + 1 \in 1..Len(s) /\ 1 \in 1..Len(s) /\ s[i + 1] = f /\ i + 1 # 1
        BY <1>0, <1>1, <2>1
    <2> QED BY <1>1, <2>2 DEF Has, Once
<1>4. ASSUME NEW f, Has(s, f), f # Head(s) PROVE Has(t, f)
    <2>1. PICK j \in 1..Len(s) : s[j] = f
        BY <1>4 DEF Has
    <2>2. j # 1
        BY <1>1, <1>4, <2>1
    <2>3. j - 1 \in 1..(Len(s) - 1) /\ (j - 1) + 1 = j
        BY <1>1, <2>1, <2>2
    <2>4. t[j - 1] = s[(j - 1) + 1]
        BY <1>0, <2>3
    <2> QED BY <1>0, <2>1, <2>3, <2>4 DEF Has
<1>5. Once(t)
    <2> SUFFICES ASSUME NEW i \in 1..Len(t), NEW j \in 1..Len(t), t[i] = t[j] PROVE i = j
        BY DEF Once
    <2>1. i + 1 \in 1..Len(s) /\ j + 1 \in 1..Len(s) /\ s[i + 1] = s[j + 1]
        BY <1>0, <1>1
    <2>2. i + 1 = j + 1
        BY <2>1 DEF Once
    <2> QED BY <1>0, <1>1, <2>2
<1> QED BY <1>1, <1>2, <1>3, <1>4, <1>5 DEF t

LEMMA HasNone ==
    ASSUME NEW S
    PROVE  <<>> \in Seq(S) /\ Once(<<>>) /\ \A f : ~Has(<<>>, f)
<1>1. <<>> \in Seq(S) /\ 1..Len(<<>>) = {}
    OBVIOUS
<1> QED BY <1>1 DEF Has, Once

-----------------------------------------------------------------------------
LEMMA NetConstants ==
    ASSUME threadNum \in Nat
    PROVE  /\ MaxConns \in Nat /\ SndCap \in Nat \ {0}
           /\ 0 \in Loops /\ \A c \in Conns : LoopOf(c) \in Loops
<1>1. MaxConns \in Nat /\ SndCap \in Nat \ {0}
    BY TcpServerAssumption
<1>2. ASSUME NEW c \in Conns PROVE LoopOf(c) \in Loops
    <2>1. CASE threadNum = 0
        BY <2>1 DEF LoopOf, Loops
    <2>2. CASE threadNum # 0
        <3>1. c - 1 \in Int /\ threadNum \in Int /\ threadNum > 0
            BY <1>1, <2>2 DEF Conns
        <3>2. (c - 1) % threadNum \in 0..(threadNum - 1)
            BY <3>1
        <3> QED BY <2>2, <3>2 DEF LoopOf, Loops
    <2> QED BY <2>1, <2>2
<1> QED BY <1>1, <1>2 DEF Loops

-----------------------------------------------------------------------------
\* What queuing, swapping out and calling do to the functors that wait.

Queues == [Loops -> Seq(Functors)]
Queued(P, Q, to, f) == Q = [P EXCEPT ![to] = Append(@, f)]
Swapped(P, C, Q, D, l) == Q = [P EXCEPT ![l] = <<>>] /\ D = [C EXCEPT ![l] = P[l]]
Called(C, D, l, f) == C[l] # <<>> /\ Head(C[l]) = f /\ D = [C EXCEPT ![l] = Tail(@)]

LEMMA QueueAdds ==
    ASSUME threadNum \in Nat,
           NEW P \in Queues, NEW C \in Queues, QueuesOK(P, C),
           NEW op \in Ops, NEW c \in Conns, op \notin Waiting(P, C, c),
           NEW to \in Loops, to = Home(<<op, c>>),
           NEW Q, Queued(P, Q, to, <<op, c>>)
    PROVE  /\ Q \in Queues /\ QueuesOK(Q, C)
           /\ Waiting(Q, C, c) = Waiting(P, C, c) \cup {op}
           /\ \A d \in Conns \ {c} : Waiting(Q, C, d) = Waiting(P, C, d)
<1> DEFINE f == <<op, c>>
<1>0. /\ P \in [Loops -> Seq(Functors)] /\ C \in [Loops -> Seq(Functors)]
      /\ Q = [P EXCEPT ![to] = Append(@, f)]
    BY DEF Queues, Queued
<1>1. f \in Functors
    BY DEF Functors, Ops
<1>2. P[to] \in Seq(Functors) /\ ~Has(P[to], f) /\ ~Has(C[to], f)
    BY <1>0 DEF Waiting
<1>3. /\ Append(P[to], f) \in Seq(Functors)
      /\ \A g : Has(Append(P[to], f), g) <=> Has(P[to], g) \/ g = f
      /\ Once(P[to]) => Once(Append(P[to], f))
    BY <1>1, <1>2, HasAppend
<1>4. Q[to] = Append(P[to], f) /\ \A l \in Loops : l # to => Q[l] = P[l]
    BY <1>0
<1>5. Q \in Queues
    BY <1>0, <1>3 DEF Queues
<1>6. \A l \in Loops : \A g : Has(Q[l], g) <=> Has(P[l], g) \/ (l = to /\ g = f)
    BY <1>3, <1>4
<1>7. QueuesOK(Q, C)
    <2> SUFFICES ASSUME NEW l \in Loops
                 PROVE  /\ Once(Q[l]) /\ Once(C[l])
                        /\ \A g \in Functors : ~(Has(Q[l], g) /\ Has(C[l], g))
                        /\ \A g \in Functors : Has(Q[l], g) \/ Has(C[l], g) => l = Home(g)
        BY DEF QueuesOK
    <2>1. Once(Q[l]) /\ Once(C[l])
        BY <1>3, <1>4 DEF QueuesOK
    <2>2. \A g \in Functors : ~(Has(Q[l], g) /\ Has(C[l], g))
        BY <1>2, <1>6 DEF QueuesOK
    <2>3. \A g \in Functors : Has(Q[l], g) \/ Has(C[l], g) => l = Home(g)
        BY <1>6 DEF QueuesOK
    <2> QED BY <2>1, <2>2, <2>3
<1>8. \A d, o : <<o, d>> = f <=> o = op /\ d = c
    OBVIOUS
<1>9. Waiting(Q, C, c) = Waiting(P, C, c) \cup {op}
    BY <1>6, <1>8 DEF Waiting
<1>10. \A d \in Conns \ {c} : Waiting(Q, C, d) = Waiting(P, C, d)
    BY <1>6, <1>8 DEF Waiting
<1> QED BY <1>5, <1>7, <1>9, <1>10

LEMMA CallTakes ==
    ASSUME threadNum \in Nat,
           NEW P \in Queues, NEW C \in Queues, QueuesOK(P, C),
           NEW l \in Loops, NEW op, NEW c, NEW D, Called(C, D, l, <<op, c>>)
    PROVE  /\ op \in Ops /\ c \in Conns /\ l = Home(<<op, c>>)
           /\ D \in Queues /\ QueuesOK(P, D)
           /\ op \in Waiting(P, C, c)
           /\ Waiting(P, D, c) = Waiting(P, C, c) \ {op}
           /\ \A d \in Conns \ {c} : Waiting(P, D, d) = Waiting(P, C, d)
<1> DEFINE f == <<op, c>>
<1>0. /\ C \in [Loops -> Seq(Functors)] /\ D = [C EXCEPT ![l] = Tail(@)]
      /\ C[l] # <<>> /\ Head(C[l]) = f
    BY DEF Queues, Called
<1>1. C[l] \in Seq(Functors) /\ Once(C[l])
    BY <1>0 DEF QueuesOK
<1>2. /\ Tail(C[l]) \in Seq(Functors) /\ f \in Functors /\ Has(C[l], f)
      /\ \A g : Has(Tail(C[l]), g) <=> Has(C[l], g) /\ g # f
      /\ Once(Tail(C[l]))
    <2> DEFINE q == C[l]
    <2>1. q \in Seq(Functors) /\ q # <<>> /\ Once(q) /\ Head(q) = f
        BY <1>0, <1>1
    <2> HIDE DEF q, f
    <2>2. /\ Tail(q) \in Seq(Functors) /\ Head(q) \in Functors /\ Has(q, Head(q))
          /\ \A g : Has(Tail(q), g) <=> Has(q, g) /\ g # Head(q)
          /\ Once(Tail(q))
        BY <2>1, HasTail
    <2> QED BY <2>1, <2>2 DEF q
<1>3. op \in Ops /\ c \in Conns
    BY <1>2 DEF Functors, Ops
<1>4. l = Home(f)
    BY <1>2 DEF QueuesOK
<1>5. D[l] = Tail(C[l]) /\ \A m \in Loops : m # l => D[m] = C[m]
    BY <1>0
<1>6. D \in Queues
    BY <1>0, <1>2 DEF Queues
<1>7. \A m \in Loops : \A g : Has(D[m], g) <=> Has(C[m], g) /\ ~(m = l /\ g = f)
    BY <1>2, <1>5
<1>8. QueuesOK(P, D)
    <2> SUFFICES ASSUME NEW m \in Loops
                 PROVE  /\ Once(P[m]) /\ Once(D[m])
                        /\ \A g \in Functors : ~(Has(P[m], g) /\ Has(D[m], g))
                        /\ \A g \in Functors : Has(P[m], g) \/ Has(D[m], g) => m = Home(g)
        BY DEF QueuesOK
    <2>1. Once(P[m]) /\ Once(D[m])
        BY <1>2, <1>5 DEF QueuesOK
    <2>2. \A g \in Functors : ~(Has(P[m], g) /\ Has(D[m], g))
        BY <1>7 DEF QueuesOK
    <2>3. \A g \in Functors : Has(P[m], g) \/ Has(D[m], g) => m = Home(g)
        BY <1>7 DEF QueuesOK
    <2> QED BY <2>1, <2>2, <2>3
<1>9. \A d, o : <<o, d>> = f <=> o = op /\ d = c
    OBVIOUS
<1>10. op \in Waiting(P, C, c)
    BY <1>2, <1>3 DEF Waiting
<1>11. \A m \in Loops : ~Has(P[m], f) /\ ~Has(D[m], f)
    <2> SUFFICES ASSUME NEW m \in Loops, Has(P[m], f) \/ Has(D[m], f) PROVE FALSE
        OBVIOUS
    <2>1. m = l
        BY <1>2, <1>4, <1>7 DEF QueuesOK
    <2>2. ~Has(P[l], f)
        BY <1>2 DEF QueuesOK
    <2> QED BY <1>7, <2>1, <2>2
<1>12. Waiting(P, D, c) = Waiting(P, C, c) \ {op}
    BY <1>7, <1>9, <1>11 DEF Waiting
<1>13. \A d \in Conns \ {c} : Waiting(P, D, d) = Waiting(P, C, d)
    BY <1>7, <1>9 DEF Waiting
<1> QED BY <1>3, <1>4, <1>6, <1>8, <1>10, <1>12, <1>13

LEMMA SwapKeeps ==
    ASSUME threadNum \in Nat,
           NEW P \in Queues, NEW C \in Queues, QueuesOK(P, C),
           NEW l \in Loops, C[l] = <<>>, NEW Q, NEW D, Swapped(P, C, Q, D, l)
    PROVE  /\ Q \in Queues /\ D \in Queues /\ QueuesOK(Q, D)
           /\ \A c \in Conns : Waiting(Q, D, c) = Waiting(P, C, c)
<1>0. /\ P \in [Loops -> Seq(Functors)] /\ C \in [Loops -> Seq(Functors)]
      /\ Q = [P EXCEPT ![l] = <<>>] /\ D = [C EXCEPT ![l] = P[l]]
    BY DEF Queues, Swapped
<1>1. <<>> \in Seq(Functors) /\ Once(<<>>) /\ \A f : ~Has(<<>>, f)
    BY HasNone
<1>2. /\ Q[l] = <<>> /\ D[l] = P[l]
      /\ \A m \in Loops : m # l => Q[m] = P[m] /\ D[m] = C[m]
    BY <1>0
<1>3. Q \in Queues /\ D \in Queues
    BY <1>0, <1>1 DEF Queues
<1>4. QueuesOK(Q, D)
    <2> SUFFICES ASSUME NEW m \in Loops
                 PROVE  /\ Once(Q[m]) /\ Once(D[m])
                        /\ \A g \in Functors : ~(Has(Q[m], g) /\ Has(D[m], g))
                        /\ \A g \in Functors : Has(Q[m], g) \/ Has(D[m], g) => m = Home(g)
        BY DEF QueuesOK
    <2>1. CASE m = l
        BY <1>1, <1>2, <2>1 DEF QueuesOK
    <2>2. CASE m # l
        BY <1>2, <2>2 DEF QueuesOK
    <2> QED BY <2>1, <2>2
<1>5. \A m \in Loops : \A g : Has(Q[m], g) \/ Has(D[m], g) <=> Has(P[m], g) \/ Has(C[m], g)
    BY <1>1, <1>2
<1>6. \A c \in Conns : Waiting(Q, D, c) = Waiting(P, C, c)
    BY <1>5 DEF Waiting
<1> QED BY <1>3, <1>4, <1>6

-----------------------------------------------------------------------------
\* What the operations of a TcpConnection do to it.

ConnStates == {"none", "connecting", "connected", "disconnecting", "disconnected"}
Events == SUBSET {"in", "out"}
Indexes == {"new", "added", "deleted"}

\* The operation leaves the connection open, with what was read.
StaysOpen(k, m) == m \in Conn /\ Open(m) /\ m.in = k.in

LEMMA ConnIs ==
    Conn = [state : ConnStates, events : Events, index : Indexes, in : Nat, out : Nat,
            rcv : Nat, snd : 0..SndCap, fin : BOOLEAN, rst : BOOLEAN, err : BOOLEAN,
            shutWr : BOOLEAN]
    BY DEF Conn, ConnStates, Events, Indexes

LEMMA SetEventsIs ==
    ASSUME NEW k \in Conn, NEW evs \in Events
    PROVE  LET m == SetEvents(k, evs) IN
           /\ m \in Conn
           /\ m.events = evs /\ m.state = k.state /\ m.in = k.in
           /\ m.index = IF k.index = "added" /\ evs = {} THEN "deleted" ELSE "added"
<1> DEFINE m == SetEvents(k, evs)
<1> DEFINE idx == IF k.index = "added" /\ evs = {} THEN "deleted" ELSE "added"
<1>1. idx \in Indexes
    BY DEF Indexes
<1> HIDE DEF idx
<1>2. m = [k EXCEPT !.events = evs, !.index = idx]
    BY ConnIs DEF SetEvents, UpdateChannel, idx
<1> HIDE DEF m
<1>3. m \in Conn /\ m.events = evs /\ m.state = k.state /\ m.in = k.in /\ m.index = idx
    BY <1>1, <1>2, ConnIs
<1> QED BY <1>3 DEF m, idx

LEMMA EstablishIs ==
    ASSUME NEW k \in Conn, Shut(k, "new")
    PROVE  Establish(k) \in Conn /\ Open(Establish(k)) /\ Establish(k).in = k.in
<1> DEFINE j == [k EXCEPT !.state = "connected"]
<1>1. j \in Conn /\ j.events = {} /\ j.state = "connected" /\ j.index = "new" /\ j.in = k.in
    BY ConnIs DEF ConnStates, Shut
<1>2. {"in"} \in Events /\ k.events \cup {"in"} = {"in"}
    BY DEF Events, Shut
<1>3. Establish(k) = SetEvents(j, {"in"})
    BY <1>2 DEF Establish
<1> HIDE DEF j
<1> QED BY <1>1, <1>2, <1>3, SetEventsIs DEF Open

LEMMA DisconnectIs ==
    ASSUME NEW k \in Conn, Open(k)
    PROVE  /\ Disconnect(k) \in Conn /\ Disconnect(k).state = "disconnected"
           /\ Shut(Disconnect(k), "deleted") /\ Disconnect(k).in = k.in
<1> DEFINE j == [k EXCEPT !.state = "disconnected"]
<1>1. j \in Conn /\ j.state = "disconnected" /\ j.index = "added" /\ j.in = k.in
    BY ConnIs DEF ConnStates, Open
<1>2. {} \in Events
    BY DEF Events
<1>3. Disconnect(k) = SetEvents(j, {})
    BY DEF Disconnect
<1> HIDE DEF j
<1> QED BY <1>1, <1>2, <1>3, SetEventsIs DEF Shut

LEMMA NoConnIs ==
    NoConn \in Conn /\ NoConn.state = "none" /\ Shut(NoConn, "new")
<1>1. 0 \in 0..SndCap
    BY TcpServerAssumption
<1> QED BY <1>1 DEF NoConn, Conn, Shut

LEMMA RemoveChannelIs ==
    ASSUME NEW k \in Conn
    PROVE  /\ RemoveChannel(k) \in Conn /\ RemoveChannel(k).state = k.state
           /\ Shut(RemoveChannel(k), "new") /\ RemoveChannel(k).in = 0
<1>1. 0 \in 0..SndCap /\ k.state \in ConnStates
    BY TcpServerAssumption, ConnIs
<1>2. RemoveChannel(k) = [NoConn EXCEPT !.state = k.state]
    BY DEF RemoveChannel
<1>3. RemoveChannel(k) = [state |-> k.state, events |-> {}, index |-> "new", in |-> 0, out |-> 0,
          rcv |-> 0, snd |-> 0, fin |-> FALSE, rst |-> FALSE, err |-> FALSE, shutWr |-> FALSE]
    BY <1>2 DEF NoConn
<1>4. {} \in Events /\ "new" \in Indexes
    BY DEF Events, Indexes
<1> QED BY <1>1, <1>3, <1>4, ConnIs DEF Shut

LEMMA HandleWriteIs ==
    ASSUME NEW k \in Conn
    PROVE  /\ HandleWrite(k) \in Conn
           /\ HandleWrite(k).in = k.in /\ HandleWrite(k).state = k.state
           /\ k.events = {} => HandleWrite(k) = k
           /\ Open(k) => Open(HandleWrite(k))
<1> DEFINE n == IF k.rst THEN 0 ELSE IF k.out < SndCap - k.snd THEN k.out ELSE SndCap - k.snd
<1> DEFINE wrote == [k EXCEPT !.snd = @ + n, !.out = @ - n, !.err = FALSE]
<1> DEFINE evs == k.events \ {"out"}
<1> DEFINE done == SetEvents(wrote, evs)
<1> DEFINE shut == [done EXCEPT !.shutWr = TRUE]
<1>1. /\ k.out \in Nat /\ k.snd \in 0..SndCap /\ SndCap \in Nat /\ k.events \in Events
      /\ k.rst \in BOOLEAN
    BY ConnIs, TcpServerAssumption
<1>2. n \in Nat /\ k.snd + n \in 0..SndCap /\ k.out - n \in Nat
    BY <1>1
<1> HIDE DEF n
<1>3. /\ wrote \in Conn /\ wrote.in = k.in /\ wrote.state = k.state
      /\ wrote.events = k.events /\ wrote.index = k.index
    BY <1>2, ConnIs
<1> HIDE DEF wrote
<1>4. evs \in Events
    BY <1>1 DEF Events
<1> HIDE DEF evs
<1>5. /\ done \in Conn /\ done.in = k.in /\ done.state = k.state /\ done.events = evs
      /\ evs # {} => done.index = "added"
    BY <1>3, <1>4, SetEventsIs
<1> HIDE DEF done
<1>6. /\ shut \in Conn /\ shut.in = k.in /\ shut.state = k.state /\ shut.events = evs
      /\ evs # {} => shut.index = "added"
    BY <1>5, ConnIs
<1> HIDE DEF shut
<1>7. \/ HandleWrite(k) = k
      \/ Writing(k) /\ HandleWrite(k) \in {wrote, done, shut}
    BY <1>5 DEF HandleWrite, ShutdownInLoop, n, wrote, evs, done, shut
<1>8. k.events = {} => ~Writing(k)
    BY DEF Writing
<1>9. "in" \in k.events => "in" \in evs
    BY DEF evs
<1>10. CASE HandleWrite(k) = k
    BY <1>10
<1>11. CASE Writing(k) /\ HandleWrite(k) \in {wrote, done, shut}
    <2>1. HandleWrite(k) \in Conn /\ HandleWrite(k).in = k.in /\ HandleWrite(k).state = k.state
        BY <1>3, <1>5, <1>6, <1>11
    <2>2. k.events # {}
        BY <1>8, <1>11
    <2>3. Open(k) => Open(HandleWrite(k))
        BY <1>3, <1>5, <1>6, <1>9, <1>11 DEF Open
    <2> QED BY <2>1, <2>2, <2>3
<1> QED BY <1>7, <1>10, <1>11

LEMMA SendIs ==
    ASSUME NEW k \in Conn, Open(k), NEW len \in Nat
    PROVE  StaysOpen(k, Send(k, len))
<1> DEFINE direct == ~Writing(k) /\ k.out = 0
<1> DEFINE n == IF ~direct \/ k.rst THEN 0
                ELSE IF len < SndCap - k.snd THEN len ELSE SndCap - k.snd
<1> DEFINE written == [k EXCEPT !.snd = @ + n, !.err = @ /\ ~direct]
<1> DEFINE kept == [written EXCEPT !.out = @ + (len - n)]
<1> DEFINE evs == k.events \cup {"out"}
<1> DEFINE more == SetEvents(kept, evs)
<1>1. /\ k.out \in Nat /\ k.snd \in 0..SndCap /\ SndCap \in Nat /\ k.events \in Events
      /\ k.rst \in BOOLEAN /\ k.err \in BOOLEAN
    BY ConnIs, TcpServerAssumption
<1>2. n \in Nat /\ k.snd + n \in 0..SndCap /\ len - n \in Nat
    BY <1>1
<1>3. (k.err /\ ~direct) \in BOOLEAN
    OBVIOUS
<1> HIDE DEF n, direct
<1>4. /\ written \in Conn /\ written.in = k.in /\ written.state = k.state
      /\ written.events = k.events /\ written.index = k.index /\ written.out = k.out
    BY <1>2, <1>3, ConnIs
<1> HIDE DEF written
<1>5. written.out + (len - n) \in Nat
    BY <1>1, <1>2, <1>4
<1>6. /\ kept \in Conn /\ kept.in = k.in /\ kept.state = k.state
      /\ kept.events = k.events /\ kept.index = k.index
    BY <1>4, <1>5, ConnIs
<1> HIDE DEF kept
<1>7. evs \in Events /\ evs # {} /\ ("in" \in k.events => "in" \in evs)
    BY <1>1 DEF Events
<1> HIDE DEF evs
<1>8. /\ more \in Conn /\ more.in = k.in /\ more.state = k.state
      /\ more.events = evs /\ more.index = "added"
    BY <1>6, <1>7, SetEventsIs
<1> HIDE DEF more
<1>9. SendInLoop(k, len) \in {k, written, kept, more}
    BY DEF SendInLoop, direct, n, written, kept, more, evs
<1>10. Send(k, len) \in {k, written, kept, more}
    BY <1>9 DEF Send
<1> QED BY <1>4, <1>6, <1>7, <1>8, <1>10 DEF StaysOpen, Open

LEMMA ShutdownIs ==
    ASSUME NEW k \in Conn, Open(k)
    PROVE  StaysOpen(k, Shutdown(k))
<1> DEFINE d == [k EXCEPT !.state = "disconnecting"]
<1> DEFINE e == [d EXCEPT !.shutWr = TRUE]
<1>1. StaysOpen(k, d)
    BY ConnIs DEF StaysOpen, Open, ConnStates
<1> HIDE DEF d
<1>2. StaysOpen(k, e)
    BY <1>1, ConnIs DEF StaysOpen, Open
<1> HIDE DEF e
<1>3. Shutdown(k) \in {k, d, e}
    BY DEF Shutdown, ShutdownInLoop, d, e
<1> QED BY <1>1, <1>2, <1>3 DEF StaysOpen

LEMMA ForceCloseIs ==
    ASSUME NEW k \in Conn, Open(k)
    PROVE  StaysOpen(k, ForceClose(k))
<1>1. ForceClose(k) = [k EXCEPT !.state = "disconnecting"]
    BY DEF ForceClose, MayForceClose, Open
<1> QED BY <1>1, ConnIs DEF StaysOpen, Open, ConnStates

\* Whatever the message callbacks of login_server and of another user do.
LEMMA OutcomesOpen ==
    ASSUME NEW k \in Conn, Open(k), NEW req, NEW o \in LoginOnMessage(k, req) \cup OtherOnMessage(k)
    PROVE  StaysOpen(k, o.k)
<1>1. Request \in Nat /\ Answer \in Nat /\ OtherOut \subseteq Nat
    BY LoginServerAssumption
<1>2. CASE o \in LoginOnMessage(k, req)
    <2> DEFINE j == HandleClientData(k, req)
    <2>1. StaysOpen(k, j)
        BY <1>1, SendIs DEF HandleClientData, StaysOpen
    <2> HIDE DEF j
    <2>2. StaysOpen(j, ForceClose(j))
        BY <2>1, ForceCloseIs DEF StaysOpen
    <2>3. o.k \in {k, ForceClose(j)}
        BY <1>2 DEF LoginOnMessage, j
    <2> QED BY <2>1, <2>2, <2>3 DEF StaysOpen
<1>3. CASE o \in OtherOnMessage(k)
    <2>1. PICK n \in OtherOut :
              o.k \in {Send(k, n), Shutdown(Send(k, n)), ForceClose(Send(k, n))}
        BY <1>3 DEF OtherOnMessage
    <2> DEFINE j == Send(k, n)
    <2>2. n \in Nat
        BY <1>1
    <2>3. StaysOpen(k, j)
        BY <2>2, SendIs
    <2>4. o.k \in {j, Shutdown(j), ForceClose(j)}
        BY <2>1
    <2> HIDE DEF j
    <2>5. StaysOpen(j, Shutdown(j)) /\ StaysOpen(j, ForceClose(j))
        BY <2>3, ShutdownIs, ForceCloseIs DEF StaysOpen
    <2> QED BY <2>3, <2>4, <2>5 DEF StaysOpen
<1> QED BY <1>2, <1>3

LEMMA HasReadIs ==
    ASSUME ConnTypes, NEW a, a[1] \in Conns, Open(conn[a[1]])
    PROVE  HasRead(a) \in Conn /\ Open(HasRead(a))
<1> DEFINE k == conn[a[1]]
<1> DEFINE h == [k EXCEPT !.err = FALSE]
<1> DEFINE j == IF "err" \in a[2] THEN h ELSE k
<1>1. k \in Conn /\ Open(k)
    BY DEF ConnTypes
<1> HIDE DEF k
<1>2. h \in Conn /\ Open(h)
    BY <1>1, ConnIs DEF Open
<1> HIDE DEF h
<1>3. j \in Conn /\ Open(j)
    BY <1>1, <1>2
<1>4. HasRead(a) = [j EXCEPT !.in = @ + j.rcv, !.rcv = 0]
    BY DEF HasRead, HandleError, j, h, k
<1> HIDE DEF j
<1> DEFINE n == j.in + j.rcv
<1>5. n \in Nat
    BY <1>3, ConnIs
<1>6. HasRead(a) = [j EXCEPT !.in = n, !.rcv = 0]
    BY <1>3, <1>4, ConnIs
<1> HIDE DEF n
<1>7. HasRead(a) \in Conn
    <2> DEFINE m == [j EXCEPT !.in = n]
    <2>1. m \in Conn
        BY <1>3, <1>5, ConnIs
    <2>2. HasRead(a) = [m EXCEPT !.rcv = 0]
        BY <1>3, <1>6, ConnIs
    <2> HIDE DEF m
    <2> QED BY <2>1, <2>2, ConnIs
<1>8. Open(HasRead(a))
    BY <1>3, <1>6, ConnIs DEF Open
<1> QED BY <1>7, <1>8

-----------------------------------------------------------------------------
\* What a step leaves of the invariant when one connection at most moves on.

Same(d) == /\ conn'[d] = conn[d] /\ told'[d] = told[d]
           /\ d \in connections' <=> d \in connections
           /\ WaitsFor(d)' = WaitsFor(d)

LEMMA PrimedQueues ==
    ASSUME threadNum' = threadNum
    PROVE  /\ Loops' = Loops /\ (\A c : LoopOf(c)' = LoopOf(c))
           /\ \A c : WaitsFor(c)' = Waiting(pending', calling', c)
           /\ QueuesOK(pending', calling') => QueuesInv'
<1>1. Loops' = Loops /\ (\A c : LoopOf(c)' = LoopOf(c))
    BY DEF Loops, LoopOf
<1>2. \A c : WaitsFor(c)' = Waiting(pending', calling', c)
    BY <1>1 DEF WaitsFor, Waiting
<1>3. QueuesOK(pending', calling') => QueuesInv'
    BY <1>1 DEF QueuesInv, QueuesOK, Home
<1> QED BY <1>1, <1>2, <1>3

LEMMA SameStage ==
    ASSUME NEW d \in Conns, Same(d), Stage(d)
    PROVE  Stage(d)' /\ (Up(d) => Up(d)')
    BY DEF Same, Stage, Unborn, Connecting, Up, Closing, Leaving, Erased, Gone

\* Which connection is in no stage but its own.
LEMMA StageOf ==
    ASSUME LifeInv, NEW c \in Conns
    PROVE  /\ Open(conn[c]) => Up(c) \/ Closing(c)
           /\ "connectEstablished" \in WaitsFor(c) => Connecting(c)
           /\ "forceCloseInLoop" \in WaitsFor(c) => Closing(c)
           /\ "removeConnectionInLoop" \in WaitsFor(c) => Leaving(c)
           /\ "connectDestroyed" \in WaitsFor(c) => Erased(c)
           /\ conn[c].state = "none" => Unborn(c)
           /\ ~Open(conn[c]) => conn[c].events = {}
<1>1. Stage(c)
    BY DEF LifeInv
<1> QED BY <1>1 DEF Stage, Unborn, Connecting, Up, Closing, Leaving, Erased, Gone, Open, Shut

LEMMA Moves ==
    ASSUME NetInv, threadNum' = threadNum, backlog' = backlog,
           LoopTypes', ConnTypes', QueuesInv', PhaseInv', WakeInv', AssertsHold',
           \A d \in Conns : \/ Same(d)
                            \/ Stage(d)' /\ (conn'[d].state = "none" <=> conn[d].state = "none"),
           \A l \in Loops : \A a \in active'[l] :
               a \in active[l] /\ (a[1] \in Conns => Same(a[1]) \/ Up(a[1])')
    PROVE  NetInv'
<1>1. Loops' = Loops /\ \A d : LoopOf(d)' = LoopOf(d)
    BY PrimedQueues
<1>2. LifeInv'
    BY SameStage DEF NetInv, LifeInv
<1>3. ActiveInv'
    <2> SUFFICES ASSUME NEW l \in Loops, NEW a \in active'[l]
                 PROVE  /\ a[1] \in Conns => LoopOf(a[1]) = l /\ Up(a[1])'
                        /\ a[1] \notin Conns => a[2] = {"in"}
                        /\ a[1] = Acceptor => l = 0 /\ backlog > 0
                        /\ \A b \in active'[l] : a[1] = b[1] => a = b
        BY <1>1 DEF ActiveInv
    <2>0. ActiveInv /\ LifeInv /\ a \in active[l]
        BY DEF NetInv
    <2>1. a[1] \in Conns => LoopOf(a[1]) = l /\ Up(a[1])
        BY <2>0 DEF ActiveInv
    <2>2. a[1] \in Conns => Up(a[1])'
        BY <2>0, <2>1, SameStage DEF LifeInv
    <2>3. (a[1] \notin Conns => a[2] = {"in"}) /\ (a[1] = Acceptor => l = 0 /\ backlog > 0)
        BY <2>0 DEF ActiveInv
    <2>4. \A b \in active'[l] : a[1] = b[1] => a = b
        BY <2>0 DEF ActiveInv
    <2> QED BY <2>1, <2>2, <2>3, <2>4
<1>4. Created' = Created
    BY DEF Created, Same
<1>5. BirthInv'
    BY <1>4 DEF NetInv, BirthInv
<1> QED BY <1>2, <1>3, <1>5 DEF NetInv

\* No connection moves on.
LEMMA NoneMoves ==
    ASSUME NetInv, threadNum' = threadNum, UNCHANGED <<conn, told, connections>>,
           \A d \in Conns : WaitsFor(d)' = WaitsFor(d)
    PROVE  /\ LifeInv' /\ Created' = Created /\ (backlog' \in 0..MaxConns => ConnTypes')
           /\ \A d \in Conns : Up(d) => Up(d)'
<1>1. \A d \in Conns : Same(d)
    BY DEF Same
<1>2. LifeInv' /\ \A d \in Conns : Up(d) => Up(d)'
    BY <1>1, SameStage DEF NetInv, LifeInv
<1>3. Created' = Created
    BY DEF Created
<1> QED BY <1>2, <1>3 DEF NetInv, ConnTypes

LEMMA QueueWakes ==
    ASSUME LoopTypes, NEW from \in Loops, NEW to \in Loops, NEW f \in Functors,
           QueueInLoop(from, to, f)
    PROVE  /\ pending' = [pending EXCEPT ![to] = Append(@, f)]
           /\ pending' \in [Loops -> Seq(Functors)] /\ wakeup' \in [Loops -> BOOLEAN]
           /\ \A m \in Loops : /\ wakeup[m] => wakeup'[m]
                               /\ pending'[m] = pending[m] \/ wakeup'[m] \/ phase[m] = "handle"
           /\ \A m \in Loops, g \in Functors : Has(pending'[m], g) <=> Has(pending[m], g) \/ (m = to /\ g = f)
<1>1. pending' = [pending EXCEPT ![to] = Append(pending[to], f)] /\ pending[to] \in Seq(Functors)
    BY DEF QueueInLoop, LoopTypes
<1>2. /\ Append(pending[to], f) \in Seq(Functors)
      /\ \A g : Has(Append(pending[to], f), g) <=> Has(pending[to], g) \/ g = f
    BY <1>1, HasAppend
<1>3. pending' \in [Loops -> Seq(Functors)]
    BY <1>1, <1>2 DEF LoopTypes
<1>4. wakeup' \in [Loops -> BOOLEAN] /\ \A m \in Loops : wakeup[m] => wakeup'[m]
    BY DEF QueueInLoop, LoopTypes
<1>5. \A m \in Loops : m # to => pending'[m] = pending[m]
    BY <1>1 DEF LoopTypes
<1>6. wakeup'[to] \/ phase[to] = "handle"
    BY DEF QueueInLoop, NeedsWakeup, LoopTypes
<1>7. \A m \in Loops, g \in Functors : Has(pending'[m], g) <=> Has(pending[m], g) \/ (m = to /\ g = f)
    BY <1>1, <1>2, <1>5 DEF LoopTypes
<1> QED BY <1>1, <1>3, <1>4, <1>5, <1>6, <1>7

-----------------------------------------------------------------------------
\* The clients and the network.

LEMMA KernelInv ==
    ASSUME NetInv, NEW c \in Conns, NEW k \in Conn, Kernel(c, k),
           k.state = conn[c].state, k.events = conn[c].events, k.index = conn[c].index
    PROVE  NetInv'
<1>1. /\ UNCHANGED <<loopVars, serverVars, ghosts>>
      /\ conn' = [conn EXCEPT ![c] = k]
      /\ conn[c].state # "none"
    BY DEF Kernel
<1>2. /\ conn'[c] = k /\ \A d \in Conns \ {c} : conn'[d] = conn[d]
      /\ conn' \in [Conns -> Conn]
    BY <1>1 DEF NetInv, ConnTypes
<1>3. threadNum' = threadNum /\ Loops' = Loops
    BY <1>1, PrimedQueues DEF serverVars
<1>4. \A d : WaitsFor(d)' = WaitsFor(d)
    BY <1>1, <1>3 DEF WaitsFor, Waiting, loopVars
<1>5. LoopTypes'
    BY <1>1, <1>3 DEF NetInv, LoopTypes, loopVars
<1>6. ConnTypes'
    BY <1>1, <1>2 DEF NetInv, ConnTypes, serverVars, ghosts
<1>7. QueuesInv'
    BY <1>1, <1>3, PrimedQueues DEF NetInv, QueuesInv, loopVars
<1>8. PhaseInv' /\ WakeInv'
    BY <1>1, <1>3 DEF NetInv, PhaseInv, WakeInv, loopVars
<1>9. AssertsHold'
    BY <1>1 DEF NetInv, AssertsHold, ghosts
<1>10. \A d \in Conns \ {c} : Same(d)
    BY <1>1, <1>2, <1>4 DEF Same, serverVars, ghosts
<1>11. Stage(c)' /\ (Up(c) => Up(c)')
    <2>1. Stage(c)
        BY DEF NetInv, LifeInv
    <2>2. /\ told'[c] = told[c] /\ (c \in connections' <=> c \in connections)
          /\ WaitsFor(c)' = WaitsFor(c)
        BY <1>1, <1>4 DEF serverVars, ghosts
    <2> QED BY <1>2, <2>1, <2>2
            DEF Stage, Unborn, Connecting, Up, Closing, Leaving, Erased, Gone, Open, Shut
<1>12. \A l \in Loops : \A a \in active'[l] :
           a \in active[l] /\ (a[1] \in Conns => Same(a[1]) \/ Up(a[1])')
    BY <1>1, <1>10, <1>11 DEF NetInv, ActiveInv, loopVars
<1>13. backlog' = backlog
    BY <1>1 DEF serverVars
<1>14. \A d \in Conns : \/ Same(d)
                        \/ Stage(d)' /\ (conn'[d].state = "none" <=> conn[d].state = "none")
    BY <1>2, <1>10, <1>11
<1> QED BY <1>3, <1>5, <1>6, <1>7, <1>8, <1>9, <1>12, <1>13, <1>14, Moves

LEMMA BirthSize ==
    ASSUME BirthInv
    PROVE  /\ Cardinality(Created) \in 0..MaxConns
           /\ Created = 1..Cardinality(Created)
           /\ backlog + Cardinality(Created) <= MaxConns
<1>1. PICK n \in 0..MaxConns : Created = 1..n /\ backlog + n <= MaxConns
    BY DEF BirthInv
<1>2. n \in Nat
    BY <1>1, TcpServerAssumption
<1>3. Cardinality(1..n) = n
    <2>1. Cardinality(1..n) = IF 1 > n THEN 0 ELSE n - 1 + 1
        BY <1>2, FS_Interval
    <2> QED BY <1>2, <2>1
<1> QED BY <1>1, <1>3

LEMMA NetworkInv ==
    ASSUME NetInv, NEW stream \in Nat, Network(stream)
    PROVE  NetInv'
<1> USE TcpServerAssumption
<1>1. CASE ClientConnects
    <2>1. /\ UNCHANGED <<loopVars, threadNum, connections, conn, ghosts>>
          /\ backlog' = backlog + 1 /\ backlog + Cardinality(Created) < MaxConns
        BY <1>1 DEF ClientConnects
    <2>2. Loops' = Loops /\ \A c : LoopOf(c)' = LoopOf(c)
        BY <2>1, PrimedQueues
    <2>3. \A d : WaitsFor(d)' = WaitsFor(d)
        BY <2>1, <2>2 DEF WaitsFor, Waiting, loopVars
    <2>4. backlog \in 0..MaxConns /\ backlog' \in 0..MaxConns
        <3>1. backlog \in 0..MaxConns /\ Cardinality(Created) \in Nat
            BY BirthSize DEF NetInv, ConnTypes
        <3> QED BY <2>1, <3>1
    <2>5. LifeInv' /\ Created' = Created /\ ConnTypes' /\ \A d \in Conns : Up(d) => Up(d)'
        BY <2>1, <2>3, <2>4, NoneMoves DEF ghosts
    <2>6. LoopTypes' /\ QueuesInv' /\ PhaseInv' /\ WakeInv'
        BY <2>1, <2>2, PrimedQueues
           DEF NetInv, LoopTypes, QueuesInv, PhaseInv, WakeInv, loopVars
    <2>7. ActiveInv'
        <3> SUFFICES ASSUME NEW l \in Loops, NEW a \in active[l]
                     PROVE  /\ a[1] \in Conns => LoopOf(a[1]) = l /\ Up(a[1])'
                            /\ a[1] \notin Conns => a[2] = {"in"}
                            /\ a[1] = Acceptor => l = 0 /\ backlog + 1 > 0
                            /\ \A b \in active[l] : a[1] = b[1] => a = b
            BY <2>1, <2>2 DEF ActiveInv, loopVars
        <3> QED BY <2>4, <2>5 DEF NetInv, ActiveInv
    <2>8. BirthInv'
        <3>1. Cardinality(Created) \in 0..MaxConns /\ Created = 1..Cardinality(Created)
            BY BirthSize DEF NetInv
        <3>2. backlog' + Cardinality(Created) <= MaxConns
            BY <2>1, <2>4, <3>1
        <3> QED BY <2>5, <3>1, <3>2 DEF BirthInv
    <2>9. AssertsHold'
        BY <2>1 DEF NetInv, AssertsHold, ghosts
    <2> QED BY <2>5, <2>6, <2>7, <2>8, <2>9 DEF NetInv
<1>2. ASSUME NEW c \in Conns,
             ClientSends(c, stream) \/ ClientCloses(c) \/ ClientResets(c) \/ SendBufferDrains(c)
      PROVE  NetInv'
    <2> DEFINE k == conn[c]
    <2>1. k \in Conn
        BY DEF NetInv, ConnTypes
    <2>2. CASE ClientSends(c, stream)
        <3> DEFINE n == k.rcv + 1
        <3> DEFINE m == [k EXCEPT !.rcv = n]
        <3>1. n \in Nat
            BY <2>1, ConnIs
        <3>2. Kernel(c, m)
            BY <2>2 DEF ClientSends
        <3> HIDE DEF n
        <3>3. m \in Conn /\ m.state = k.state /\ m.events = k.events /\ m.index = k.index
            BY <2>1, <3>1, ConnIs
        <3> QED BY <3>2, <3>3, KernelInv
    <2>3. CASE ClientCloses(c)
        <3> DEFINE m == [k EXCEPT !.fin = TRUE]
        <3>1. Kernel(c, m)
            BY <2>3 DEF ClientCloses
        <3>2. m \in Conn /\ m.state = k.state /\ m.events = k.events /\ m.index = k.index
            BY <2>1, ConnIs
        <3> QED BY <3>1, <3>2, KernelInv
    <2>4. CASE ClientResets(c)
        <3> DEFINE m == [k EXCEPT !.rst = TRUE, !.err = TRUE, !.snd = 0]
        <3>0. 0 \in 0..SndCap
            OBVIOUS
        <3>1. Kernel(c, m)
            BY <2>4 DEF ClientResets
        <3>2. m \in Conn /\ m.state = k.state /\ m.events = k.events /\ m.index = k.index
            BY <2>1, <3>0, ConnIs
        <3> QED BY <3>1, <3>2, KernelInv
    <2>5. CASE SendBufferDrains(c)
        <3> DEFINE m == [k EXCEPT !.snd = 0]
        <3>0. 0 \in 0..SndCap
            OBVIOUS
        <3>1. Kernel(c, m)
            BY <2>5 DEF SendBufferDrains
        <3>2. m \in Conn /\ m.state = k.state /\ m.events = k.events /\ m.index = k.index
            BY <2>1, <3>0, ConnIs
        <3> QED BY <3>1, <3>2, KernelInv
    <2> QED BY <1>2, <2>2, <2>3, <2>4, <2>5
<1> QED BY <1>1, <1>2 DEF Network

-----------------------------------------------------------------------------
\* A loop takes a channel or a functor: what is left of its own state, whatever
\* the handler then queues.

ActiveTypes == SUBSET (({Acceptor, Wakeup} \cup Conns) \X SUBSET {"err", "in", "out"})

LoopMoves ==
    /\ threadNum' = threadNum /\ phase' = phase
    /\ active' \in [Loops -> ActiveTypes]
    /\ current' \in [Loops -> {Idle} \cup Conns]
    /\ calling' \in [Loops -> Seq(Functors)]
    /\ \A m \in Loops : /\ active'[m] \subseteq active[m]
                        /\ phase[m] = "handle" => calling'[m] = <<>>
    /\ QueuesOK(pending, calling')

LEMMA TakeIs ==
    ASSUME NetInv, NEW l \in Loops, NEW a, Take(l, a), threadNum' = threadNum,
           current' \in [Loops -> {Idle} \cup Conns]
    PROVE  /\ LoopMoves /\ calling' = calling /\ a \in active[l]
           /\ phase[l] = "handle"
           /\ \A d \in Conns : Waiting(pending, calling', d) = WaitsFor(d)
           /\ a[1] \in Conns => /\ LoopOf(a[1]) = l /\ Up(a[1])
                                /\ \A m \in Loops : \A b \in active'[m] : b[1] # a[1]
           /\ a[1] = Acceptor => /\ l = 0 /\ backlog > 0
                                 /\ \A m \in Loops : \A b \in active'[m] : b[1] # Acceptor
<1>1. /\ a \in active[l] /\ active' = [active EXCEPT ![l] = @ \ {a}]
      /\ phase' = phase /\ calling' = calling /\ phase[l] = "handle"
    BY DEF Take
<1>2. active \in [Loops -> ActiveTypes]
    BY DEF NetInv, LoopTypes, ActiveTypes
<1>3. /\ active'[l] = active[l] \ {a} /\ \A m \in Loops : m # l => active'[m] = active[m]
    BY <1>1, <1>2
<1>4. active' \in [Loops -> ActiveTypes]
    <2>1. active[l] \ {a} \in ActiveTypes
        BY <1>2 DEF ActiveTypes
    <2> QED BY <1>1, <1>2, <2>1
<1>5. LoopMoves
    <2>1. \A m \in Loops : phase[m] = "handle" => calling'[m] = <<>>
        BY <1>1 DEF NetInv, PhaseInv
    <2>2. calling' \in [Loops -> Seq(Functors)] /\ QueuesOK(pending, calling')
        BY <1>1 DEF NetInv, LoopTypes, QueuesInv
    <2>3. \A m \in Loops : active'[m] \subseteq active[m]
        BY <1>3
    <2> QED BY <1>1, <1>4, <2>1, <2>2, <2>3 DEF LoopMoves
<1>6. \A d \in Conns : Waiting(pending, calling', d) = WaitsFor(d)
    BY <1>1 DEF WaitsFor
<1>7. ActiveInv
    BY DEF NetInv
<1>8. ASSUME a[1] \in Conns
      PROVE  LoopOf(a[1]) = l /\ Up(a[1]) /\ \A m \in Loops : \A b \in active'[m] : b[1] # a[1]
    <2>1. LoopOf(a[1]) = l /\ Up(a[1])
        BY <1>1, <1>7, <1>8 DEF ActiveInv
    <2>2. ASSUME NEW m \in Loops, NEW b \in active'[m], b[1] = a[1] PROVE FALSE
        <3>1. b \in active[m]
            BY <1>3, <2>2
        <3>2. m = l
            BY <1>7, <1>8, <2>1, <2>2, <3>1 DEF ActiveInv
        <3>3. b = a
            BY <1>1, <1>7, <2>2, <3>1, <3>2 DEF ActiveInv
        <3> QED BY <1>3, <2>2, <3>2, <3>3
    <2> QED BY <2>1, <2>2
<1>9. ASSUME a[1] = Acceptor
      PROVE  l = 0 /\ backlog > 0 /\ \A m \in Loops : \A b \in active'[m] : b[1] # Acceptor
    <2>1. l = 0 /\ backlog > 0
        BY <1>1, <1>7, <1>9 DEF ActiveInv
    <2>2. ASSUME NEW m \in Loops, NEW b \in active'[m], b[1] = Acceptor PROVE FALSE
        <3>1. b \in active[m]
            BY <1>3, <2>2
        <3>2. m = l
            BY <1>7, <2>1, <2>2, <3>1 DEF ActiveInv
        <3>3. b = a
            BY <1>1, <1>7, <1>9, <2>2, <3>1, <3>2 DEF ActiveInv
        <3> QED BY <1>3, <2>2, <3>2, <3>3
    <2> QED BY <2>1, <2>2
<1> QED BY <1>1, <1>5, <1>6, <1>8, <1>9

LEMMA FunctorIs ==
    ASSUME NetInv, NEW l \in Loops, NEW op, NextFunctor(l, op)
    PROVE  LET c == Head(calling[l])[2] IN
           /\ LoopMoves /\ active' = active /\ backlog' = backlog
           /\ op \in Ops /\ c \in Conns /\ l = Home(<<op, c>>)
           /\ active[l] = {} /\ phase[l] = "call"
           /\ WaitsFor(c) = {op} /\ Waiting(pending, calling', c) = {}
           /\ \A d \in Conns \ {c} : Waiting(pending, calling', d) = WaitsFor(d)
<1> DEFINE c == Head(calling[l])[2]
<1>1. /\ phase[l] = "call" /\ calling[l] # <<>> /\ Head(calling[l])[1] = op
      /\ calling' = [calling EXCEPT ![l] = Tail(@)]
      /\ UNCHANGED <<phase, active, current, threadNum, backlog>>
    BY DEF NextFunctor
<1>2. /\ threadNum \in Nat /\ QueuesOK(pending, calling)
      /\ pending \in [Loops -> Seq(Functors)] /\ calling \in [Loops -> Seq(Functors)]
    BY DEF NetInv, LoopTypes, QueuesInv
<1>3. Head(calling[l]) = <<op, c>>
    <2>1. calling[l] \in Seq(Functors) /\ calling[l] # <<>>
        BY <1>1, <1>2
    <2>2. Head(calling[l]) \in Functors
        BY <2>1, HeadTailProperties
    <2> QED BY <1>1, <2>2 DEF Functors
<1> HIDE DEF c
<1>4. /\ op \in Ops /\ c \in Conns /\ l = Home(<<op, c>>)
      /\ calling' \in [Loops -> Seq(Functors)] /\ QueuesOK(pending, calling')
      /\ op \in WaitsFor(c)
      /\ Waiting(pending, calling', c) = WaitsFor(c) \ {op}
      /\ \A d \in Conns \ {c} : Waiting(pending, calling', d) = WaitsFor(d)
    <2> DEFINE D == calling'
    <2>1. Called(calling, D, l, <<op, c>>)
        BY <1>1, <1>3 DEF Called
    <2>2. pending \in Queues /\ calling \in Queues
        BY <1>2 DEF Queues
    <2> HIDE DEF D
    <2>3. /\ op \in Ops /\ c \in Conns /\ l = Home(<<op, c>>)
          /\ D \in Queues /\ QueuesOK(pending, D)
          /\ op \in Waiting(pending, calling, c)
          /\ Waiting(pending, D, c) = Waiting(pending, calling, c) \ {op}
          /\ \A d \in Conns \ {c} : Waiting(pending, D, d) = Waiting(pending, calling, d)
        BY <1>2, <2>1, <2>2, CallTakes
    <2> QED BY <2>3 DEF D, WaitsFor, Queues
<1>5. WaitsFor(c) = {op}
    <2>1. Stage(c)
        BY <1>4 DEF NetInv, LifeInv
    <2> QED BY <1>4, <2>1 DEF Stage, Unborn, Connecting, Up, Closing, Leaving, Erased, Gone
<1>6. PhaseInv
    BY DEF NetInv
<1>7. active[l] = {}
    BY <1>1, <1>6 DEF PhaseInv
<1>8. \A m \in Loops : phase[m] = "handle" => calling'[m] = <<>>
    <2> SUFFICES ASSUME NEW m \in Loops, phase[m] = "handle" PROVE calling'[m] = <<>>
        OBVIOUS
    <2>1. m # l
        BY <1>1
    <2> QED BY <1>1, <1>2, <1>6, <2>1 DEF PhaseInv
<1>9. LoopMoves
    BY <1>1, <1>4, <1>8 DEF LoopMoves, NetInv, LoopTypes, ActiveTypes
<1> QED BY <1>1, <1>4, <1>5, <1>7, <1>9 DEF c

\* The handler queues nothing.
LEMMA QuietStep ==
    ASSUME NetInv, LoopMoves, UNCHANGED <<pending, wakeup>>
    PROVE  /\ LoopTypes' /\ QueuesInv' /\ PhaseInv' /\ WakeInv'
           /\ \A d \in Conns : WaitsFor(d)' = Waiting(pending, calling', d)
<1>1. threadNum' = threadNum /\ phase' = phase /\ pending' = pending /\ wakeup' = wakeup
    BY DEF LoopMoves
<1>2. Loops' = Loops /\ \A d : WaitsFor(d)' = Waiting(pending', calling', d)
    BY <1>1, PrimedQueues
<1>3. LoopTypes'
    BY <1>1, <1>2 DEF NetInv, LoopTypes, LoopMoves, ActiveTypes
<1>4. QueuesInv'
    BY <1>1, PrimedQueues DEF LoopMoves
<1>5. PhaseInv'
    BY <1>1, <1>2 DEF NetInv, PhaseInv, LoopMoves
<1>6. WakeInv'
    BY <1>1, <1>2 DEF NetInv, WakeInv
<1> QED BY <1>1, <1>2, <1>3, <1>4, <1>5, <1>6

\* The handler queues a functor for c, for which none waits any more.
LEMMA QueueStep ==
    ASSUME NetInv, LoopMoves, NEW c \in Conns, NEW op \in Ops,
           Waiting(pending, calling', c) = {},
           \A d \in Conns \ {c} : Waiting(pending, calling', d) = WaitsFor(d),
           NEW from \in Loops, NEW to \in Loops, to = Home(<<op, c>>),
           QueueInLoop(from, to, <<op, c>>),
           op = "forceCloseInLoop" => phase[to] = "handle"
    PROVE  /\ LoopTypes' /\ QueuesInv' /\ PhaseInv' /\ WakeInv'
           /\ WaitsFor(c)' = {op} /\ \A d \in Conns \ {c} : WaitsFor(d)' = WaitsFor(d)
<1> DEFINE f == <<op, c>>
<1>0. f \in Functors
    BY DEF Functors, Ops
<1>1. threadNum' = threadNum /\ phase' = phase /\ threadNum \in Nat /\ LoopTypes /\ PhaseInv
    BY DEF LoopMoves, NetInv, LoopTypes
<1>2. Loops' = Loops /\ \A d : WaitsFor(d)' = Waiting(pending', calling', d)
    BY <1>1, PrimedQueues
<1>3. QueueInLoop(from, to, f) /\ Queued(pending, pending', to, f)
    BY DEF QueueInLoop, Queued
<1>9. pending' \in [Loops -> Seq(Functors)] /\ wakeup' \in [Loops -> BOOLEAN]
    <2> HIDE DEF f
    <2> QED BY <1>0, <1>1, <1>3, QueueWakes
<1>10. \A m \in Loops : /\ wakeup[m] => wakeup'[m]
                        /\ pending'[m] = pending[m] \/ wakeup'[m] \/ phase[m] = "handle"
    <2> HIDE DEF f
    <2> QED BY <1>0, <1>1, <1>3, QueueWakes
<1>11. \A m \in Loops, g \in Functors :
             Has(pending'[m], g) <=> Has(pending[m], g) \/ (m = to /\ g = f)
    <2> HIDE DEF f
    <2> QED BY <1>0, <1>1, <1>3, QueueWakes
<1>4. /\ QueuesOK(pending', calling') /\ Waiting(pending', calling', c) = {op}
      /\ \A d \in Conns \ {c} : Waiting(pending', calling', d) = Waiting(pending, calling', d)
    <2> DEFINE Q == pending'
    <2> DEFINE D == calling'
    <2>1. pending \in Queues /\ D \in Queues /\ QueuesOK(pending, D)
        BY <1>1 DEF LoopMoves, LoopTypes, Queues
    <2>2. Queued(pending, Q, to, <<op, c>>) /\ op \notin Waiting(pending, D, c)
        BY <1>3
    <2>3. Waiting(pending, D, c) = {}
        OBVIOUS
    <2> HIDE DEF Q, D
    <2>4. /\ QueuesOK(Q, D) /\ Waiting(Q, D, c) = Waiting(pending, D, c) \cup {op}
          /\ \A d \in Conns \ {c} : Waiting(Q, D, d) = Waiting(pending, D, d)
        BY <1>1, <2>1, <2>2, QueueAdds
    <2> QED BY <2>3, <2>4 DEF Q, D
<1>5. LoopTypes'
    BY <1>1, <1>2, <1>9 DEF LoopTypes, LoopMoves, ActiveTypes
<1>6. QueuesInv'
    BY <1>1, <1>4, PrimedQueues
<1>7. PhaseInv'
    <2> SUFFICES ASSUME NEW m \in Loops
                 PROVE  /\ phase[m] = "handle" => calling'[m] = <<>>
                        /\ phase[m] = "call" => active'[m] = {}
                        /\ \A d \in Conns : Has(pending'[m], <<"forceCloseInLoop", d>>)
                                                => phase[m] = "handle"
        BY <1>1, <1>2 DEF PhaseInv
    <2>1. phase[m] = "handle" => calling'[m] = <<>>
        BY DEF LoopMoves
    <2>2. phase[m] = "call" => active'[m] = {}
        BY <1>1 DEF LoopMoves, PhaseInv
    <2>3. ASSUME NEW d \in Conns, Has(pending'[m], <<"forceCloseInLoop", d>>)
          PROVE  phase[m] = "handle"
        <3>1. <<"forceCloseInLoop", d>> \in Functors
            BY DEF Functors
        <3>2. \/ Has(pending[m], <<"forceCloseInLoop", d>>)
              \/ m = to /\ <<"forceCloseInLoop", d>> = <<op, c>>
            BY <1>11, <2>3, <3>1
        <3> QED BY <1>1, <3>2 DEF PhaseInv
    <2> QED BY <2>1, <2>2, <2>3
<1>8. WakeInv'
    <2>1. phase \in [Loops -> {"handle", "call"}] /\ WakeInv
        BY DEF NetInv, LoopTypes
    <2> QED BY <1>1, <1>2, <1>10, <2>1 DEF WakeInv
<1> QED BY <1>2, <1>4, <1>5, <1>6, <1>7, <1>8

-----------------------------------------------------------------------------
\* A handler that changes one connection at most and leaves its stage.
LEMMA TouchInv ==
    ASSUME NetInv, LoopMoves, UNCHANGED <<pending, wakeup, serverVars, ghosts>>,
           \A d \in Conns : Waiting(pending, calling', d) = WaitsFor(d),
           NEW c \in Conns, NEW k \in Conn, conn' = [conn EXCEPT ![c] = k],
           k = conn[c] \/ (Open(conn[c]) /\ Open(k))
    PROVE  NetInv'
<1>1. /\ conn'[c] = k /\ \A d \in Conns \ {c} : conn'[d] = conn[d]
      /\ conn' \in [Conns -> Conn]
    BY DEF NetInv, ConnTypes
<1>2. /\ threadNum' = threadNum /\ backlog' = backlog /\ told' = told /\ connections' = connections
      /\ asserts' = asserts
    BY DEF serverVars, ghosts
<1>3. /\ LoopTypes' /\ QueuesInv' /\ PhaseInv' /\ WakeInv'
      /\ \A d \in Conns : WaitsFor(d)' = WaitsFor(d)
    BY QuietStep
<1>4. ConnTypes'
    BY <1>1, <1>2 DEF NetInv, ConnTypes
<1>5. AssertsHold'
    BY <1>2 DEF NetInv, AssertsHold
<1>6. \A d \in Conns \ {c} : Same(d)
    BY <1>1, <1>2, <1>3 DEF Same
<1>7. CASE k = conn[c]
    <2>1. \A d \in Conns : Same(d)
        BY <1>1, <1>2, <1>3, <1>7 DEF Same
    <2>2. \A l \in Loops : \A a \in active'[l] : a \in active[l]
        BY DEF LoopMoves
    <2> QED BY <1>2, <1>3, <1>4, <1>5, <2>1, <2>2, Moves
<1>8. CASE Open(conn[c]) /\ Open(k)
    <2>1. Up(c) \/ Closing(c)
        BY <1>8, StageOf DEF NetInv
    <2>2. Stage(c)' /\ (Up(c) => Up(c)')
        BY <1>1, <1>2, <1>3, <1>8, <2>1 DEF Stage, Up, Closing
    <2>3. conn[c].state # "none" /\ conn'[c].state # "none"
        BY <1>1, <1>8 DEF Open
    <2>4. \A d \in Conns : \/ Same(d)
                           \/ Stage(d)' /\ (conn'[d].state = "none" <=> conn[d].state = "none")
        BY <1>6, <2>2, <2>3
    <2>5. ASSUME NEW l \in Loops, NEW a \in active'[l]
          PROVE  a \in active[l] /\ (a[1] \in Conns => Same(a[1]) \/ Up(a[1])')
        <3>1. a \in active[l]
            BY DEF LoopMoves
        <3>2. a[1] \in Conns => Up(a[1])
            BY <3>1 DEF NetInv, ActiveInv
        <3> QED BY <1>6, <2>2, <3>1, <3>2
    <2> QED BY <1>2, <1>3, <1>4, <1>5, <2>4, <2>5, Moves
<1> QED BY <1>7, <1>8

\* handleClose by the loop of an open connection for which no functor waits: it
\* is on its way out of connections_, or, on the base loop, out already.
LEMMA CloseInv ==
    ASSUME NetInv, LoopMoves, backlog' = backlog,
           NEW l \in Loops, NEW c \in Conns, l = LoopOf(c), HandleClose(l, c),
           Open(conn[c]), c \in connections,
           Waiting(pending, calling', c) = {},
           \A d \in Conns \ {c} : Waiting(pending, calling', d) = WaitsFor(d),
           \A m \in Loops : \A b \in active'[m] : b[1] # c
    PROVE  NetInv'
<1>0. threadNum' = threadNum /\ 0 \in Loops
    BY NetConstants DEF LoopMoves, NetInv, LoopTypes
<1>1. /\ conn' = [conn EXCEPT ![c] = Disconnect(conn[c])]
      /\ told' = [told EXCEPT ![c] = "down"]
    BY DEF HandleClose
<1>2. /\ Disconnect(conn[c]) \in Conn /\ Disconnect(conn[c]).state = "disconnected"
      /\ Shut(Disconnect(conn[c]), "deleted")
    BY DisconnectIs DEF NetInv, ConnTypes
<1>3. /\ conn'[c] = Disconnect(conn[c]) /\ \A d \in Conns \ {c} : conn'[d] = conn[d]
      /\ conn' \in [Conns -> Conn]
    <2> HIDE DEF Disconnect
    <2> QED BY <1>1, <1>2 DEF NetInv, ConnTypes
<1>4. /\ told'[c] = "down" /\ \A d \in Conns \ {c} : told'[d] = told[d]
      /\ told' \in [Conns -> {"none", "up", "closing", "down"}]
    BY <1>1 DEF NetInv, ConnTypes
<1>5. /\ AssertsHold'
      /\ \A d \in Conns \ {c} : d \in connections' <=> d \in connections
      /\ connections' \subseteq Conns
      /\ LoopTypes' /\ QueuesInv' /\ PhaseInv' /\ WakeInv'
      /\ \A d \in Conns \ {c} : WaitsFor(d)' = WaitsFor(d)
      /\ \/ WaitsFor(c)' = {"connectDestroyed"} /\ c \notin connections'
         \/ WaitsFor(c)' = {"removeConnectionInLoop"} /\ c \in connections'
    <2>0. asserts /\ conn[c].state \in {"connected", "disconnecting"} /\ connections \subseteq Conns
        BY DEF NetInv, AssertsHold, Open, ConnTypes
    <2>1. CASE l = 0
        <3>1. /\ asserts' = (asserts /\ conn[c].state \in {"connected", "disconnecting"}
                                 /\ c \in connections)
              /\ connections' = connections \ {c}
              /\ QueueInLoop(0, LoopOf(c), <<"connectDestroyed", c>>)
            BY <2>1 DEF HandleClose, RemoveConnectionInLoop
        <3>2. LoopOf(c) \in Loops /\ LoopOf(c) = Home(<<"connectDestroyed", c>>)
            BY DEF Home
        <3>3. /\ LoopTypes' /\ QueuesInv' /\ PhaseInv' /\ WakeInv'
              /\ WaitsFor(c)' = {"connectDestroyed"}
              /\ \A d \in Conns \ {c} : WaitsFor(d)' = WaitsFor(d)
            <4>1. "connectDestroyed" \in Ops
                BY DEF Ops
            <4> QED BY <1>0, <3>1, <3>2, <4>1, QueueStep
        <3> QED BY <2>0, <3>1, <3>3 DEF AssertsHold
    <2>2. CASE l # 0
        <3>1. /\ asserts' = (asserts /\ conn[c].state \in {"connected", "disconnecting"})
              /\ connections' = connections
              /\ QueueInLoop(l, 0, <<"removeConnectionInLoop", c>>)
            BY <2>2 DEF HandleClose
        <3>2. 0 = Home(<<"removeConnectionInLoop", c>>)
            BY DEF Home
        <3>3. /\ LoopTypes' /\ QueuesInv' /\ PhaseInv' /\ WakeInv'
              /\ WaitsFor(c)' = {"removeConnectionInLoop"}
              /\ \A d \in Conns \ {c} : WaitsFor(d)' = WaitsFor(d)
            <4>1. "removeConnectionInLoop" \in Ops
                BY DEF Ops
            <4> QED BY <1>0, <3>1, <3>2, <4>1, QueueStep
        <3> QED BY <2>0, <3>1, <3>3 DEF AssertsHold
    <2> QED BY <2>1, <2>2
<1>6. ConnTypes'
    BY <1>3, <1>4, <1>5 DEF NetInv, ConnTypes
<1>7. \A d \in Conns \ {c} : Same(d)
    BY <1>3, <1>4, <1>5 DEF Same
<1>8. Stage(c)'
    <2>1. conn'[c].state = "disconnected" /\ Shut(conn'[c], "deleted")
        BY <1>2, <1>3
    <2> QED BY <1>4, <1>5, <2>1 DEF Stage, Leaving, Erased
<1>9. conn[c].state # "none" /\ conn'[c].state # "none"
    BY <1>2, <1>3 DEF Open
<1>10. \A d \in Conns : \/ Same(d)
                        \/ Stage(d)' /\ (conn'[d].state = "none" <=> conn[d].state = "none")
    BY <1>7, <1>8, <1>9
<1>11. \A m \in Loops : \A a \in active'[m] :
           a \in active[m] /\ (a[1] \in Conns => Same(a[1]) \/ Up(a[1])')
    BY <1>7 DEF LoopMoves
<1> QED BY <1>0, <1>5, <1>6, <1>10, <1>11, Moves

-----------------------------------------------------------------------------
\* The steps of a loop, one by one.

LEMMA PollInv ==
    ASSUME NetInv, NEW l \in Loops, Poll(l)
    PROVE  NetInv'
<1> DEFINE ready == {<<c, Revents(conn[c])>> :
                         c \in {d \in Conns : LoopOf(d) = l /\ conn[d].index = "added"
                                                  /\ Revents(conn[d]) # {}}}
<1> DEFINE accept == IF l = 0 /\ backlog > 0 THEN {<<Acceptor, {"in"}>>} ELSE {}
<1> DEFINE woken == IF wakeup[l] THEN {<<Wakeup, {"in"}>>} ELSE {}
<1> DEFINE all == ready \cup accept \cup woken
<1>1. /\ phase[l] = "call" /\ calling[l] = <<>>
      /\ active' = [active EXCEPT ![l] = all]
      /\ phase' = [phase EXCEPT ![l] = "handle"]
      /\ UNCHANGED <<current, pending, calling, wakeup, serverVars, conn, ghosts>>
    BY DEF Poll
<1>2. /\ threadNum' = threadNum /\ backlog' = backlog /\ told' = told /\ connections' = connections
      /\ asserts' = asserts /\ conn' = conn /\ pending' = pending /\ calling' = calling
    BY <1>1 DEF serverVars, ghosts
<1>3. Loops' = Loops /\ \A d : LoopOf(d)' = LoopOf(d) /\ WaitsFor(d)' = Waiting(pending', calling', d)
    BY <1>2, PrimedQueues
<1>4. \A d \in Conns : WaitsFor(d)' = WaitsFor(d)
    BY <1>2, <1>3 DEF WaitsFor
<1>5. /\ LifeInv' /\ Created' = Created /\ ConnTypes' /\ \A d \in Conns : Up(d) => Up(d)'
    <2>1. backlog' \in 0..MaxConns
        BY <1>2 DEF NetInv, ConnTypes
    <2> QED BY <1>2, <1>4, <2>1, NoneMoves
<1>6. \A d \in Conns : LoopOf(d) = l /\ conn[d].index = "added" => Up(d)
    <2> SUFFICES ASSUME NEW d \in Conns, LoopOf(d) = l, conn[d].index = "added" PROVE Up(d)
        OBVIOUS
    <2>1. Stage(d)
        BY DEF NetInv, LifeInv
    <2>2. Up(d) \/ Closing(d)
        BY <2>1 DEF Stage, Unborn, Connecting, Leaving, Erased, Gone, Shut
    <2>3. ASSUME Closing(d) PROVE FALSE
        <3>1. PICK m \in Loops : \/ Has(pending[m], <<"forceCloseInLoop", d>>)
                                 \/ Has(calling[m], <<"forceCloseInLoop", d>>)
            BY <2>3 DEF Closing, WaitsFor, Waiting
        <3>2. m = l
            <4>1. <<"forceCloseInLoop", d>> \in Functors /\ Home(<<"forceCloseInLoop", d>>) = l
                BY DEF Functors, Home
            <4> QED BY <3>1, <4>1 DEF NetInv, QueuesInv, QueuesOK
        <3>3. ~Has(calling[l], <<"forceCloseInLoop", d>>)
            BY <1>1, HasNone
        <3>4. ~Has(pending[l], <<"forceCloseInLoop", d>>)
            BY <1>1 DEF NetInv, PhaseInv
        <3> QED BY <3>1, <3>2, <3>3, <3>4
    <2> QED BY <2>2, <2>3
<1>7. \A d \in Conns : Revents(conn[d]) \in SUBSET {"err", "in", "out"}
    <2> SUFFICES ASSUME NEW d \in Conns PROVE Revents(conn[d]) \in SUBSET {"err", "in", "out"}
        OBVIOUS
    <2>1. conn[d].events \in Events
        BY ConnIs DEF NetInv, ConnTypes
    <2> QED BY <2>1 DEF Revents, Events
<1>8. /\ \A a \in all : a[1] \in Conns => LoopOf(a[1]) = l /\ Up(a[1]) /\ a[2] = Revents(conn[a[1]])
      /\ \A a \in all : a[1] \notin Conns => a[2] = {"in"}
      /\ \A a \in all : a[1] = Acceptor => l = 0 /\ backlog > 0
      /\ all \in ActiveTypes
    <2>0. Acceptor \notin Conns /\ Wakeup \notin Conns /\ Acceptor # Wakeup
        BY DEF Acceptor, Wakeup, Conns
    <2>1. \A a \in ready : /\ a = <<a[1], Revents(conn[a[1]])>> /\ a[1] \in Conns
                           /\ LoopOf(a[1]) = l /\ Up(a[1])
        <3> HIDE DEF Revents
        <3> QED BY <1>6
    <2>2. \A a \in accept : a = <<Acceptor, {"in"}>> /\ l = 0 /\ backlog > 0
        OBVIOUS
    <2>3. \A a \in woken : a = <<Wakeup, {"in"}>>
        OBVIOUS
    <2> HIDE DEF ready, accept, woken
    <2>4. ready \in ActiveTypes
        <3> SUFFICES ASSUME NEW a \in ready
                     PROVE  a \in ({Acceptor, Wakeup} \cup Conns) \X SUBSET {"err", "in", "out"}
            BY DEF ActiveTypes
        <3> HIDE DEF Revents
        <3> QED BY <1>7, <2>1
    <2>5. accept \in ActiveTypes /\ woken \in ActiveTypes
        BY <2>2, <2>3 DEF ActiveTypes
    <2>6. all \in ActiveTypes
        BY <2>4, <2>5 DEF ActiveTypes
    <2>7. \A a \in all : a[1] \in Conns => a \in ready
        BY <2>0, <2>2, <2>3
    <2>8. \A a \in all : a[1] = Acceptor => a \in accept
        BY <2>0, <2>1, <2>3
    <2>9. \A a \in all : a[1] \notin Conns => a[2] = {"in"}
        BY <2>1, <2>2, <2>3
    <2>10. \A a \in all : a[1] \in Conns => LoopOf(a[1]) = l /\ Up(a[1]) /\ a[2] = Revents(conn[a[1]])
        <3> HIDE DEF Revents, all
        <3> QED BY <2>1, <2>7
    <2> QED BY <2>2, <2>6, <2>8, <2>9, <2>10
<1> HIDE DEF all
<1>9. /\ active'[l] = all /\ \A m \in Loops : m # l => active'[m] = active[m]
      /\ phase'[l] = "handle" /\ \A m \in Loops : m # l => phase'[m] = phase[m]
    BY <1>1 DEF NetInv, LoopTypes
<1>10. LoopTypes'
    <2>1. active' \in [Loops -> ActiveTypes]
        BY <1>1, <1>8 DEF NetInv, LoopTypes, ActiveTypes
    <2>2. phase' \in [Loops -> {"handle", "call"}]
        BY <1>1 DEF NetInv, LoopTypes
    <2> QED BY <1>1, <1>2, <1>3, <2>1, <2>2 DEF NetInv, LoopTypes, ActiveTypes
<1>11. QueuesInv'
    BY <1>2, PrimedQueues DEF NetInv, QueuesInv
<1>12. PhaseInv'
    <2> SUFFICES ASSUME NEW m \in Loops
                 PROVE  /\ phase'[m] = "handle" => calling[m] = <<>>
                        /\ phase'[m] = "call" => active'[m] = {}
                        /\ \A c \in Conns : Has(pending[m], <<"forceCloseInLoop", c>>)
                                                => phase'[m] = "handle"
        BY <1>2, <1>3 DEF PhaseInv
    <2> QED BY <1>1, <1>9 DEF NetInv, PhaseInv
<1>13. ActiveInv'
    <2> SUFFICES ASSUME NEW m \in Loops, NEW a \in active'[m]
                 PROVE  /\ a[1] \in Conns => LoopOf(a[1]) = m /\ Up(a[1])'
                        /\ a[1] \notin Conns => a[2] = {"in"}
                        /\ a[1] = Acceptor => m = 0 /\ backlog > 0
                        /\ \A b \in active'[m] : a[1] = b[1] => a = b
        BY <1>2, <1>3 DEF ActiveInv
    <2>1. CASE m = l
        <3>1. a \in all
            BY <1>9, <2>1
        <3>2. ASSUME NEW b \in all, a[1] = b[1] PROVE a = b
            <4>1. a = <<a[1], a[2]>> /\ b = <<b[1], b[2]>>
                BY <1>8, <3>1 DEF ActiveTypes
            <4>2. CASE a[1] \in Conns
                <5> HIDE DEF Revents
                <5> QED BY <1>8, <3>1, <3>2, <4>1, <4>2
            <4>3. CASE a[1] \notin Conns
                BY <1>8, <3>1, <3>2, <4>1, <4>3
            <4> QED BY <4>2, <4>3
        <3> QED BY <1>5, <1>8, <1>9, <2>1, <3>1, <3>2
    <2>2. CASE m # l
        BY <1>5, <1>9, <2>2 DEF NetInv, ActiveInv
    <2> QED BY <2>1, <2>2
<1>14. BirthInv'
    BY <1>2, <1>5 DEF NetInv, BirthInv
<1>15. WakeInv'
    <2> SUFFICES ASSUME NEW m \in Loops, phase'[m] = "call", pending[m] # <<>> PROVE wakeup[m]
        BY <1>1, <1>2, <1>3 DEF WakeInv
    <2>1. m # l
        BY <1>9
    <2> QED BY <1>9, <2>1 DEF NetInv, WakeInv
<1>16. AssertsHold'
    BY <1>2 DEF NetInv, AssertsHold
<1> QED BY <1>5, <1>10, <1>11, <1>12, <1>13, <1>14, <1>15, <1>16 DEF NetInv

LEMMA HandleWakeupInv ==
    ASSUME NetInv, NEW l \in Loops, NEW a, HandleWakeup(l, a)
    PROVE  NetInv'
<1>1. /\ Take(l, a) /\ wakeup' = [wakeup EXCEPT ![l] = FALSE]
      /\ current' = current /\ pending' = pending /\ conn' = conn
      /\ threadNum' = threadNum /\ backlog' = backlog /\ told' = told /\ connections' = connections
      /\ asserts' = asserts
    BY DEF HandleWakeup, serverVars, ghosts
<1>2. /\ LoopMoves /\ calling' = calling /\ phase[l] = "handle"
      /\ \A d \in Conns : Waiting(pending, calling', d) = WaitsFor(d)
    <2>1. current' \in [Loops -> {Idle} \cup Conns]
        BY <1>1 DEF NetInv, LoopTypes
    <2> QED BY <1>1, <2>1, TakeIs
<1>3. Loops' = Loops /\ \A d : WaitsFor(d)' = Waiting(pending', calling', d)
    BY <1>1, PrimedQueues
<1>4. \A d \in Conns : Same(d)
    BY <1>1, <1>2, <1>3 DEF Same
<1>5. LoopTypes'
    BY <1>1, <1>3, <1>2 DEF NetInv, LoopTypes, LoopMoves, ActiveTypes
<1>6. QueuesInv'
    BY <1>1, <1>2, PrimedQueues DEF LoopMoves
<1>7. PhaseInv'
    BY <1>1, <1>2, <1>3 DEF NetInv, PhaseInv, LoopMoves
<1>8. WakeInv'
    <2> SUFFICES ASSUME NEW m \in Loops, phase[m] = "call", pending[m] # <<>> PROVE wakeup'[m]
        BY <1>1, <1>2, <1>3 DEF WakeInv, LoopMoves
    <2>1. m # l
        BY <1>2
    <2>2. wakeup'[m] = wakeup[m]
        BY <1>1, <2>1 DEF NetInv, LoopTypes
    <2> QED BY <2>2 DEF NetInv, WakeInv
<1>9. ConnTypes' /\ AssertsHold'
    BY <1>1 DEF NetInv, ConnTypes, AssertsHold
<1>10. \A m \in Loops : \A b \in active'[m] : b \in active[m]
    BY <1>2 DEF LoopMoves
<1> QED BY <1>1, <1>4, <1>5, <1>6, <1>7, <1>8, <1>9, <1>10, Moves

LEMMA HandleWritableInv ==
    ASSUME NetInv, NEW l \in Loops, NEW a, HandleWritable(l, a)
    PROVE  NetInv'
<1>1. /\ Take(l, a)
      /\ conn' = [conn EXCEPT ![a[1]] = HandleWrite(conn[a[1]])]
      /\ current' = current /\ UNCHANGED <<pending, wakeup, serverVars, ghosts>>
    BY DEF HandleWritable
<1>2. /\ LoopMoves /\ a \in active[l]
      /\ \A d \in Conns : Waiting(pending, calling', d) = WaitsFor(d)
      /\ a[1] \in Conns => Up(a[1])
    <2>1. current' \in [Loops -> {Idle} \cup Conns] /\ threadNum' = threadNum
        BY <1>1 DEF NetInv, LoopTypes, serverVars
    <2> QED BY <1>1, <2>1, TakeIs
<1> HIDE DEF HandleWrite
<1>3. CASE a[1] \in Conns
    <2>1. conn[a[1]] \in Conn /\ Open(conn[a[1]])
        BY <1>2, <1>3 DEF NetInv, ConnTypes, Up
    <2>2. HandleWrite(conn[a[1]]) \in Conn /\ Open(HandleWrite(conn[a[1]]))
        BY <2>1, HandleWriteIs
    <2> QED BY <1>1, <1>2, <1>3, <2>1, <2>2, TouchInv
<1>4. CASE a[1] \notin Conns
    <2>1. a[2] = {"out"} /\ a[2] = {"in"}
        BY <1>2, <1>4 DEF HandleWritable, NetInv, ActiveInv
    <2> QED BY <2>1
<1> QED BY <1>3, <1>4

LEMMA HandleWriteAfterReadInv ==
    ASSUME NetInv, NEW l \in Loops, HandleWriteAfterRead(l)
    PROVE  NetInv'
<1> DEFINE c == current[l]
<1>1. /\ c # Idle /\ current' = [current EXCEPT ![l] = Idle]
      /\ conn' = [conn EXCEPT ![c] = HandleWrite(conn[c])]
      /\ phase' = phase /\ active' = active /\ calling' = calling /\ threadNum' = threadNum
      /\ UNCHANGED <<pending, wakeup, serverVars, ghosts>>
    BY DEF HandleWriteAfterRead, serverVars
<1>2. c \in Conns /\ current' \in [Loops -> {Idle} \cup Conns]
    BY <1>1 DEF NetInv, LoopTypes
<1>3. LoopMoves
    <2>1. \A m \in Loops : phase[m] = "handle" => calling'[m] = <<>>
        BY <1>1 DEF NetInv, PhaseInv
    <2> QED BY <1>1, <1>2, <2>1 DEF LoopMoves, NetInv, LoopTypes, ActiveTypes, QueuesInv
<1>4. \A d \in Conns : Waiting(pending, calling', d) = WaitsFor(d)
    BY <1>1 DEF WaitsFor
<1> HIDE DEF c, HandleWrite
<1>5. conn[c] \in Conn
    BY <1>2 DEF NetInv, ConnTypes
<1>6. /\ HandleWrite(conn[c]) \in Conn
      /\ HandleWrite(conn[c]) = conn[c] \/ (Open(conn[c]) /\ Open(HandleWrite(conn[c])))
    <2>1. ~Open(conn[c]) => conn[c].events = {}
        BY <1>2, StageOf DEF NetInv
    <2> QED BY <1>5, <2>1, HandleWriteIs
<1> QED BY <1>1, <1>2, <1>3, <1>4, <1>6, TouchInv

LEMMA EventIs ==
    ASSUME NetInv, NEW l \in Loops, NEW a, HandleEvent(l, a), threadNum' = threadNum
    PROVE  /\ LoopMoves /\ a[1] \in Conns /\ a \in active[l] /\ phase[l] = "handle"
           /\ \A d \in Conns : Waiting(pending, calling', d) = WaitsFor(d)
           /\ LoopOf(a[1]) = l /\ Up(a[1])
           /\ \A m \in Loops : \A b \in active'[m] : b[1] # a[1]
<1>1. /\ Take(l, a) /\ a[1] \in Conns
      /\ current' = [current EXCEPT ![l] = IF "out" \in a[2] THEN a[1] ELSE Idle]
    BY DEF HandleEvent
<1>2. current' \in [Loops -> {Idle} \cup Conns]
    BY <1>1 DEF NetInv, LoopTypes
<1> QED BY <1>1, <1>2, TakeIs

\* Whatever the message callback makes of the connection, it stays open.
LEMMA HandleMessageInv ==
    ASSUME NetInv, NEW l \in Loops, NEW a, NEW outcomes, HandleMessage(l, a, outcomes),
           \A o \in outcomes : o.k \in Conn /\ Open(o.k)
    PROVE  NetInv'
<1> DEFINE c == a[1]
<1>1. PICK o \in outcomes :
          /\ conn' = [conn EXCEPT ![c] = o.k]
          /\ IF o.force
             THEN /\ told' = [told EXCEPT ![c] = "closing"]
                  /\ QueueInLoop(l, l, <<"forceCloseInLoop", c>>)
             ELSE UNCHANGED <<told, pending, wakeup>>
    BY DEF HandleMessage
<1>2. /\ threadNum' = threadNum /\ backlog' = backlog /\ connections' = connections
      /\ asserts' = asserts /\ UNCHANGED serverVars
    BY DEF HandleMessage, serverVars
<1>3. /\ LoopMoves /\ c \in Conns /\ phase[l] = "handle"
      /\ \A d \in Conns : Waiting(pending, calling', d) = WaitsFor(d)
      /\ LoopOf(c) = l /\ Up(c)
      /\ \A m \in Loops : \A b \in active'[m] : b[1] # c
    <2>1. HandleEvent(l, a)
        BY DEF HandleMessage
    <2> QED BY <1>2, <2>1, EventIs
<1> HIDE DEF c
<1>4. o.k \in Conn /\ Open(o.k) /\ Open(conn[c])
    BY <1>3 DEF Up
<1>5. CASE ~o.force
    <2>1. UNCHANGED <<pending, wakeup, serverVars, ghosts>>
        BY <1>1, <1>2, <1>5 DEF ghosts
    <2> QED BY <1>1, <1>3, <1>4, <2>1, TouchInv
<1>6. CASE o.force
    <2>1. /\ told' = [told EXCEPT ![c] = "closing"]
          /\ QueueInLoop(l, l, <<"forceCloseInLoop", c>>)
        BY <1>1, <1>6
    <2>2. /\ conn'[c] = o.k /\ \A d \in Conns \ {c} : conn'[d] = conn[d]
          /\ conn' \in [Conns -> Conn]
        BY <1>1, <1>3, <1>4 DEF NetInv, ConnTypes
    <2>3. /\ told'[c] = "closing" /\ \A d \in Conns \ {c} : told'[d] = told[d]
          /\ told' \in [Conns -> {"none", "up", "closing", "down"}]
        BY <1>3, <2>1 DEF NetInv, ConnTypes
    <2>4. /\ LoopTypes' /\ QueuesInv' /\ PhaseInv' /\ WakeInv'
          /\ WaitsFor(c)' = {"forceCloseInLoop"}
          /\ \A d \in Conns \ {c} : WaitsFor(d)' = WaitsFor(d)
        <3>1. "forceCloseInLoop" \in Ops /\ l = Home(<<"forceCloseInLoop", c>>)
            BY <1>3 DEF Ops, Home
        <3>2. Waiting(pending, calling', c) = {}
            BY <1>3 DEF Up
        <3> QED BY <1>3, <2>1, <3>1, <3>2, QueueStep
    <2>5. ConnTypes' /\ AssertsHold'
        BY <1>2, <2>2, <2>3 DEF NetInv, ConnTypes, AssertsHold
    <2>6. \A d \in Conns \ {c} : Same(d)
        BY <1>2, <2>2, <2>3, <2>4 DEF Same
    <2>7. Stage(c)'
        BY <1>2, <1>3, <1>4, <2>2, <2>3, <2>4 DEF Stage, Up, Closing
    <2>8. conn[c].state # "none" /\ conn'[c].state # "none"
        BY <1>4, <2>2 DEF Open
    <2>9. \A d \in Conns : \/ Same(d)
                           \/ Stage(d)' /\ (conn'[d].state = "none" <=> conn[d].state = "none")
        BY <2>6, <2>7, <2>8
    <2>10. \A m \in Loops : \A b \in active'[m] :
               b \in active[m] /\ (b[1] \in Conns => Same(b[1]) \/ Up(b[1])')
        BY <1>3, <2>6 DEF LoopMoves
    <2> QED BY <1>2, <2>4, <2>5, <2>9, <2>10, Moves
<1> QED BY <1>5, <1>6

LEMMA HandleEofInv ==
    ASSUME NetInv, NEW l \in Loops, NEW a, HandleEof(l, a)
    PROVE  NetInv'
<1> DEFINE c == a[1]
<1>1. HandleEvent(l, a) /\ threadNum' = threadNum /\ backlog' = backlog
    BY DEF HandleEof
<1>2. /\ LoopMoves /\ c \in Conns
      /\ \A d \in Conns : Waiting(pending, calling', d) = WaitsFor(d)
      /\ LoopOf(c) = l /\ Up(c)
      /\ \A m \in Loops : \A b \in active'[m] : b[1] # c
    BY <1>1, EventIs
<1>3. \/ /\ conn' = [conn EXCEPT ![c] = HandleError(conn[c])]
         /\ UNCHANGED <<pending, wakeup, connections, ghosts>>
      \/ HandleClose(l, c)
    BY DEF HandleEof
<1> HIDE DEF c
<1>4. conn[c] \in Conn /\ Open(conn[c]) /\ c \in connections /\ WaitsFor(c) = {}
    BY <1>2 DEF Up, NetInv, ConnTypes
<1>5. CASE /\ conn' = [conn EXCEPT ![c] = HandleError(conn[c])]
           /\ UNCHANGED <<pending, wakeup, connections, ghosts>>
    <2>1. HandleError(conn[c]) \in Conn /\ Open(HandleError(conn[c]))
        BY <1>4, ConnIs DEF HandleError, Open
    <2>2. UNCHANGED <<pending, wakeup, serverVars, ghosts>>
        BY <1>1, <1>5 DEF serverVars
    <2> HIDE DEF HandleError
    <2> QED BY <1>2, <1>4, <1>5, <2>1, <2>2, TouchInv
<1>6. CASE HandleClose(l, c)
    <2>1. Waiting(pending, calling', c) = {}
        BY <1>2, <1>4
    <2> QED BY <1>1, <1>2, <1>4, <1>6, <2>1, CloseInv
<1> QED BY <1>3, <1>5, <1>6

LEMMA DoPendingFunctorsInv ==
    ASSUME NetInv, NEW l \in Loops, DoPendingFunctors(l)
    PROVE  NetInv'
<1>1. /\ phase[l] = "handle" /\ active[l] = {}
      /\ phase' = [phase EXCEPT ![l] = "call"]
      /\ calling' = [calling EXCEPT ![l] = pending[l]]
      /\ pending' = [pending EXCEPT ![l] = <<>>]
      /\ active' = active /\ current' = current /\ wakeup' = wakeup /\ conn' = conn
      /\ threadNum' = threadNum /\ backlog' = backlog /\ told' = told /\ connections' = connections
      /\ asserts' = asserts
    BY DEF DoPendingFunctors, serverVars, ghosts
<1>2. Loops' = Loops /\ \A d : WaitsFor(d)' = Waiting(pending', calling', d)
    BY <1>1, PrimedQueues
<1>3. /\ threadNum \in Nat /\ QueuesOK(pending, calling) /\ calling[l] = <<>>
      /\ pending \in [Loops -> Seq(Functors)] /\ calling \in [Loops -> Seq(Functors)]
    BY <1>1 DEF NetInv, LoopTypes, QueuesInv, PhaseInv
<1>4. /\ pending' \in [Loops -> Seq(Functors)] /\ calling' \in [Loops -> Seq(Functors)]
      /\ QueuesOK(pending', calling')
      /\ \A c \in Conns : Waiting(pending', calling', c) = Waiting(pending, calling, c)
    <2> DEFINE Q == pending'
    <2> DEFINE D == calling'
    <2>1. Swapped(pending, calling, Q, D, l) /\ pending \in Queues /\ calling \in Queues
        BY <1>1, <1>3 DEF Swapped, Queues
    <2> HIDE DEF Q, D
    <2>2. /\ Q \in Queues /\ D \in Queues /\ QueuesOK(Q, D)
          /\ \A c \in Conns : Waiting(Q, D, c) = Waiting(pending, calling, c)
        BY <1>3, <2>1, SwapKeeps
    <2> QED BY <2>2 DEF Q, D, Queues
<1>5. \A d \in Conns : Same(d)
    BY <1>1, <1>2, <1>4 DEF Same, WaitsFor
<1>6. phase' \in [Loops -> {"handle", "call"}] /\ LoopTypes'
    BY <1>1, <1>2, <1>4 DEF NetInv, LoopTypes
<1>7. QueuesInv'
    BY <1>1, <1>4, PrimedQueues
<1>8. /\ phase'[l] = "call" /\ pending'[l] = <<>>
      /\ \A m \in Loops : m # l => /\ phase'[m] = phase[m] /\ pending'[m] = pending[m]
                                   /\ calling'[m] = calling[m]
    BY <1>1, <1>3 DEF NetInv, LoopTypes
<1>9. PhaseInv'
    <2> SUFFICES ASSUME NEW m \in Loops
                 PROVE  /\ phase'[m] = "handle" => calling'[m] = <<>>
                        /\ phase'[m] = "call" => active[m] = {}
                        /\ \A c \in Conns : Has(pending'[m], <<"forceCloseInLoop", c>>)
                                                => phase'[m] = "handle"
        BY <1>1, <1>2 DEF PhaseInv
    <2>1. CASE m = l
        BY <1>1, <1>8, <2>1, HasNone
    <2>2. CASE m # l
        BY <1>8, <2>2 DEF NetInv, PhaseInv
    <2> QED BY <2>1, <2>2
<1>10. WakeInv'
    <2> SUFFICES ASSUME NEW m \in Loops, phase'[m] = "call", pending'[m] # <<>> PROVE wakeup[m]
        BY <1>1, <1>2 DEF WakeInv
    <2>1. m # l
        BY <1>8
    <2> QED BY <1>8, <2>1 DEF NetInv, WakeInv
<1>11. ConnTypes' /\ AssertsHold'
    BY <1>1 DEF NetInv, ConnTypes, AssertsHold
<1>12. \A m \in Loops : \A b \in active'[m] : b \in active[m]
    BY <1>1
<1> QED BY <1>1, <1>5, <1>6, <1>7, <1>9, <1>10, <1>11, <1>12, Moves

LEMMA NewConnectionInv ==
    ASSUME NetInv, NEW l \in Loops, NEW a, NewConnection(l, a)
    PROVE  NetInv'
<1>0. PICK n, c : n = Cardinality(Created) /\ c = n + 1
    OBVIOUS
<1> DEFINE made == [conn[c] EXCEPT !.state = "connecting"]
<1>1. /\ Take(l, a) /\ a[1] = Acceptor /\ backlog' = backlog - 1
      /\ connections' = connections \cup {c}
      /\ current' = current /\ threadNum' = threadNum /\ asserts' = asserts
    BY <1>0 DEF NewConnection, HandleAccept
<1>2. \/ /\ LoopOf(c) = l
         /\ conn' = [conn EXCEPT ![c] = Establish(made)]
         /\ told' = [told EXCEPT ![c] = "up"]
         /\ UNCHANGED <<pending, wakeup>>
      \/ /\ conn' = [conn EXCEPT ![c] = made]
         /\ QueueInLoop(l, LoopOf(c), <<"connectEstablished", c>>)
         /\ told' = told
    BY <1>0 DEF NewConnection
<1>3. /\ LoopMoves /\ l = 0 /\ backlog > 0
      /\ \A d \in Conns : Waiting(pending, calling', d) = WaitsFor(d)
      /\ \A m \in Loops : \A b \in active'[m] : b[1] # Acceptor
    <2>1. current' \in [Loops -> {Idle} \cup Conns]
        BY <1>1 DEF NetInv, LoopTypes
    <2> QED BY <1>1, <2>1, TakeIs
<1>4. n \in Nat /\ Created = 1..n /\ backlog + n <= MaxConns
    BY <1>0, BirthSize, TcpServerAssumption DEF NetInv
<1>5. backlog \in Nat /\ backlog \in 0..MaxConns /\ MaxConns \in Nat
    BY TcpServerAssumption DEF NetInv, ConnTypes
<1>6. c \in Conns /\ c \notin Created /\ backlog' \in 0..MaxConns /\ backlog' + c <= MaxConns
    <2>1. c = n + 1 /\ backlog' = backlog - 1 /\ backlog > 0 /\ n \in Nat /\ backlog \in Nat
        BY <1>0, <1>1, <1>3, <1>4, <1>5
    <2>2. /\ n + 1 \in 1..MaxConns /\ n + 1 \notin 1..n
          /\ backlog - 1 \in 0..MaxConns /\ (backlog - 1) + (n + 1) <= MaxConns
        BY <1>4, <1>5, <2>1
    <2> QED BY <1>4, <2>1, <2>2 DEF Conns
<1>7. Unborn(c) /\ conn[c] \in Conn /\ LoopOf(c) \in Loops
    <2>1. conn[c].state = "none"
        BY <1>6 DEF Created
    <2>2. threadNum \in Nat
        BY DEF NetInv, LoopTypes
    <2> QED BY <1>6, <2>1, <2>2, StageOf, NetConstants DEF NetInv, ConnTypes
<1>8. made \in Conn /\ made.state = "connecting" /\ Shut(made, "new")
    BY <1>7, ConnIs DEF Unborn, Shut, ConnStates
<1> HIDE DEF made
<1>9. Establish(made) \in Conn /\ Open(Establish(made))
    BY <1>8, EstablishIs
<1>10. /\ conn' \in [Conns -> Conn] /\ told' \in [Conns -> {"none", "up", "closing", "down"}]
       /\ \A d \in Conns \ {c} : conn'[d] = conn[d] /\ told'[d] = told[d]
       /\ LoopTypes' /\ QueuesInv' /\ PhaseInv' /\ WakeInv'
       /\ \A d \in Conns \ {c} : WaitsFor(d)' = WaitsFor(d)
       /\ \/ Open(conn'[c]) /\ told'[c] = "up" /\ WaitsFor(c)' = {}
          \/ /\ conn'[c].state = "connecting" /\ Shut(conn'[c], "new") /\ told'[c] = "none"
             /\ WaitsFor(c)' = {"connectEstablished"}
    <2>0. /\ conn \in [Conns -> Conn] /\ told \in [Conns -> {"none", "up", "closing", "down"}]
          /\ WaitsFor(c) = {} /\ told[c] = "none"
        BY <1>7 DEF NetInv, ConnTypes, Unborn
    <2>1. CASE /\ LoopOf(c) = l
               /\ conn' = [conn EXCEPT ![c] = Establish(made)]
               /\ told' = [told EXCEPT ![c] = "up"]
               /\ UNCHANGED <<pending, wakeup>>
        <3>1. /\ LoopTypes' /\ QueuesInv' /\ PhaseInv' /\ WakeInv'
              /\ \A d \in Conns : WaitsFor(d)' = WaitsFor(d)
            BY <1>3, <2>1, QuietStep
        <3> HIDE DEF Establish
        <3>2. /\ conn' \in [Conns -> Conn] /\ conn'[c] = Establish(made)
              /\ \A d \in Conns \ {c} : conn'[d] = conn[d]
            BY <1>6, <1>9, <2>0, <2>1
        <3>3. /\ told' \in [Conns -> {"none", "up", "closing", "down"}] /\ told'[c] = "up"
              /\ \A d \in Conns \ {c} : told'[d] = told[d]
            BY <1>6, <2>0, <2>1
        <3> QED BY <1>6, <1>9, <2>0, <3>1, <3>2, <3>3
    <2>2. CASE /\ conn' = [conn EXCEPT ![c] = made]
               /\ QueueInLoop(l, LoopOf(c), <<"connectEstablished", c>>)
               /\ told' = told
        <3>1. /\ LoopTypes' /\ QueuesInv' /\ PhaseInv' /\ WakeInv'
              /\ WaitsFor(c)' = {"connectEstablished"}
              /\ \A d \in Conns \ {c} : WaitsFor(d)' = WaitsFor(d)
            <4>1. "connectEstablished" \in Ops /\ LoopOf(c) = Home(<<"connectEstablished", c>>)
                BY DEF Ops, Home
            <4>2. Waiting(pending, calling', c) = {}
                BY <1>3, <1>6, <2>0
            <4> QED BY <1>3, <1>6, <1>7, <2>2, <4>1, <4>2, QueueStep
        <3>2. /\ conn' \in [Conns -> Conn] /\ conn'[c] = made
              /\ \A d \in Conns \ {c} : conn'[d] = conn[d]
            BY <1>6, <1>8, <2>0, <2>2
        <3> QED BY <1>8, <2>0, <2>2, <3>1, <3>2
    <2> QED BY <1>2, <2>1, <2>2
<1>11. ConnTypes' /\ AssertsHold'
    BY <1>1, <1>6, <1>10 DEF NetInv, ConnTypes, AssertsHold
<1>12. \A d \in Conns \ {c} : Same(d)
    BY <1>1, <1>10 DEF Same
<1>13. Stage(c)'
    <2>1. c \in connections'
        BY <1>1
    <2> QED BY <1>10, <2>1 DEF Stage, Up, Connecting
<1>14. LifeInv'
    BY <1>12, <1>13, SameStage DEF NetInv, LifeInv
<1>15. ActiveInv'
    <2>1. Loops' = Loops /\ \A d : LoopOf(d)' = LoopOf(d)
        BY <1>1, PrimedQueues
    <2> SUFFICES ASSUME NEW m \in Loops, NEW b \in active'[m]
                 PROVE  /\ b[1] \in Conns => LoopOf(b[1]) = m /\ Up(b[1])'
                        /\ b[1] \notin Conns => b[2] = {"in"}
                        /\ b[1] # Acceptor
                        /\ \A e \in active'[m] : b[1] = e[1] => b = e
        BY <2>1 DEF ActiveInv
    <2>2. ActiveInv /\ LifeInv /\ b \in active[m] /\ \A e \in active'[m] : e \in active[m]
        BY <1>3 DEF NetInv, LoopMoves
    <2>3. b[1] # Acceptor
        BY <1>3
    <2>4. b[1] \in Conns => LoopOf(b[1]) = m /\ Up(b[1])
        BY <2>2 DEF ActiveInv
    <2>5. b[1] # c
        BY <1>6, <1>7, <2>4 DEF Up, Unborn
    <2>6. b[1] \in Conns => Up(b[1])'
        BY <1>12, <2>2, <2>4, <2>5, SameStage DEF LifeInv
    <2>7. (b[1] \notin Conns => b[2] = {"in"}) /\ \A e \in active'[m] : b[1] = e[1] => b = e
        BY <2>2 DEF ActiveInv
    <2> QED BY <2>3, <2>4, <2>6, <2>7
<1>16. BirthInv'
    <2>1. conn'[c].state # "none"
        BY <1>10 DEF Open
    <2>2. Created' = Created \cup {c}
        BY <1>6, <1>10, <2>1 DEF Created
    <2>3. Created' = 1..(n + 1) /\ n + 1 \in 0..MaxConns
        <3>1. c = n + 1 /\ n \in Nat /\ c \in 1..MaxConns /\ Created = 1..n /\ MaxConns \in Nat
            BY <1>0, <1>4, <1>5, <1>6 DEF Conns
        <3>2. 1..(n + 1) = (1..n) \cup {n + 1}
            BY <3>1
        <3> QED BY <2>2, <3>1, <3>2
    <2> QED BY <1>0, <1>6, <2>3 DEF BirthInv
<1> QED BY <1>10, <1>11, <1>14, <1>15, <1>16 DEF NetInv

LEMMA ConnectEstablishedInv ==
    ASSUME NetInv, NEW l \in Loops, ConnectEstablished(l)
    PROVE  NetInv'
<1>0. PICK c : c = Head(calling[l])[2]
    OBVIOUS
<1>1. /\ NextFunctor(l, "connectEstablished")
      /\ asserts' = (asserts /\ conn[c].state = "connecting")
      /\ conn' = [conn EXCEPT ![c] = Establish(conn[c])]
      /\ told' = [told EXCEPT ![c] = "up"]
      /\ UNCHANGED <<pending, wakeup>> /\ connections' = connections
    BY <1>0 DEF ConnectEstablished
<1>2. /\ LoopMoves /\ active' = active /\ backlog' = backlog /\ c \in Conns
      /\ WaitsFor(c) = {"connectEstablished"} /\ Waiting(pending, calling', c) = {}
      /\ \A d \in Conns \ {c} : Waiting(pending, calling', d) = WaitsFor(d)
    BY <1>0, <1>1, FunctorIs
<1>3. Connecting(c) /\ conn[c] \in Conn
    BY <1>2, StageOf DEF NetInv, ConnTypes
<1>4. Establish(conn[c]) \in Conn /\ Open(Establish(conn[c]))
    BY <1>3, EstablishIs DEF Connecting
<1>5. /\ conn' \in [Conns -> Conn] /\ conn'[c] = Establish(conn[c])
      /\ \A d \in Conns \ {c} : conn'[d] = conn[d]
    <2> HIDE DEF Establish
    <2> QED BY <1>1, <1>2, <1>4 DEF NetInv, ConnTypes
<1>6. /\ told' \in [Conns -> {"none", "up", "closing", "down"}] /\ told'[c] = "up"
      /\ \A d \in Conns \ {c} : told'[d] = told[d]
    BY <1>1, <1>2 DEF NetInv, ConnTypes
<1>7. /\ LoopTypes' /\ QueuesInv' /\ PhaseInv' /\ WakeInv'
      /\ \A d \in Conns : WaitsFor(d)' = Waiting(pending, calling', d)
    BY <1>1, <1>2, QuietStep
<1>8. ConnTypes'
    BY <1>1, <1>2, <1>5, <1>6 DEF NetInv, ConnTypes
<1>9. AssertsHold'
    BY <1>1, <1>3 DEF NetInv, AssertsHold, Connecting
<1>10. \A d \in Conns \ {c} : Same(d)
    BY <1>1, <1>2, <1>5, <1>6, <1>7 DEF Same
<1>11. Stage(c)'
    <2>1. c \in connections'
        BY <1>1, <1>3 DEF Connecting
    <2>2. WaitsFor(c)' = {} /\ Open(conn'[c])
        BY <1>2, <1>4, <1>5, <1>7
    <2> QED BY <1>6, <2>1, <2>2 DEF Stage, Up
<1>12. conn[c].state # "none" /\ conn'[c].state # "none"
    BY <1>3, <1>4, <1>5 DEF Open, Connecting
<1>13. \A d \in Conns : \/ Same(d)
                        \/ Stage(d)' /\ (conn'[d].state = "none" <=> conn[d].state = "none")
    BY <1>10, <1>11, <1>12
<1>14. \A m \in Loops : \A b \in active'[m] :
           b \in active[m] /\ (b[1] \in Conns => Same(b[1]) \/ Up(b[1])')
    <2> SUFFICES ASSUME NEW m \in Loops, NEW b \in active[m], b[1] \in Conns PROVE Same(b[1])
        BY <1>2
    <2>1. Up(b[1])
        BY DEF NetInv, ActiveInv
    <2>2. b[1] # c
        BY <1>3, <2>1 DEF Up, Connecting, Open
    <2> QED BY <1>10, <2>2
<1>15. threadNum' = threadNum
    BY <1>2 DEF LoopMoves
<1> QED BY <1>2, <1>7, <1>8, <1>9, <1>13, <1>14, <1>15, Moves

LEMMA ForceCloseInLoopInv ==
    ASSUME NetInv, NEW l \in Loops, ForceCloseInLoop(l)
    PROVE  NetInv'
<1>0. PICK c : c = Head(calling[l])[2]
    OBVIOUS
<1>1. /\ NextFunctor(l, "forceCloseInLoop")
      /\ MayForceClose(conn[c]) => HandleClose(l, c)
    BY <1>0 DEF ForceCloseInLoop
<1>2. /\ LoopMoves /\ active' = active /\ backlog' = backlog /\ c \in Conns
      /\ l = Home(<<"forceCloseInLoop", c>>)
      /\ WaitsFor(c) = {"forceCloseInLoop"} /\ Waiting(pending, calling', c) = {}
      /\ \A d \in Conns \ {c} : Waiting(pending, calling', d) = WaitsFor(d)
    BY <1>0, <1>1, FunctorIs
<1>3. Closing(c)
    BY <1>2, StageOf DEF NetInv
<1>4. HandleClose(l, c) /\ Open(conn[c]) /\ c \in connections
    BY <1>1, <1>3 DEF Closing, Open, MayForceClose
<1>5. l = LoopOf(c)
    BY <1>2 DEF Home
<1>6. \A m \in Loops : \A b \in active'[m] : b[1] # c
    <2> SUFFICES ASSUME NEW m \in Loops, NEW b \in active[m], b[1] = c PROVE FALSE
        BY <1>2
    <2>1. Up(c)
        BY <1>2 DEF NetInv, ActiveInv
    <2> QED BY <1>3, <2>1 DEF Up, Closing
<1> QED BY <1>2, <1>4, <1>5, <1>6, CloseInv

\* A step that calls a functor of a closed connection: it is in no active channel,
\* and the step takes it to its next stage.
LEMMA ClosedMoves ==
    ASSUME NetInv, threadNum' = threadNum, backlog' = backlog, active' = active,
           LoopTypes', ConnTypes', QueuesInv', PhaseInv', WakeInv', AssertsHold',
           NEW c \in Conns, conn[c].state = "disconnected", conn'[c].state = "disconnected",
           Stage(c)', \A d \in Conns \ {c} : Same(d)
    PROVE  NetInv'
<1>1. \A d \in Conns : \/ Same(d)
                       \/ Stage(d)' /\ (conn'[d].state = "none" <=> conn[d].state = "none")
    <2>1. conn'[c].state # "none" /\ conn[c].state # "none"
        OBVIOUS
    <2> QED BY <2>1
<1>2. \A m \in Loops : \A b \in active'[m] :
          b \in active[m] /\ (b[1] \in Conns => Same(b[1]) \/ Up(b[1])')
    <2> SUFFICES ASSUME NEW m \in Loops, NEW b \in active[m], b[1] \in Conns PROVE Same(b[1])
        OBVIOUS
    <2>1. Up(b[1])
        BY DEF NetInv, ActiveInv
    <2>2. b[1] # c
        BY <2>1 DEF Up, Open
    <2> QED BY <2>2
<1> QED BY <1>1, <1>2, Moves

LEMMA RemoveConnectionInv ==
    ASSUME NetInv, NEW l \in Loops, RemoveConnection(l)
    PROVE  NetInv'
<1>0. PICK c : c = Head(calling[l])[2]
    OBVIOUS
<1>1. /\ NextFunctor(l, "removeConnectionInLoop")
      /\ asserts' = (asserts /\ c \in connections)
      /\ connections' = connections \ {c}
      /\ QueueInLoop(0, LoopOf(c), <<"connectDestroyed", c>>)
      /\ conn' = conn /\ told' = told
    BY <1>0 DEF RemoveConnection, RemoveConnectionInLoop
<1>2. /\ LoopMoves /\ active' = active /\ backlog' = backlog /\ c \in Conns
      /\ WaitsFor(c) = {"removeConnectionInLoop"} /\ Waiting(pending, calling', c) = {}
      /\ \A d \in Conns \ {c} : Waiting(pending, calling', d) = WaitsFor(d)
    BY <1>0, <1>1, FunctorIs
<1>3. Leaving(c)
    BY <1>2, StageOf DEF NetInv
<1>4. /\ LoopTypes' /\ QueuesInv' /\ PhaseInv' /\ WakeInv'
      /\ WaitsFor(c)' = {"connectDestroyed"}
      /\ \A d \in Conns \ {c} : WaitsFor(d)' = WaitsFor(d)
    <2>1. "connectDestroyed" \in Ops /\ LoopOf(c) = Home(<<"connectDestroyed", c>>)
        BY DEF Ops, Home
    <2>2. 0 \in Loops /\ LoopOf(c) \in Loops
        BY <1>2, NetConstants DEF NetInv, LoopTypes
    <2> QED BY <1>1, <1>2, <2>1, <2>2, QueueStep
<1>5. ConnTypes'
    BY <1>1, <1>2 DEF NetInv, ConnTypes
<1>6. AssertsHold'
    BY <1>1, <1>3 DEF NetInv, AssertsHold, Leaving
<1>7. \A d \in Conns \ {c} : Same(d)
    BY <1>1, <1>4 DEF Same
<1>8. Stage(c)'
    BY <1>1, <1>3, <1>4 DEF Stage, Leaving, Erased
<1>9. conn[c].state = "disconnected" /\ conn'[c].state = "disconnected" /\ threadNum' = threadNum
    BY <1>1, <1>2, <1>3 DEF Leaving, LoopMoves
<1> QED BY <1>2, <1>4, <1>5, <1>6, <1>7, <1>8, <1>9, ClosedMoves

LEMMA ConnectDestroyedInv ==
    ASSUME NetInv, NEW l \in Loops, ConnectDestroyed(l)
    PROVE  NetInv'
<1>0. PICK c : c = Head(calling[l])[2]
    OBVIOUS
<1>1. NextFunctor(l, "connectDestroyed")
    BY <1>0 DEF ConnectDestroyed
<1>2. /\ LoopMoves /\ active' = active /\ backlog' = backlog /\ c \in Conns
      /\ WaitsFor(c) = {"connectDestroyed"} /\ Waiting(pending, calling', c) = {}
      /\ \A d \in Conns \ {c} : Waiting(pending, calling', d) = WaitsFor(d)
    BY <1>0, <1>1, FunctorIs
<1>3. Erased(c) /\ conn[c] \in Conn
    BY <1>2, StageOf DEF NetInv, ConnTypes
<1>4. /\ asserts' = (asserts /\ RemoveAsserts(conn[c]))
      /\ conn' = [conn EXCEPT ![c] = RemoveChannel(conn[c])]
      /\ told' = told /\ connections' = connections /\ UNCHANGED <<pending, wakeup>>
    <2>1. conn[c].state # "connected"
        BY <1>3 DEF Erased
    <2> QED BY <1>0, <2>1 DEF ConnectDestroyed
<1>5. /\ RemoveChannel(conn[c]) \in Conn /\ RemoveChannel(conn[c]).state = "disconnected"
      /\ Shut(RemoveChannel(conn[c]), "new")
    BY <1>3, RemoveChannelIs DEF Erased
<1>6. /\ conn' \in [Conns -> Conn] /\ conn'[c] = RemoveChannel(conn[c])
      /\ \A d \in Conns \ {c} : conn'[d] = conn[d]
    <2> HIDE DEF RemoveChannel
    <2> QED BY <1>2, <1>4, <1>5 DEF NetInv, ConnTypes
<1>7. /\ LoopTypes' /\ QueuesInv' /\ PhaseInv' /\ WakeInv'
      /\ \A d \in Conns : WaitsFor(d)' = Waiting(pending, calling', d)
    BY <1>2, <1>4, QuietStep
<1>8. ConnTypes'
    BY <1>2, <1>4, <1>6 DEF NetInv, ConnTypes
<1>9. AssertsHold'
    <2>1. RemoveAsserts(conn[c])
        BY <1>3 DEF Erased, RemoveAsserts, Shut
    <2> QED BY <1>4, <2>1 DEF NetInv, AssertsHold
<1>10. \A d \in Conns \ {c} : Same(d)
    BY <1>2, <1>4, <1>6, <1>7 DEF Same
<1>11. Stage(c)'
    <2>1. WaitsFor(c)' = {} /\ conn'[c].state = "disconnected" /\ Shut(conn'[c], "new")
        BY <1>2, <1>5, <1>6, <1>7
    <2> QED BY <1>3, <1>4, <2>1 DEF Stage, Erased, Gone
<1>12. conn[c].state = "disconnected" /\ conn'[c].state = "disconnected" /\ threadNum' = threadNum
    BY <1>2, <1>3, <1>5, <1>6 DEF Erased, LoopMoves
<1> QED BY <1>2, <1>7, <1>8, <1>9, <1>10, <1>11, <1>12, ClosedMoves

-----------------------------------------------------------------------------
\* The whole step, and the theorems.

\* What the user of the TcpServer may do in a message callback.
OnMessage(l) ==
    [a \in active[l] |-> IF app = "login" THEN LoginOnMessage(HasRead(a), request[a[1]])
                         ELSE OtherOnMessage(HasRead(a))]

LEMMA CallbackOutcomes ==
    ASSUME NetInv, NEW l \in Loops, NEW a \in active[l], a[1] \in Conns,
           NEW o \in OnMessage(l)[a]
    PROVE  o.k \in Conn /\ Open(o.k)
<1>1. Open(conn[a[1]]) /\ ConnTypes
    BY DEF NetInv, ActiveInv, Up
<1>2. HasRead(a) \in Conn /\ Open(HasRead(a))
    BY <1>1, HasReadIs
<1>3. o \in LoginOnMessage(HasRead(a), request[a[1]]) \cup OtherOnMessage(HasRead(a))
    <2> HIDE DEF LoginOnMessage, OtherOnMessage, HasRead
    <2> QED BY DEF OnMessage
<1>4. StaysOpen(HasRead(a), o.k)
    <2> HIDE DEF LoginOnMessage, OtherOnMessage, HasRead
    <2> QED BY <1>2, <1>3, OutcomesOpen
<1> QED BY <1>4 DEF StaysOpen

LEMMA LoopStepInv ==
    ASSUME NetInv, NEW l \in Loops, LoopStep(l, OnMessage(l))
    PROVE  NetInv'
<1>1. CASE Poll(l)
    BY <1>1, PollInv
<1>2. ASSUME NEW a \in active[l],
             \/ HandleWakeup(l, a) \/ NewConnection(l, a)
             \/ HandleMessage(l, a, OnMessage(l)[a])
             \/ HandleEof(l, a) \/ HandleWritable(l, a)
      PROVE  NetInv'
    <2>1. CASE HandleMessage(l, a, OnMessage(l)[a])
        <3>1. a[1] \in Conns
            BY <2>1 DEF HandleMessage, HandleEvent
        <3>2. \A o \in OnMessage(l)[a] : o.k \in Conn /\ Open(o.k)
            BY <3>1, CallbackOutcomes
        <3> QED BY <2>1, <3>2, HandleMessageInv
    <2> QED BY <1>2, <2>1, HandleWakeupInv, NewConnectionInv, HandleEofInv, HandleWritableInv
<1>3. CASE HandleWriteAfterRead(l)
    BY <1>3, HandleWriteAfterReadInv
<1>4. CASE DoPendingFunctors(l)
    BY <1>4, DoPendingFunctorsInv
<1>5. CASE ConnectEstablished(l)
    BY <1>5, ConnectEstablishedInv
<1>6. CASE ForceCloseInLoop(l)
    BY <1>6, ForceCloseInLoopInv
<1>7. CASE RemoveConnection(l)
    BY <1>7, RemoveConnectionInv
<1>8. CASE ConnectDestroyed(l)
    BY <1>8, ConnectDestroyedInv
<1> QED BY <1>1, <1>2, <1>3, <1>4, <1>5, <1>6, <1>7, <1>8 DEF LoopStep

LEMMA StutterInv ==
    ASSUME NetInv, UNCHANGED netVars
    PROVE  NetInv'
<1>1. /\ UNCHANGED <<threadNum, phase, active, current, pending, calling, wakeup, connections,
                     conn, backlog, asserts, told>>
    BY DEF netVars, loopVars, serverVars, ghosts
<1>2. Loops' = Loops /\ \A d : LoopOf(d)' = LoopOf(d) /\ WaitsFor(d)' = Waiting(pending', calling', d)
    BY <1>1, PrimedQueues
<1>3. \A d \in Conns : Same(d)
    BY <1>1, <1>2 DEF Same, WaitsFor
<1>4. LoopTypes' /\ PhaseInv' /\ WakeInv'
    BY <1>1, <1>2 DEF NetInv, LoopTypes, PhaseInv, WakeInv
<1>5. QueuesInv'
    BY <1>1, PrimedQueues DEF NetInv, QueuesInv
<1>6. ConnTypes' /\ AssertsHold'
    BY <1>1 DEF NetInv, ConnTypes, AssertsHold
<1> QED BY <1>1, <1>3, <1>4, <1>5, <1>6, Moves

LEMMA NetInvInit == LoginInit => NetInv
<1> SUFFICES ASSUME NetInit PROVE NetInv
    BY DEF LoginInit
<1>1. /\ threadNum \in Nat /\ MaxConns \in Nat
      /\ phase = [l \in Loops |-> "call"] /\ active = [l \in Loops |-> {}]
      /\ current = [l \in Loops |-> Idle]
      /\ pending = [l \in Loops |-> <<>>] /\ calling = [l \in Loops |-> <<>>]
      /\ wakeup = [l \in Loops |-> FALSE]
      /\ connections = {} /\ conn = [c \in Conns |-> NoConn] /\ backlog = 0 /\ asserts = TRUE
      /\ told = [c \in Conns |-> "none"]
    BY TcpServerAssumption DEF NetInit, LoopsInit
<1>2. <<>> \in Seq(Functors) /\ Once(<<>>) /\ \A f : ~Has(<<>>, f)
    BY HasNone
<1>3. LoopTypes
    BY <1>1, <1>2 DEF LoopTypes
<1>4. NoConn \in Conn /\ NoConn.state = "none" /\ Shut(NoConn, "new")
    BY NoConnIs
<1>5. ConnTypes
    <2> HIDE DEF NoConn
    <2> QED BY <1>1, <1>4 DEF ConnTypes
<1>6. QueuesInv
    BY <1>1, <1>2 DEF QueuesInv, QueuesOK
<1>7. \A c : WaitsFor(c) = {}
    BY <1>1, <1>2 DEF WaitsFor, Waiting
<1>8. LifeInv
    <2> HIDE DEF NoConn
    <2> QED BY <1>1, <1>4, <1>7 DEF LifeInv, Stage, Unborn
<1>9. PhaseInv /\ ActiveInv /\ WakeInv
    BY <1>1, <1>2 DEF PhaseInv, ActiveInv, WakeInv
<1>10. BirthInv
    <2>1. Created = {}
        <3> HIDE DEF NoConn
        <3> QED BY <1>1, <1>4 DEF Created
    <2>2. 1..0 = {} /\ 0 \in 0..MaxConns
        BY <1>1
    <2> QED BY <1>1, <2>1, <2>2 DEF BirthInv
<1>11. AssertsHold
    BY <1>1 DEF AssertsHold
<1> QED BY <1>3, <1>5, <1>6, <1>8, <1>9, <1>10, <1>11 DEF NetInv

LEMMA NetInvNext ==
    ASSUME NetInv, [LoginNext]_loginVars
    PROVE  NetInv'
<1>1. ASSUME NEW l \in LoopIds, LoginStep(l) PROVE NetInv'
    <2>1. l \in Loops /\ LoopStep(l, OnMessage(l))
        BY <1>1 DEF LoginStep, OnMessage
    <2> QED BY <2>1, LoopStepInv
<1>2. CASE Network(IF app = "login" THEN Request ELSE OtherIn)
    <2>1. (IF app = "login" THEN Request ELSE OtherIn) \in Nat
        BY LoginServerAssumption
    <2> QED BY <1>2, <2>1, NetworkInv
<1>3. CASE UNCHANGED loginVars
    BY <1>3, StutterInv DEF loginVars
<1> QED BY <1>1, <1>2, <1>3 DEF LoginNext

\* In every reachable state of every TcpServer, each connection is in one of the
\* seven stages of its life with the one functor that is to take it further, and
\* each loop has polled, handled and called as it should.
THEOREM NetInvariant == LoginSpec => []NetInv
<1>1. LoginInit => NetInv
    BY NetInvInit
<1>2. NetInv /\ [LoginNext]_loginVars => NetInv'
    BY NetInvNext
<1> QED BY <1>1, <1>2, PTL DEF LoginSpec

LEMMA ThreadsFixed ==
    ASSUME [LoginNext]_loginVars
    PROVE  threadNum' = threadNum
<1>1. ASSUME NEW l, NEW outcomes, LoopStep(l, outcomes) PROVE threadNum' = threadNum
    <2>1. CASE Poll(l) \/ HandleWriteAfterRead(l) \/ DoPendingFunctors(l)
        BY <2>1 DEF Poll, HandleWriteAfterRead, DoPendingFunctors, serverVars
    <2>2. ASSUME NEW a, \/ HandleWakeup(l, a) \/ NewConnection(l, a)
                        \/ HandleMessage(l, a, outcomes[a])
                        \/ HandleEof(l, a) \/ HandleWritable(l, a)
          PROVE  threadNum' = threadNum
        BY <2>2 DEF HandleWakeup, NewConnection, HandleMessage, HandleEof, HandleWritable, serverVars
    <2>3. CASE \/ ConnectEstablished(l) \/ ForceCloseInLoop(l) \/ RemoveConnection(l)
               \/ ConnectDestroyed(l)
        BY <2>3 DEF ConnectEstablished, ForceCloseInLoop, RemoveConnection, ConnectDestroyed, NextFunctor
    <2> QED BY <1>1, <2>1, <2>2, <2>3 DEF LoopStep
<1>2. ASSUME NEW stream, Network(stream) PROVE threadNum' = threadNum
    BY <1>2 DEF Network, ClientConnects, ClientSends, ClientCloses, ClientResets,
                SendBufferDrains, Kernel, serverVars
<1>3. CASE UNCHANGED loginVars
    BY <1>3 DEF loginVars, netVars, serverVars
<1> QED BY <1>1, <1>2, <1>3 DEF LoginNext, LoginStep

\* Every loop, connection and counter keeps its type: no functor and no active
\* channel of a connection that was never made, no send buffer past its size.
THEOREM NetTypes == LoginSpec => []NetTypeOK
<1>1. LoginInit => threadNum \in ThreadNums
    BY DEF LoginInit, NetInit
<1>2. threadNum \in ThreadNums /\ [LoginNext]_loginVars => (threadNum \in ThreadNums)'
    BY ThreadsFixed
<1>3. NetInv /\ threadNum \in ThreadNums => NetTypeOK
    <2> SUFFICES ASSUME NetInv, threadNum \in ThreadNums PROVE NetTypeOK
        OBVIOUS
    <2>1. LoopTypes /\ ConnTypes /\ asserts \in BOOLEAN
        BY DEF NetInv, AssertsHold
    <2> QED BY <2>1 DEF NetTypeOK, LoopTypes, ConnTypes
<1> QED BY <1>1, <1>2, <1>3, NetInvariant, PTL DEF LoginSpec

\* No assert of TcpConnection, TcpServer, Channel and EPollPoller ever fails,
\* however many loops there are and whenever clients close and reset.
THEOREM AssertsNeverFail == LoginSpec => []AssertsHold
<1>1. NetInv => AssertsHold
    BY DEF NetInv
<1> QED BY <1>1, NetInvariant, PTL

\* ~TcpConnection and ~Channel find the connection closed and the channel
\* removed, and no active channel belongs to a connection that is gone.
THEOREM ConnectionsDestroyedClean == LoginSpec => []DestroyedClean
<1>1. NetInv => DestroyedClean
    <2> SUFFICES ASSUME NetInv, NEW c \in Created
                 PROVE  /\ ~Alive(c) => conn[c].state = "disconnected" /\ conn[c].index = "new"
                        /\ (\E l \in Loops : \E a \in active[l] : a[1] = c)
                               => Alive(c) /\ conn[c].index # "new"
        BY DEF DestroyedClean
    <2>1. c \in Conns /\ conn[c].state # "none"
        BY DEF Created
    <2>2. Stage(c)
        BY <2>1 DEF NetInv, LifeInv
    <2>3. ASSUME NEW op \in WaitsFor(c) PROVE Alive(c)
        <3>1. PICK l \in Loops : Has(pending[l], <<op, c>>) \/ Has(calling[l], <<op, c>>)
            BY <2>3 DEF WaitsFor, Waiting
        <3>2. pending[l] \in Seq(Functors) /\ calling[l] \in Seq(Functors)
            BY DEF NetInv, LoopTypes
        <3>3. DOMAIN pending[l] = 1..Len(pending[l]) /\ DOMAIN calling[l] = 1..Len(calling[l])
            BY <3>2, LenProperties
        <3> QED BY <3>1, <3>3 DEF Has, Alive, Mentions
    <2>4. ~Alive(c) => Gone(c)
        <3> SUFFICES ASSUME ~Alive(c) PROVE Gone(c)
            OBVIOUS
        <3>1. WaitsFor(c) = {} /\ c \notin connections
            BY <2>3 DEF Alive
        <3> QED BY <2>1, <2>2, <3>1
                DEF Stage, Unborn, Connecting, Up, Closing, Leaving, Erased
    <2>5. ASSUME NEW l \in Loops, NEW a \in active[l], a[1] = c
          PROVE  Alive(c) /\ conn[c].index # "new"
        <3>1. Up(c)
            BY <2>1, <2>5 DEF NetInv, ActiveInv
        <3> QED BY <3>1 DEF Up, Open, Alive
    <2> QED BY <2>4, <2>5 DEF Gone, Shut
<1> QED BY <1>1, NetInvariant, PTL

\* A loop that goes to poll with functors queued is woken at once.
THEOREM FunctorsNeverSleep == LoginSpec => []NoFunctorAsleep
<1>1. NetInv => NoFunctorAsleep
    BY DEF NetInv, WakeInv, NoFunctorAsleep
<1> QED BY <1>1, NetInvariant, PTL

-----------------------------------------------------------------------------
\* The order of the callbacks.

Told(c) ==
    /\ conn'[c].in > conn[c].in => told[c] = "up"
    /\ told'[c] # told[c] =>
           <<told[c], told'[c]>> \in {<<"none", "up">>, <<"up", "closing">>,
                                    <<"up", "down">>, <<"closing", "down">>}

LEMMA ToldNothing ==
    ASSUME NetInv, NEW c \in Conns, told'[c] = told[c], conn'[c].in = conn[c].in
    PROVE  Told(c)
<1>1. conn[c].in \in Nat
    BY ConnIs DEF NetInv, ConnTypes
<1> QED BY <1>1 DEF Told

LEMMA ToldNext ==
    ASSUME NetInv, NEW c \in Conns, conn'[c].in = conn[c].in,
           \/ told[c] = "none" /\ told'[c] = "up"
           \/ told[c] \in {"up", "closing"} /\ told'[c] = "down"
    PROVE  Told(c)
<1>1. conn[c].in \in Nat
    BY ConnIs DEF NetInv, ConnTypes
<1> QED BY <1>1 DEF Told

\* A step that changes connection c at most.
LEMMA ToldOthers ==
    ASSUME NetInv, NEW c \in Conns, NEW k, conn' = [conn EXCEPT ![c] = k],
           told' = told \/ \E v : told' = [told EXCEPT ![c] = v]
    PROVE  conn'[c] = k /\ \A d \in Conns \ {c} : Told(d)
<1>1. conn'[c] = k /\ \A d \in Conns \ {c} : conn'[d] = conn[d] /\ told'[d] = told[d]
    BY DEF NetInv, ConnTypes
<1> QED BY <1>1, ToldNothing

\* handleClose tells "down", to a connection that is up or was force-closed.
LEMMA ToldClose ==
    ASSUME NetInv, NEW l, NEW c \in Conns, HandleClose(l, c), Open(conn[c])
    PROVE  \A d \in Conns : Told(d)
<1>1. /\ conn' = [conn EXCEPT ![c] = Disconnect(conn[c])]
      /\ told' = [told EXCEPT ![c] = "down"]
    BY DEF HandleClose
<1>2. Disconnect(conn[c]).in = conn[c].in
    BY DisconnectIs DEF NetInv, ConnTypes
<1>3. told[c] \in {"up", "closing"} /\ told'[c] = "down"
    BY <1>1, StageOf DEF NetInv, ConnTypes, Up, Closing
<1> HIDE DEF Disconnect
<1>4. conn'[c] = Disconnect(conn[c]) /\ \A d \in Conns \ {c} : Told(d)
    BY <1>1, ToldOthers
<1>5. Told(c)
    BY <1>2, <1>3, <1>4, ToldNext
<1> QED BY <1>4, <1>5

LEMMA LoopStepTold ==
    ASSUME NetInv, NEW l \in Loops, LoopStep(l, OnMessage(l))
    PROVE  \A d \in Conns : Told(d)
<1>0. ASSUME UNCHANGED <<conn, told>> PROVE \A d \in Conns : Told(d)
    BY <1>0, ToldNothing
<1>1. CASE Poll(l) \/ DoPendingFunctors(l) \/ RemoveConnection(l)
    BY <1>0, <1>1 DEF Poll, DoPendingFunctors, RemoveConnection, ghosts
<1>2. ASSUME NEW a \in active[l], HandleWakeup(l, a) PROVE \A d \in Conns : Told(d)
    BY <1>0, <1>2 DEF HandleWakeup, ghosts
<1>3. ASSUME NEW a \in active[l], NewConnection(l, a) PROVE \A d \in Conns : Told(d)
    <2>0. PICK n, c : n = Cardinality(Created) /\ c = n + 1
        OBVIOUS
    <2> DEFINE made == [conn[c] EXCEPT !.state = "connecting"]
    <2>1. \/ conn' = [conn EXCEPT ![c] = Establish(made)] /\ told' = [told EXCEPT ![c] = "up"]
          \/ conn' = [conn EXCEPT ![c] = made] /\ told' = told
        BY <1>3, <2>0 DEF NewConnection
    <2>2. c \in Conns /\ c \notin Created
        <3>1. /\ n \in Nat /\ Created = 1..n /\ backlog + n <= MaxConns /\ backlog \in Nat
              /\ MaxConns \in Nat
            BY <2>0, BirthSize, TcpServerAssumption DEF NetInv, ConnTypes
        <3>2. a[1] = Acceptor
            BY <1>3 DEF NewConnection, HandleAccept
        <3>3. backlog > 0
            BY <3>2 DEF NetInv, ActiveInv
        <3>4. c = n + 1
            BY <2>0
        <3>5. n + 1 \in 1..MaxConns /\ n + 1 \notin 1..n
            BY <3>1, <3>3
        <3> QED BY <3>1, <3>4, <3>5 DEF Conns
    <2>3. Unborn(c) /\ conn[c] \in Conn
        BY <2>2, StageOf DEF NetInv, ConnTypes, Created
    <2>4. made \in Conn /\ Shut(made, "new") /\ made.in = conn[c].in
        BY <2>3, ConnIs DEF Unborn, Shut, ConnStates
    <2> HIDE DEF made
    <2>5. Establish(made).in = conn[c].in
        BY <2>4, EstablishIs
    <2> HIDE DEF Establish
    <2>6. CASE conn' = [conn EXCEPT ![c] = Establish(made)] /\ told' = [told EXCEPT ![c] = "up"]
        <3>1. conn'[c] = Establish(made) /\ \A d \in Conns \ {c} : Told(d)
            BY <2>2, <2>6, ToldOthers
        <3>2. told[c] = "none" /\ told'[c] = "up"
            BY <2>2, <2>3, <2>6 DEF Unborn, NetInv, ConnTypes
        <3>3. Told(c)
            BY <2>2, <2>5, <3>1, <3>2, ToldNext
        <3> QED BY <3>1, <3>3
    <2>7. CASE conn' = [conn EXCEPT ![c] = made] /\ told' = told
        <3>1. conn'[c] = made /\ \A d \in Conns \ {c} : Told(d)
            BY <2>2, <2>7, ToldOthers
        <3>2. Told(c)
            BY <2>2, <2>4, <2>7, <3>1, ToldNothing
        <3> QED BY <3>1, <3>2
    <2> QED BY <2>1, <2>6, <2>7
<1>4. ASSUME NEW a \in active[l], HandleMessage(l, a, OnMessage(l)[a])
      PROVE  \A d \in Conns : Told(d)
    <2> DEFINE c == a[1]
    <2>1. c \in Conns
        BY <1>4 DEF HandleMessage, HandleEvent
    <2>2. PICK o : /\ conn' = [conn EXCEPT ![c] = o.k]
                   /\ told' = told \/ told' = [told EXCEPT ![c] = "closing"]
        BY <1>4 DEF HandleMessage
    <2>3. told[c] = "up"
        BY <2>1 DEF NetInv, ActiveInv, Up
    <2> HIDE DEF c
    <2>4. \A d \in Conns \ {c} : Told(d)
        BY <2>1, <2>2, ToldOthers
    <2>5. told'[c] \in {"up", "closing"}
        BY <2>1, <2>2, <2>3 DEF NetInv, ConnTypes
    <2>6. Told(c)
        BY <2>3, <2>5 DEF Told
    <2> QED BY <2>4, <2>6
<1>5. ASSUME NEW a \in active[l], HandleEof(l, a) PROVE \A d \in Conns : Told(d)
    <2> DEFINE c == a[1]
    <2>1. c \in Conns
        BY <1>5 DEF HandleEof, HandleEvent
    <2>2. Open(conn[c]) /\ conn[c] \in Conn
        BY <2>1 DEF NetInv, ActiveInv, Up, ConnTypes
    <2>3. \/ conn' = [conn EXCEPT ![c] = HandleError(conn[c])] /\ told' = told
          \/ HandleClose(l, c)
        BY <1>5 DEF HandleEof, ghosts
    <2> HIDE DEF c
    <2>4. HandleError(conn[c]).in = conn[c].in
        BY <2>2, ConnIs DEF HandleError
    <2> HIDE DEF HandleError
    <2>5. CASE conn' = [conn EXCEPT ![c] = HandleError(conn[c])] /\ told' = told
        <3>1. conn'[c] = HandleError(conn[c]) /\ \A d \in Conns \ {c} : Told(d)
            BY <2>1, <2>5, ToldOthers
        <3>2. Told(c)
            BY <2>1, <2>4, <2>5, <3>1, ToldNothing
        <3> QED BY <3>1, <3>2
    <2>6. CASE HandleClose(l, c)
        BY <2>1, <2>2, <2>6, ToldClose
    <2> QED BY <2>3, <2>5, <2>6
<1>6. ASSUME NEW c \in Conns, conn' = [conn EXCEPT ![c] = HandleWrite(conn[c])], told' = told
      PROVE  \A d \in Conns : Told(d)
    <2>1. HandleWrite(conn[c]).in = conn[c].in
        BY HandleWriteIs DEF NetInv, ConnTypes
    <2> HIDE DEF HandleWrite
    <2>2. conn'[c] = HandleWrite(conn[c]) /\ \A d \in Conns \ {c} : Told(d)
        BY <1>6, ToldOthers
    <2>3. Told(c)
        BY <1>6, <2>1, <2>2, ToldNothing
    <2> QED BY <2>2, <2>3
<1>7. ASSUME NEW a \in active[l], HandleWritable(l, a) PROVE \A d \in Conns : Told(d)
    <2>1. /\ conn' = [conn EXCEPT ![a[1]] = HandleWrite(conn[a[1]])] /\ told' = told
          /\ a[2] = {"out"}
        BY <1>7 DEF HandleWritable, ghosts
    <2>2. a[1] \in Conns
        <3>1. a[1] \notin Conns => a[2] = {"in"}
            BY DEF NetInv, ActiveInv
        <3> QED BY <2>1, <3>1
    <2> QED BY <1>6, <2>1, <2>2
<1>8. CASE HandleWriteAfterRead(l)
    <2>0. PICK c : c = current[l]
        OBVIOUS
    <2>1. /\ conn' = [conn EXCEPT ![c] = HandleWrite(conn[c])] /\ told' = told
          /\ c # Idle
        BY <1>8, <2>0 DEF HandleWriteAfterRead, ghosts
    <2>2. c \in Conns
        BY <2>0, <2>1 DEF NetInv, LoopTypes
    <2> QED BY <1>6, <2>1, <2>2
<1>9. CASE ConnectEstablished(l)
    <2>0. PICK c : c = Head(calling[l])[2]
        OBVIOUS
    <2>1. /\ NextFunctor(l, "connectEstablished")
          /\ conn' = [conn EXCEPT ![c] = Establish(conn[c])] /\ told' = [told EXCEPT ![c] = "up"]
        BY <1>9, <2>0 DEF ConnectEstablished
    <2>2. c \in Conns /\ WaitsFor(c) = {"connectEstablished"}
        BY <2>0, <2>1, FunctorIs
    <2>3. Connecting(c) /\ conn[c] \in Conn
        BY <2>2, StageOf DEF NetInv, ConnTypes
    <2>4. Establish(conn[c]).in = conn[c].in
        BY <2>3, EstablishIs DEF Connecting
    <2> HIDE DEF Establish
    <2>5. conn'[c] = Establish(conn[c]) /\ \A d \in Conns \ {c} : Told(d)
        BY <2>1, <2>2, ToldOthers
    <2>6. told[c] = "none" /\ told'[c] = "up"
        BY <2>1, <2>2, <2>3 DEF Connecting, NetInv, ConnTypes
    <2>7. Told(c)
        BY <2>2, <2>4, <2>5, <2>6, ToldNext
    <2> QED BY <2>5, <2>7
<1>10. CASE ForceCloseInLoop(l)
    <2>0. PICK c : c = Head(calling[l])[2]
        OBVIOUS
    <2>1. /\ NextFunctor(l, "forceCloseInLoop")
          /\ MayForceClose(conn[c]) => HandleClose(l, c)
        BY <1>10, <2>0 DEF ForceCloseInLoop
    <2>2. c \in Conns /\ WaitsFor(c) = {"forceCloseInLoop"}
        BY <2>0, <2>1, FunctorIs
    <2>3. Closing(c)
        BY <2>2, StageOf DEF NetInv
    <2>4. HandleClose(l, c) /\ Open(conn[c])
        BY <2>1, <2>3 DEF Closing, Open, MayForceClose
    <2> QED BY <2>2, <2>4, ToldClose
<1>11. CASE ConnectDestroyed(l)
    <2>0. PICK c : c = Head(calling[l])[2]
        OBVIOUS
    <2>1. NextFunctor(l, "connectDestroyed")
        BY <1>11 DEF ConnectDestroyed
    <2>2. c \in Conns /\ WaitsFor(c) = {"connectDestroyed"}
        BY <2>0, <2>1, FunctorIs
    <2>3. Erased(c) /\ conn[c] \in Conn
        BY <2>2, StageOf DEF NetInv, ConnTypes
    <2>4. conn[c].state # "connected"
        BY <2>3 DEF Erased
    <2>5. conn' = [conn EXCEPT ![c] = RemoveChannel(conn[c])] /\ told' = told
        BY <1>11, <2>0, <2>4 DEF ConnectDestroyed
    <2>6. RemoveChannel(conn[c]).in = 0 /\ conn[c].in \in Nat
        BY <2>3, RemoveChannelIs, ConnIs
    <2> HIDE DEF RemoveChannel
    <2>7. conn'[c] = RemoveChannel(conn[c]) /\ \A d \in Conns \ {c} : Told(d)
        BY <2>2, <2>5, ToldOthers
    <2>8. Told(c)
        <3>1. ~(conn'[c].in > conn[c].in)
            BY <2>6, <2>7
        <3> QED BY <2>5, <3>1 DEF Told
    <2> QED BY <2>7, <2>8
<1> QED BY <1>1, <1>2, <1>3, <1>4, <1>5, <1>7, <1>8, <1>9, <1>10, <1>11 DEF LoopStep

LEMMA NetworkTold ==
    ASSUME NetInv, NEW stream, Network(stream)
    PROVE  \A d \in Conns : Told(d)
<1>1. CASE ClientConnects
    BY <1>1, ToldNothing DEF ClientConnects, ghosts
<1>2. ASSUME NEW c \in Conns,
             ClientSends(c, stream) \/ ClientCloses(c) \/ ClientResets(c) \/ SendBufferDrains(c)
      PROVE  \A d \in Conns : Told(d)
    <2>1. conn[c] \in Conn
        BY DEF NetInv, ConnTypes
    <2>2. PICK k : Kernel(c, k) /\ k.in = conn[c].in
        <3> DEFINE Kept(k) == k.in = conn[c].in
        <3>1. /\ Kept([conn[c] EXCEPT !.rcv = @ + 1]) /\ Kept([conn[c] EXCEPT !.fin = TRUE])
              /\ Kept([conn[c] EXCEPT !.rst = TRUE, !.err = TRUE, !.snd = 0])
              /\ Kept([conn[c] EXCEPT !.snd = 0])
            BY <2>1, ConnIs
        <3> HIDE DEF Kept
        <3>2. \/ Kernel(c, [conn[c] EXCEPT !.rcv = @ + 1])
              \/ Kernel(c, [conn[c] EXCEPT !.fin = TRUE])
              \/ Kernel(c, [conn[c] EXCEPT !.rst = TRUE, !.err = TRUE, !.snd = 0])
              \/ Kernel(c, [conn[c] EXCEPT !.snd = 0])
            BY <1>2 DEF ClientSends, ClientCloses, ClientResets, SendBufferDrains
        <3>3. \E k : Kernel(c, k) /\ Kept(k)
            BY <3>1, <3>2
        <3> QED BY <3>3 DEF Kept
    <2>3. conn' = [conn EXCEPT ![c] = k] /\ told' = told
        BY <2>2 DEF Kernel, ghosts
    <2>4. conn'[c] = k /\ \A d \in Conns \ {c} : Told(d)
        BY <2>3, ToldOthers
    <2>5. Told(c)
        BY <2>2, <2>3, <2>4, ToldNothing
    <2> QED BY <2>4, <2>5
<1> QED BY <1>1, <1>2 DEF Network

\* For every number of loops and connections the callbacks of a connection come
\* in order: up, messages, down, and no message after a forceClose.
THEOREM CallbacksInOrder == LoginSpec => CallbackOrder
<1>1. NetInv /\ [LoginNext]_loginVars => [\A c \in Conns : Told(c)]_netVars
    <2> SUFFICES ASSUME NetInv, LoginNext PROVE \A c \in Conns : Told(c)
        BY DEF loginVars
    <2>1. ASSUME NEW l \in LoopIds, LoginStep(l) PROVE \A c \in Conns : Told(c)
        <3>1. l \in Loops /\ LoopStep(l, OnMessage(l))
            BY <2>1 DEF LoginStep, OnMessage
        <3> QED BY <3>1, LoopStepTold
    <2>2. CASE Network(IF app = "login" THEN Request ELSE OtherIn)
        BY <2>2, NetworkTold
    <2> QED BY <2>1, <2>2 DEF LoginNext
<1>2. [\A c \in Conns : Told(c)]_netVars =>
          [\A c \in Conns :
              /\ conn'[c].in > conn[c].in => told[c] = "up"
              /\ told'[c] # told[c] =>
                     <<told[c], told'[c]>> \in {<<"none", "up">>, <<"up", "closing">>,
                                              <<"up", "down">>, <<"closing", "down">>}]_netVars
    BY DEF Told
<1> QED BY <1>1, <1>2, NetInvariant, PTL DEF LoginSpec, CallbackOrder
=============================================================================
