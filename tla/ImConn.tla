------------------------------- MODULE ImConn -------------------------------
(***************************************************************************)
(* Two ImConns at the ends of one TCP connection, on top of BaseSocket and *)
(* the edge-triggered epoll loop of EventDispatch: "C" connected, "S"      *)
(* accepted.  Each end is one thread, its event loop, and between the two  *)
(* is the kernel (external): bounded send buffers, segments that arrive    *)
(* one by one, FIN and RST.                                                *)
(*                                                                         *)
(* The byte stream is a sequence of cells.  The first cell of a PDU is its *)
(* header and gives the number of its cells; 0 is a header that makes      *)
(* IsPduAvailable throw.  A heartbeat is a PDU of one cell with id 0.      *)
(***************************************************************************)
EXTENDS Integers, Sequences

CONSTANTS
    Lens,     \* the lengths of PDUs, in cells
    SndCap,   \* cells a socket's send buffer takes
    MaxPdus   \* bound: MaxPdus[e] PDUs, without heartbeats, that e sends

Ends == {"C", "S"}
Peer == [e \in Ends |-> IF e = "C" THEN "S" ELSE "C"]

ASSUME ImConnAssumption ==
    /\ Lens \subseteq Nat
    /\ SndCap \in Nat \ {0}
    /\ MaxPdus \in [Ends -> Nat]

VARIABLES
    state,    \* BaseSocket::state_; "none" before accept, "closed" after Close
    outBuf,   \* ImConn::outBuf_
    inBuf,    \* ImConn::inBuf_
    busy,     \* ImConn::busy_
    pc,       \* where the end's event loop is in handling an event of the socket
    ev,       \* EPOLLOUT and EPOLLERR or EPOLLHUP of that event
    up,       \* kernel: the TCP handshake is done
    snd,      \* kernel: send buffers
    rcv,      \* kernel: receive buffers
    nospace,  \* kernel: a send found no space, so space gained is an edge
    edge,     \* kernel: the socket is on its epoll instance's ready list
    eof,      \* kernel: the peer's FIN has arrived
    reset,    \* kernel: the connection failed or an RST has arrived
    sent,     \* ghost: the PDUs each end sent
    got       \* ghost: the PDUs each end handled

imConnVars == <<state, outBuf, inBuf, busy>>
loopVars == <<pc, ev>>
kernelVars == <<up, snd, rcv, nospace, edge, eof, reset>>
ghosts == <<sent, got>>
imVars == <<imConnVars, loopVars, kernelVars, ghosts>>

States == {"none", "connecting", "connected", "closed"}
Ids == 1..(MaxPdus["C"] + MaxPdus["S"])
Pdus == [id : Ids, len : Lens]
HeartBeat == [id |-> 0, len |-> 1]
Cells == [pdu : Pdus \cup {HeartBeat}, header : BOOLEAN]
Events == [out : BOOLEAN, hup : BOOLEAN]

ImConnTypeOK ==
    /\ state \in [Ends -> States]
    /\ outBuf \in [Ends -> Seq(Cells)] /\ inBuf \in [Ends -> Seq(Cells)]
    /\ \A e \in Ends : state[e] \in {"connecting", "connected"} => (busy[e] <=> outBuf[e] # <<>>)
    /\ busy \in [Ends -> BOOLEAN]
    /\ pc \in [Ends -> {"loop", "read", "handle", "write", "hup"}]
    /\ ev \in [Ends -> Events]
    /\ up \in BOOLEAN
    /\ snd \in [Ends -> Seq(Cells)] /\ \A e \in Ends : Len(snd[e]) <= SndCap
    /\ rcv \in [Ends -> Seq(Cells)]
    /\ nospace \in [Ends -> BOOLEAN] /\ edge \in [Ends -> BOOLEAN]
    /\ eof \in [Ends -> BOOLEAN] /\ reset \in [Ends -> BOOLEAN]
    /\ sent \in [Ends -> Seq(Pdus)] /\ got \in [Ends -> Seq(Pdus)]

NoEvent == [out |-> FALSE, hup |-> FALSE]

ImConnInit ==
    /\ state = [e \in Ends |-> IF e = "C" THEN "connecting" ELSE "none"]
    /\ outBuf = [e \in Ends |-> <<>>] /\ inBuf = [e \in Ends |-> <<>>]
    /\ busy = [e \in Ends |-> FALSE]
    /\ pc = [e \in Ends |-> "loop"] /\ ev = [e \in Ends |-> NoEvent]
    /\ up = FALSE
    /\ snd = [e \in Ends |-> <<>>] /\ rcv = [e \in Ends |-> <<>>]
    /\ nospace = [e \in Ends |-> FALSE] /\ edge = [e \in Ends |-> FALSE]
    /\ eof = [e \in Ends |-> FALSE] /\ reset = [e \in Ends |-> FALSE]
    /\ sent = [e \in Ends |-> <<>>] /\ got = [e \in Ends |-> <<>>]

Exists(e) == state[e] \in {"connecting", "connected"}

-----------------------------------------------------------------------------
\* The kernel.

\* The three-way handshake ends: C's socket becomes writable.
Establish ==
    /\ ~up /\ state["C"] = "connecting" /\ ~reset["C"]
    /\ up' = TRUE
    /\ edge' = [edge EXCEPT !["C"] = TRUE]
    /\ UNCHANGED <<imConnVars, loopVars, snd, rcv, nospace, eof, reset, ghosts>>

\* The connection is refused or times out.
ConnectFails ==
    /\ ~up /\ state["C"] = "connecting" /\ ~reset["C"]
    /\ reset' = [reset EXCEPT !["C"] = TRUE]
    /\ edge' = [edge EXCEPT !["C"] = TRUE]
    /\ UNCHANGED <<imConnVars, loopVars, up, snd, rcv, nospace, eof, ghosts>>

\* One cell of e's send buffer arrives.  The freed space is an edge for e if a
\* send had found none, the arrival is one for the peer.
Arrive(e) ==
    LET p == Peer[e] IN
    /\ up /\ snd[e] # <<>> /\ state[p] # "closed"
    /\ snd' = [snd EXCEPT ![e] = Tail(@)]
    /\ rcv' = [rcv EXCEPT ![p] = Append(@, Head(snd[e]))]
    /\ edge' = [edge EXCEPT ![p] = TRUE, ![e] = @ \/ nospace[e]]
    /\ nospace' = [nospace EXCEPT ![e] = FALSE]
    /\ UNCHANGED <<imConnVars, loopVars, up, eof, reset, ghosts>>

\* A cell arrives for a socket that is closed: an RST comes back.
ArriveAtClosed(e) ==
    /\ up /\ snd[e] # <<>> /\ state[Peer[e]] = "closed"
    /\ snd' = [snd EXCEPT ![e] = <<>>]
    /\ reset' = [reset EXCEPT ![e] = TRUE]
    /\ edge' = [edge EXCEPT ![e] = TRUE]
    /\ UNCHANGED <<imConnVars, loopVars, up, rcv, nospace, eof, ghosts>>

\* After the last cell of a socket that was closed comes its FIN.
FinArrives(e) ==
    LET p == Peer[e] IN
    /\ up /\ state[e] = "closed" /\ snd[e] = <<>> /\ ~eof[p] /\ ~reset[p]
    /\ eof' = [eof EXCEPT ![p] = TRUE]
    /\ edge' = [edge EXCEPT ![p] = TRUE]
    /\ UNCHANGED <<imConnVars, loopVars, up, snd, rcv, nospace, reset, ghosts>>

\* close(2): what is in the send buffer is still sent, then the FIN; but with
\* unread data in the receive buffer the peer gets an RST at once.
KernelClose(e) ==
    LET p == Peer[e]
        abort == up /\ rcv[e] # <<>>
    IN  /\ snd' = IF abort THEN [snd EXCEPT ![e] = <<>>] ELSE snd
        /\ reset' = IF abort THEN [reset EXCEPT ![p] = TRUE] ELSE reset
        /\ edge' = [edge EXCEPT ![e] = FALSE, ![p] = @ \/ abort]
        /\ rcv' = [rcv EXCEPT ![e] = <<>>]
        /\ UNCHANGED <<up, nospace, eof>>

\* The accepting process ends and its listening socket with it, before it has
\* accepted the connection: C gets an RST.
ListenerGone ==
    /\ up /\ state["S"] = "none"
    /\ state' = [state EXCEPT !["S"] = "closed"]
    /\ snd' = [snd EXCEPT !["C"] = <<>>]
    /\ rcv' = [rcv EXCEPT !["S"] = <<>>]
    /\ reset' = [reset EXCEPT !["C"] = TRUE]
    /\ edge' = [edge EXCEPT !["C"] = TRUE]
    /\ UNCHANGED <<outBuf, inBuf, busy, loopVars, up, nospace, eof, ghosts>>

\* How many of n cells send(2) takes before it fails.
Taken(e, n) ==
    LET space == SndCap - Len(snd[e]) IN
    IF reset[e] THEN 0 ELSE IF n < space THEN n ELSE space

-----------------------------------------------------------------------------
\* ImConn::Send.

CellsOf(p) == [i \in 1..(IF p.len = 0 THEN 1 ELSE p.len) |-> [pdu |-> p, header |-> i = 1]]

\* Cells that send(2) did not take wait in outBuf_, behind those that do so
\* already.  Before the socket is CONNECTED, BaseSocket::Send takes none.
Send(e, cells) ==
    LET direct == ~busy[e] /\ state[e] = "connected"
        n == IF direct THEN Taken(e, Len(cells)) ELSE 0
        rest == SubSeq(cells, n + 1, Len(cells))
    IN  /\ outBuf' = [outBuf EXCEPT ![e] = @ \o rest]
        /\ busy' = [busy EXCEPT ![e] = @ \/ rest # <<>>]
        /\ snd' = [snd EXCEPT ![e] = @ \o SubSeq(cells, 1, n)]
        /\ nospace' = [nospace EXCEPT ![e] = @ \/ (direct /\ ~reset[e] /\ rest # <<>>)]
        /\ UNCHANGED <<state, inBuf, loopVars, up, rcv, edge, eof, reset>>

\* A handler of the end, or another connection's, sends a PDU.
SendPdu(e, len) ==
    LET p == [id |-> Len(sent[e]) + (IF e = "C" THEN 1 ELSE MaxPdus["C"] + 1), len |-> len] IN
    /\ Exists(e)
    /\ pc[e] \in {"loop", "handle", "hup"}
    /\ Len(sent[e]) < MaxPdus[e]
    /\ Send(e, CellsOf(p))
    /\ sent' = [sent EXCEPT ![e] = Append(@, p)]
    /\ UNCHANGED got

\* The cells of e that are under way; inBuf_ goes with the connection.
InTransit(e) ==
    outBuf[e] \o snd[e] \o rcv[Peer[e]] \o (IF Exists(Peer[e]) THEN inBuf[Peer[e]] ELSE <<>>)

\* Mutant: no heartbeat is sent.
OnTimer_Silent(e) == FALSE /\ UNCHANGED imVars

\* OnTimer: SERVER_HEARTBEAT_INTERVAL has passed, connected or not.  (Bound: the
\* last heartbeat is not under way any more.)
OnTimer(e) ==
    /\ Exists(e)
    /\ pc[e] = "loop"
    /\ \A i \in DOMAIN InTransit(e) : InTransit(e)[i].pdu # HeartBeat
    /\ Send(e, CellsOf(HeartBeat))
    /\ UNCHANGED ghosts

-----------------------------------------------------------------------------
\* Close, accept, and the dispatch of an event.

\* Close() of the class derived from ImConn: netlib_close, and the connection
\* leaves its map, so that no further callback finds it.
ImClose(e) ==
    /\ state' = [state EXCEPT ![e] = "closed"]
    /\ outBuf' = [outBuf EXCEPT ![e] = <<>>]
    /\ busy' = [busy EXCEPT ![e] = FALSE]
    /\ KernelClose(e)

\* A timeout, or a handler's decision.
ImCloseConn(e) ==
    /\ Exists(e)
    /\ pc[e] \in {"loop", "handle"}
    /\ ImClose(e)
    /\ UNCHANGED <<inBuf, loopVars, ghosts>>

\* AcceptNewSocket: epoll reports a socket that is added ready at once.
AcceptNewSocket ==
    /\ up /\ state["S"] = "none"
    /\ state' = [state EXCEPT !["S"] = "connected"]
    /\ edge' = [edge EXCEPT !["S"] = TRUE]
    /\ UNCHANGED <<outBuf, inBuf, busy, loopVars, up, snd, rcv, nospace, eof, reset, ghosts>>

\* The callbacks of an event that are left after OnRead and after OnWrite; for
\* a connection that was closed none of them finds it any more.
AfterWrite(bits, open) == IF bits.hup /\ open THEN "hup" ELSE "loop"
AfterRead(bits, open) == IF bits.out /\ open THEN "write" ELSE AfterWrite(bits, open)

Goto(e, next) ==
    /\ pc' = [pc EXCEPT ![e] = next]
    /\ ev' = IF next = "loop" THEN [ev EXCEPT ![e] = NoEvent] ELSE ev

\* epoll_wait: an edge, with all bits that hold now.
EpollWait(e) ==
    LET in == rcv[e] # <<>> \/ eof[e] \/ reset[e]
        bits == [out |-> (up /\ Len(snd[e]) < SndCap) \/ reset[e], hup |-> reset[e]]
        next == IF in THEN "read" ELSE AfterRead(bits, TRUE)
    IN  /\ Exists(e)
        /\ pc[e] = "loop" /\ edge[e]
        /\ edge' = [edge EXCEPT ![e] = FALSE]
        /\ pc' = [pc EXCEPT ![e] = next]
        /\ ev' = [ev EXCEPT ![e] = IF next = "loop" THEN NoEvent ELSE bits]
        /\ UNCHANGED <<imConnVars, up, snd, rcv, nospace, eof, reset, ghosts>>

\* BaseSocket::OnRead finds nothing to read: NETLIB_MSG_CLOSE.
ReadClose(e) ==
    /\ pc[e] = "read"
    /\ rcv[e] = <<>>
    /\ ImClose(e)
    /\ Goto(e, "loop")
    /\ UNCHANGED <<inBuf, ghosts>>

\* Mutant: a single recv, for an event that comes once.
ImOnRead_Once(e) ==
    /\ pc[e] = "read"
    /\ rcv[e] # <<>>
    /\ inBuf' = [inBuf EXCEPT ![e] = Append(@, Head(rcv[e]))]
    /\ rcv' = [rcv EXCEPT ![e] = Tail(@)]
    /\ Goto(e, "handle")
    /\ UNCHANGED <<state, outBuf, busy, up, snd, nospace, edge, eof, reset, ghosts>>

\* ImConn::OnRead receives until recv returns 0 or less.
ImOnRead(e) ==
    /\ pc[e] = "read"
    /\ rcv[e] # <<>>
    /\ inBuf' = [inBuf EXCEPT ![e] = @ \o rcv[e]]
    /\ rcv' = [rcv EXCEPT ![e] = <<>>]
    /\ Goto(e, "handle")
    /\ UNCHANGED <<state, outBuf, busy, up, snd, nospace, edge, eof, reset, ghosts>>

\* Mutant: a PDU is taken for complete as soon as its header is there.
IsPduAvailable_Header(buf) == buf # <<>> /\ buf[1].pdu.len # 0

\* ImPdu::IsPduAvailable, for a header that is not broken.
IsPduAvailable(buf) == buf # <<>> /\ buf[1].pdu.len \in 1..Len(buf)

\* The loop of ImConn::OnRead over the PDUs of inBuf_; it goes on after a
\* handler closed the connection.
HandlePdu(e) ==
    LET p == inBuf[e][1].pdu IN
    /\ pc[e] = "handle"
    /\ IsPduAvailable(inBuf[e])
    /\ got' = IF p = HeartBeat THEN got ELSE [got EXCEPT ![e] = Append(@, p)]
    /\ inBuf' = [inBuf EXCEPT ![e] = SubSeq(@, p.len + 1, Len(@))]
    /\ UNCHANGED <<state, outBuf, busy, loopVars, kernelVars, sent>>

\* IsPduAvailable throws and OnRead calls OnClose.
ImHandleBroken(e) ==
    /\ pc[e] = "handle"
    /\ inBuf[e] # <<>> /\ inBuf[e][1].pdu.len = 0
    /\ IF Exists(e) THEN ImClose(e) ELSE UNCHANGED <<state, outBuf, busy, kernelVars>>
    /\ Goto(e, "loop")
    /\ UNCHANGED <<inBuf, ghosts>>

ImOnReadReturns(e) ==
    /\ pc[e] = "handle"
    /\ ~IsPduAvailable(inBuf[e])
    /\ inBuf[e] # <<>> => inBuf[e][1].pdu.len # 0
    /\ Goto(e, AfterRead(ev[e], Exists(e)))
    /\ UNCHANGED <<imConnVars, kernelVars, ghosts>>

\* BaseSocket::OnWrite while CONNECTING: the event that would also have let
\* outBuf_ out is used up by NETLIB_MSG_CONFIRM.
OnConfirm(e) ==
    /\ pc[e] = "write"
    /\ state[e] = "connecting" /\ ~reset[e]
    /\ state' = [state EXCEPT ![e] = "connected"]
    /\ Goto(e, AfterWrite(ev[e], TRUE))
    /\ UNCHANGED <<outBuf, inBuf, busy, kernelVars, ghosts>>

\* SO_ERROR is set: NETLIB_MSG_CLOSE.
ConnectError(e) ==
    /\ pc[e] = "write"
    /\ state[e] = "connecting" /\ reset[e]
    /\ ImClose(e)
    /\ Goto(e, "loop")
    /\ UNCHANGED <<inBuf, ghosts>>

StaysBusy(rest) == rest # <<>>

\* ImConn::OnWrite, which returns at once when it is not busy_.
OnWrite(e) ==
    LET n == Taken(e, Len(outBuf[e]))
        rest == SubSeq(outBuf[e], n + 1, Len(outBuf[e]))
    IN  /\ pc[e] = "write"
        /\ state[e] = "connected"
        /\ IF busy[e]
           THEN /\ outBuf' = [outBuf EXCEPT ![e] = rest]
                /\ busy' = [busy EXCEPT ![e] = StaysBusy(rest)]
                /\ snd' = [snd EXCEPT ![e] = @ \o SubSeq(outBuf[e], 1, n)]
                /\ nospace' = [nospace EXCEPT ![e] = @ \/ (rest # <<>> /\ ~reset[e])]
           ELSE UNCHANGED <<outBuf, busy, snd, nospace>>
        /\ Goto(e, AfterWrite(ev[e], TRUE))
        /\ UNCHANGED <<state, inBuf, up, rcv, edge, eof, reset, ghosts>>

\* BaseSocket::OnClose, for EPOLLERR or EPOLLHUP.
OnClose(e) ==
    /\ pc[e] = "hup"
    /\ ImClose(e)
    /\ Goto(e, "loop")
    /\ UNCHANGED <<inBuf, ghosts>>

-----------------------------------------------------------------------------
Kernel ==
    \/ Establish \/ ConnectFails \/ ListenerGone
    \/ \E e \in Ends : Arrive(e) \/ ArriveAtClosed(e) \/ FinArrives(e)

Dispatch(e) ==
    \/ EpollWait(e)
    \/ ReadClose(e) \/ ImOnRead(e)
    \/ HandlePdu(e) \/ ImHandleBroken(e) \/ ImOnReadReturns(e)
    \/ OnConfirm(e) \/ ConnectError(e) \/ OnWrite(e)
    \/ OnClose(e)

ImConnNext ==
    \/ Kernel
    \/ AcceptNewSocket
    \/ \E e \in Ends :
           \/ Dispatch(e)
           \/ \E len \in Lens : SendPdu(e, len)
           \/ OnTimer(e)
           \/ ImCloseConn(e)

ImConnSpec == ImConnInit /\ [][ImConnNext]_imVars

\* The network delivers, the connect ends one way or the other, and each event
\* loop keeps handling events and timers: of the timers a loop looks at in
\* every round, none is put off for ever by the events of one socket.
ImConnFairSpec ==
    /\ ImConnSpec
    /\ WF_imVars(Establish \/ ConnectFails)
    /\ WF_imVars(AcceptNewSocket)
    /\ \A e \in Ends :
           /\ WF_imVars(Arrive(e) \/ ArriveAtClosed(e) \/ FinArrives(e))
           /\ WF_imVars(Dispatch(e))
           /\ SF_imVars(OnTimer(e))

-----------------------------------------------------------------------------
\* The two ends implement a channel of PDUs: however the sends are cut up by
\* full socket buffers and the arrivals by the network, the PDUs are handled
\* whole, in order and once (Send, OnWrite, OnRead, IsPduAvailable).
Channel == INSTANCE PduChannel WITH shut <- [e \in Ends |-> state[e] = "closed"]
ChannelSpec == Channel!ChanSpec

EitherClosed == \E e \in Ends : state[e] = "closed"

\* Nothing is left lying in outBuf_, in the socket or in inBuf_: a PDU that was
\* sent is handled or the connection closes.  A PDU sent before the connection
\* is confirmed relies on the peer's heartbeats for the event that lets it out.
EventuallyHandled ==
    \A e \in Ends : \A n \in 1..MaxPdus[e] :
        Len(sent[e]) >= n ~> Len(got[Peer[e]]) >= n \/ EitherClosed

\* When one end has closed, so does the other, although OnRead swallows an end
\* of file that comes in with the last data: the next heartbeat draws an RST.
\* (Not so for an end whose outBuf_ holds what it sent before it was confirmed
\* and gets no event: busy_ keeps its heartbeats back.)
PeerCloseNoticed ==
    \A e \in Ends :
        (state[Peer[e]] = "closed" /\ state[e] = "connected" /\ (busy[e] => snd[e] # <<>>))
            ~> state[e] = "closed"
=============================================================================
