---------------------------- MODULE ImConnProofs ----------------------------
(***************************************************************************)
(* For every number and length of PDUs and every size of the send buffers, *)
(* two ImConns implement a channel of PDUs: what TCP, partial sends and    *)
(* partial reads cut up is put together again, in order and once.          *)
(***************************************************************************)
EXTENDS ImConn, SequenceTheorems, TLAPS

-----------------------------------------------------------------------------
\* A stream of cells, of which g PDUs have been handled and s have been sent.

Width(p) == IF p.len = 0 THEN 1 ELSE p.len

\* Headers stand where the PDU before them ends, and the cells between belong to
\* that PDU.  (The last PDU may be cut off.)
Framed(Q) ==
    /\ Len(Q) > 0 => Q[1].header
    /\ \A i \in 1..Len(Q) : Q[i].header =>
           /\ \A j \in 1..Len(Q) : i < j /\ j < i + Width(Q[i].pdu)
                                       => ~Q[j].header /\ Q[j].pdu = Q[i].pdu
           /\ i + Width(Q[i].pdu) <= Len(Q) => Q[i + Width(Q[i].pdu)].header

\* The last PDU is whole.
Whole(Q) == \A i \in 1..Len(Q) : Q[i].header => i + Width(Q[i].pdu) <= Len(Q) + 1

\* At i there starts a PDU that is no heartbeat.
Starts(Q, i) == Q[i].header /\ Q[i].pdu # HeartBeat

\* The number of a PDU among those its end sent; ids begin after `off`.
Number(off, p) == p.id - off

\* The PDUs in the stream are those after the g-th, in the order they were sent,
\* with none left out.
Ordered(off, Q, g, s) ==
    \A i \in 1..Len(Q) : Starts(Q, i) =>
        LET n == Number(off, Q[i].pdu) IN
        /\ n \in 1..Len(s) /\ s[n] = Q[i].pdu
        /\ n > g
        /\ \A j \in 1..Len(Q) : i < j /\ Starts(Q, j) => n < Number(off, Q[j].pdu)
        /\ \A k \in (g + 1)..(n - 1) : \E j \in 1..Len(Q) :
               j < i /\ Starts(Q, j) /\ Number(off, Q[j].pdu) = k

\* All PDUs sent and not handled are in the stream.
AllThere(off, Q, g, s) ==
    \A k \in (g + 1)..Len(s) : \E j \in 1..Len(Q) : Starts(Q, j) /\ Number(off, Q[j].pdu) = k

Cut(off, Q, g, s) == Framed(Q) /\ Ordered(off, Q, g, s)
Full(off, Q, g, s) == Whole(Q) /\ AllThere(off, Q, g, s)

-----------------------------------------------------------------------------
\* The inductive invariant.

\* (For the provers, a name of its own for concatenation.)
Cat(x, y) == x \o y

Off(e) == IF e = "C" THEN 0 ELSE MaxPdus["C"]

\* The cells that e sent and its peer will have to take apart: none that are still
\* on the way to a peer that has closed.
Stream(e) ==
    Cat(Cat(inBuf[Peer[e]], rcv[Peer[e]]),
        IF state[Peer[e]] = "closed" THEN <<>> ELSE Cat(snd[e], outBuf[e]))

\* Of the PDUs s an end sent, g have been handled and Q is what can still be.
EndOK(off, Q, g, s, open) ==
    /\ g <= Len(s)
    /\ Cut(off, Q, g, s)
    /\ open => Full(off, Q, g, s)

StreamOK(e) == EndOK(Off(e), Stream(e), Len(got[Peer[e]]), sent[e], ~EitherClosed)
StreamInv == \A e \in Ends : StreamOK(e)

\* busy_ says that outBuf_ holds something, of any connection.
BusyInv == \A e \in Ends : busy[e] <=> outBuf[e] # <<>>

\* Ids are given in the order of the sends.
SentInv == \A e \in Ends : Len(sent[e]) <= MaxPdus[e]

ConnInv == ImConnTypeOK /\ BusyInv /\ SentInv /\ StreamInv

-----------------------------------------------------------------------------
\* What cutting off, appending and taking out a PDU do to a stream.

AllPdus == Pdus \cup {HeartBeat}

\* The fields of PDUs and cells; a heartbeat is none of the PDUs with an id.
LEMMA PduTypes ==
    /\ \A p \in AllPdus : p.len \in Nat /\ p.id \in Nat /\ Width(p) \in Nat \ {0}
    /\ \A p \in Pdus : p # HeartBeat /\ p.id >= 1
    /\ \A c \in Cells : c.header \in BOOLEAN /\ c.pdu \in AllPdus
<1>1. Lens \subseteq Nat /\ MaxPdus["C"] \in Nat /\ MaxPdus["S"] \in Nat
    BY ImConnAssumption DEF Ends
<1>2. \A p \in Pdus : p.len \in Nat /\ p.id \in Nat /\ p.id >= 1
    <2>1. \A p \in Pdus : p.len \in Lens /\ p.id \in Ids
        BY DEF Pdus
    <2>2. \A n \in Ids : n \in Nat /\ n >= 1
        BY <1>1 DEF Ids
    <2> QED BY <1>1, <2>1, <2>2
<1>3. HeartBeat.len = 1 /\ HeartBeat.id = 0
    BY DEF HeartBeat
<1>4. \A p \in AllPdus : p.len \in Nat /\ p.id \in Nat
    BY <1>2, <1>3 DEF AllPdus
<1>5. \A p \in Pdus : p # HeartBeat
    BY <1>2, <1>3
<1>6. \A c \in Cells : c.header \in BOOLEAN /\ c.pdu \in AllPdus
    BY DEF Cells, AllPdus
<1> QED BY <1>2, <1>4, <1>5, <1>6 DEF Width

\* A beginning of a stream is a stream that may be cut off.
LEMMA CutOff ==
    ASSUME NEW off \in Nat, NEW g \in Nat, NEW s \in Seq(Pdus),
           NEW Q \in Seq(Cells), NEW R \in Seq(Cells), Cut(off, Q, g, s),
           Len(R) <= Len(Q), \A i \in 1..Len(R) : R[i] = Q[i]
    PROVE  Cut(off, R, g, s)
<1>0. Len(Q) \in Nat /\ Len(R) \in Nat
    BY LenProperties
<1>1. \A i \in 1..Len(R) : i \in 1..Len(Q) /\ R[i] = Q[i] /\ R[i] \in Cells /\ Width(R[i].pdu) \in Nat \ {0}
    BY <1>0, PduTypes, ElementOfSeq
<1>2. Framed(R)
    <2>1. Len(R) > 0 => R[1].header
        BY <1>0, <1>1 DEF Cut, Framed
    <2> SUFFICES ASSUME NEW i \in 1..Len(R), R[i].header
                 PROVE  /\ \A j \in 1..Len(R) : i < j /\ j < i + Width(R[i].pdu)
                                                    => ~R[j].header /\ R[j].pdu = R[i].pdu
                        /\ i + Width(R[i].pdu) <= Len(R) => R[i + Width(R[i].pdu)].header
        BY <2>1 DEF Framed
    <2>2. /\ \A j \in 1..Len(Q) : i < j /\ j < i + Width(Q[i].pdu)
                                      => ~Q[j].header /\ Q[j].pdu = Q[i].pdu
          /\ i + Width(Q[i].pdu) <= Len(Q) => Q[i + Width(Q[i].pdu)].header
        BY <1>1 DEF Cut, Framed
    <2> DEFINE w == Width(R[i].pdu)
    <2>3. w \in Nat \ {0} /\ w = Width(Q[i].pdu)
        BY <1>1
    <2> HIDE DEF w
    <2>4. i + w <= Len(R) => i + w \in 1..Len(R) /\ i + w <= Len(Q)
        BY <1>0, <2>3
    <2> QED BY <1>1, <2>2, <2>3, <2>4 DEF w
<1>3. Ordered(off, R, g, s)
    <2> SUFFICES ASSUME NEW i \in 1..Len(R), Starts(R, i), NEW n, n = Number(off, R[i].pdu)
                 PROVE  /\ n \in 1..Len(s) /\ s[n] = R[i].pdu
                        /\ n > g
                        /\ \A j \in 1..Len(R) : i < j /\ Starts(R, j) => n < Number(off, R[j].pdu)
                        /\ \A k \in (g + 1)..(n - 1) : \E j \in 1..Len(R) :
                               j < i /\ Starts(R, j) /\ Number(off, R[j].pdu) = k
        BY DEF Ordered
    <2>1. i \in 1..Len(Q) /\ Starts(Q, i) /\ n = Number(off, Q[i].pdu)
        BY <1>1 DEF Starts
    <2>2. /\ n \in 1..Len(s) /\ s[n] = Q[i].pdu
          /\ n > g
          /\ \A j \in 1..Len(Q) : i < j /\ Starts(Q, j) => n < Number(off, Q[j].pdu)
          /\ \A k \in (g + 1)..(n - 1) : \E j \in 1..Len(Q) :
                 j < i /\ Starts(Q, j) /\ Number(off, Q[j].pdu) = k
        BY <2>1 DEF Cut, Ordered
    <2>3. \A j \in 1..Len(R) : Starts(R, j) <=> Starts(Q, j)
        BY <1>1 DEF Starts
    <2>4. \A k \in (g + 1)..(n - 1) : \E j \in 1..Len(R) :
              j < i /\ Starts(R, j) /\ Number(off, R[j].pdu) = k
        <3> SUFFICES ASSUME NEW k \in (g + 1)..(n - 1)
                     PROVE  \E j \in 1..Len(R) : j < i /\ Starts(R, j) /\ Number(off, R[j].pdu) = k
            OBVIOUS
        <3>1. PICK j \in 1..Len(Q) : j < i /\ Starts(Q, j) /\ Number(off, Q[j].pdu) = k
            BY <2>2
        <3>2. j \in 1..Len(R)
            BY <1>0, <3>1
        <3> QED BY <1>1, <2>3, <3>1, <3>2
    <2> QED BY <1>1, <2>2, <2>3, <2>4
<1> QED BY <1>2, <1>3 DEF Cut

\* p is sent behind Q.  A heartbeat is not counted.
LEMMA SentBehind ==
    ASSUME NEW off \in Nat, NEW g \in Nat, NEW s \in Seq(Pdus), NEW t \in Seq(Pdus),
           NEW Q \in Seq(Cells), NEW R \in Seq(Cells), Cut(off, Q, g, s), Full(off, Q, g, s),
           NEW p \in AllPdus, g <= Len(s),
           Len(R) = Len(Q) + Width(p), \A i \in 1..Len(Q) : R[i] = Q[i],
           \A i \in 1..Len(R) : i > Len(Q) => R[i].pdu = p /\ (R[i].header <=> i = Len(Q) + 1),
           \/ p = HeartBeat /\ t = s
           \/ p # HeartBeat /\ t = Append(s, p) /\ Number(off, p) = Len(s) + 1
    PROVE  Cut(off, R, g, t) /\ Full(off, R, g, t)
<1>0. /\ Len(Q) \in Nat /\ Len(R) \in Nat /\ Len(s) \in Nat /\ Len(t) \in Nat
      /\ Width(p) \in Nat \ {0}
    BY LenProperties, PduTypes
<1> DEFINE m == Len(Q) + 1
<1>1. /\ \A i \in 1..Len(Q) : /\ i \in 1..Len(R) /\ R[i] = Q[i] /\ R[i] \in Cells
                              /\ Width(R[i].pdu) \in Nat \ {0}
      /\ m \in 1..Len(R) /\ R[m].header /\ R[m].pdu = p
      /\ \A i \in 1..Len(R) : i \in 1..Len(Q) \/ i = m \/ (i > m /\ ~R[i].header /\ R[i].pdu = p)
    <2>1. \A i \in 1..Len(Q) : i \in 1..Len(R) /\ Q[i] \in Cells
        BY <1>0, ElementOfSeq
    <2>2. \A i \in 1..Len(Q) : Width(Q[i].pdu) \in Nat \ {0}
        BY <2>1, PduTypes
    <2>3. m \in 1..Len(R) /\ m > Len(Q)
        BY <1>0
    <2>4. \A i \in 1..Len(R) : i \in 1..Len(Q) \/ i = m \/ i > m
        BY <1>0
    <2>5. \A i \in 1..Len(R) : i > m => i > Len(Q) /\ i # Len(Q) + 1
        BY <1>0
    <2>6. \A i \in 1..Len(R) : i > m => R[i].pdu = p /\ ~R[i].header
        BY <2>5
    <2> QED BY <2>1, <2>2, <2>3, <2>4, <2>6
<1>2. Framed(R) /\ Whole(R)
    <2>1. R[1].header
        <3>1. CASE Len(Q) = 0
            BY <1>1, <3>1
        <3>2. CASE Len(Q) # 0
            BY <1>0, <1>1, <3>2 DEF Cut, Framed
        <3> QED BY <3>1, <3>2
    <2>2. ASSUME NEW i \in 1..Len(R), R[i].header
          PROVE  /\ \A j \in 1..Len(R) : i < j /\ j < i + Width(R[i].pdu)
                                             => ~R[j].header /\ R[j].pdu = R[i].pdu
                 /\ i + Width(R[i].pdu) <= Len(R) => R[i + Width(R[i].pdu)].header
                 /\ i + Width(R[i].pdu) <= Len(R) + 1
        <3> DEFINE w == Width(R[i].pdu)
        <3>1. CASE i \in 1..Len(Q)
            <4>1. /\ w \in Nat \ {0} /\ Q[i].header /\ w = Width(Q[i].pdu) /\ R[i] = Q[i]
                BY <1>1, <2>2, <3>1
            <4>2. /\ \A j \in 1..Len(Q) : i < j /\ j < i + w => ~Q[j].header /\ Q[j].pdu = Q[i].pdu
                  /\ i + w <= Len(Q) => Q[i + w].header
                  /\ i + w <= Len(Q) + 1
                BY <3>1, <4>1 DEF Cut, Full, Framed, Whole
            <4> HIDE DEF w
            <4>3. /\ \A j \in 1..Len(R) : j < i + w => j \in 1..Len(Q)
                  /\ i + w <= Len(R) + 1
                  /\ i + w \in 1..Len(Q) \/ i + w = m
                <5>1. i + w \in Nat /\ i + w >= 1 /\ i + w <= Len(Q) + 1
                    <6>1. w \in Nat /\ i \in Nat /\ i >= 1 /\ i + w <= Len(Q) + 1
                        BY <3>1, <4>1, <4>2
                    <6> QED BY ONLY <6>1
                <5>2. \A j \in 1..Len(R) : j < i + w => j \in 1..Len(Q)
                    BY ONLY <1>0, <5>1
                <5>3. i + w <= Len(R) + 1
                    BY <1>0, <5>1
                <5>4. i + w \in 1..Len(Q) \/ i + w = Len(Q) + 1
                    BY <1>0, <5>1
                <5> QED BY <5>2, <5>3, <5>4
            <4>4. \A j \in 1..Len(R) : i < j /\ j < i + w => ~R[j].header /\ R[j].pdu = R[i].pdu
                BY <1>1, <4>1, <4>2, <4>3
            <4>5. R[i + w].header
                <5>1. CASE i + w \in 1..Len(Q)
                    BY <1>1, <4>2, <5>1
                <5>2. CASE i + w = m
                    BY <1>1, <5>2
                <5> QED BY <4>3, <5>1, <5>2
            <4> QED BY <4>3, <4>4, <4>5 DEF w
        <3>2. CASE i = m
            <4>1. w = Width(p)
                BY <1>1, <3>2
            <4>2. i + w = Len(R) + 1
                BY <1>0, <3>2, <4>1
            <4>3. ~(i + w <= Len(R))
                BY <1>0, <4>2
            <4>4. \A j \in 1..Len(R) : i < j => ~R[j].header /\ R[j].pdu = R[i].pdu
                <5>1. \A j \in 1..Len(R) : i < j => j \notin 1..Len(Q) /\ j # m
                    BY <1>0, <3>2
                <5> QED BY <1>1, <3>2, <5>1
            <4>5. i + w <= Len(R) + 1
                BY <1>0, <4>2
            <4> QED BY <4>3, <4>4, <4>5
        <3> QED BY <1>1, <2>2, <3>1, <3>2
    <2> QED BY <2>1, <2>2 DEF Framed, Whole
<1>3. \A i \in 1..Len(Q) : Starts(R, i) <=> Starts(Q, i)
    BY <1>1 DEF Starts
<1>4. /\ p = HeartBeat => \A i \in 1..Len(R) : Starts(R, i) => i \in 1..Len(Q)
      /\ p # HeartBeat => /\ Starts(R, m)
                          /\ \A i \in 1..Len(R) : Starts(R, i) => i \in 1..Len(Q) \/ i = m
    BY <1>1 DEF Starts
<1>5. /\ Len(s) <= Len(t) /\ \A n \in 1..Len(s) : n \in 1..Len(t) /\ t[n] = s[n]
      /\ p = HeartBeat => Len(t) = Len(s)
      /\ p # HeartBeat => Len(t) = Len(s) + 1 /\ t[Len(s) + 1] = p /\ Number(off, p) = Len(s) + 1
    <2>1. CASE p = HeartBeat
        BY <1>0, <2>1
    <2>2. CASE p # HeartBeat
        <3>1. t = Append(s, p) /\ Number(off, p) = Len(s) + 1
            BY <2>2
        <3>2. p \in Pdus
            BY <2>2 DEF AllPdus
        <3>3. Len(t) = Len(s) + 1 /\ t[Len(s) + 1] = p /\ \A n \in 1..Len(s) : t[n] = s[n]
            BY <3>1, <3>2, AppendProperties
        <3> QED BY <1>0, <2>2, <3>1, <3>3
    <2> QED BY <2>1, <2>2
<1>6. \A i \in 1..Len(Q) : Starts(Q, i) =>
          LET n == Number(off, Q[i].pdu) IN
          /\ n \in 1..Len(s) /\ s[n] = Q[i].pdu
          /\ n > g
          /\ \A j \in 1..Len(Q) : i < j /\ Starts(Q, j) => n < Number(off, Q[j].pdu)
          /\ \A k \in (g + 1)..(n - 1) : \E j \in 1..Len(Q) :
                 j < i /\ Starts(Q, j) /\ Number(off, Q[j].pdu) = k
    BY DEF Cut, Ordered
<1>7. \A k \in (g + 1)..Len(s) : \E j \in 1..Len(Q) : Starts(Q, j) /\ Number(off, Q[j].pdu) = k
    BY DEF Full, AllThere
<1>8. Ordered(off, R, g, t)
    <2> SUFFICES ASSUME NEW i \in 1..Len(R), Starts(R, i), NEW n, n = Number(off, R[i].pdu)
                 PROVE  /\ n \in 1..Len(t) /\ t[n] = R[i].pdu
                        /\ n > g
                        /\ \A j \in 1..Len(R) : i < j /\ Starts(R, j) => n < Number(off, R[j].pdu)
                        /\ \A k \in (g + 1)..(n - 1) : \E j \in 1..Len(R) :
                               j < i /\ Starts(R, j) /\ Number(off, R[j].pdu) = k
        BY DEF Ordered
    <2>1. CASE i \in 1..Len(Q)
        <3>1. Starts(Q, i) /\ n = Number(off, Q[i].pdu) /\ R[i] = Q[i]
            BY <1>1, <1>3, <2>1
        <3>2. /\ n \in 1..Len(s) /\ s[n] = Q[i].pdu /\ n > g
              /\ \A j \in 1..Len(Q) : i < j /\ Starts(Q, j) => n < Number(off, Q[j].pdu)
              /\ \A k \in (g + 1)..(n - 1) : \E j \in 1..Len(Q) :
                     j < i /\ Starts(Q, j) /\ Number(off, Q[j].pdu) = k
            BY <1>6, <2>1, <3>1
        <3>3. \A j \in 1..Len(R) : i < j /\ Starts(R, j) => n < Number(off, R[j].pdu)
            <4> SUFFICES ASSUME NEW j \in 1..Len(R), i < j, Starts(R, j)
                         PROVE  n < Number(off, R[j].pdu)
                OBVIOUS
            <4>1. CASE j \in 1..Len(Q)
                BY <1>1, <1>3, <3>2, <4>1
            <4>2. CASE j \notin 1..Len(Q)
                <5>1. p # HeartBeat /\ j = m
                    BY <1>4, <4>2
                <5>2. Number(off, R[j].pdu) = Len(s) + 1
                    BY <1>1, <1>5, <5>1
                <5> QED BY <1>0, <3>2, <5>2
            <4> QED BY <4>1, <4>2
        <3>4. \A k \in (g + 1)..(n - 1) : \E j \in 1..Len(R) :
                  j < i /\ Starts(R, j) /\ Number(off, R[j].pdu) = k
            <4> SUFFICES ASSUME NEW k \in (g + 1)..(n - 1)
                         PROVE  \E j \in 1..Len(R) : j < i /\ Starts(R, j) /\ Number(off, R[j].pdu) = k
                OBVIOUS
            <4>1. PICK j \in 1..Len(Q) : j < i /\ Starts(Q, j) /\ Number(off, Q[j].pdu) = k
                BY <3>2
            <4> QED BY <1>1, <1>3, <4>1
        <3> QED BY <1>5, <3>1, <3>2, <3>3, <3>4
    <2>2. CASE i \notin 1..Len(Q)
        <3>1. p # HeartBeat /\ i = m /\ R[i].pdu = p
            BY <1>1, <1>4, <2>2
        <3>2. n = Len(s) + 1 /\ t[n] = p /\ n \in 1..Len(t) /\ n > g
            BY <1>0, <1>5, <3>1
        <3>3. \A j \in 1..Len(R) : i < j => ~Starts(R, j)
            <4>1. \A j \in 1..Len(R) : i < j => j \notin 1..Len(Q) /\ j # m
                BY <1>0, <3>1
            <4> QED BY <1>4, <3>1, <4>1
        <3>4. \A k \in (g + 1)..(n - 1) : \E j \in 1..Len(R) :
                  j < i /\ Starts(R, j) /\ Number(off, R[j].pdu) = k
            <4> SUFFICES ASSUME NEW k \in (g + 1)..(n - 1)
                         PROVE  \E j \in 1..Len(R) : j < i /\ Starts(R, j) /\ Number(off, R[j].pdu) = k
                OBVIOUS
            <4>1. k \in (g + 1)..Len(s)
                BY <1>0, <3>2
            <4>2. PICK j \in 1..Len(Q) : Starts(Q, j) /\ Number(off, Q[j].pdu) = k
                BY <1>7, <4>1
            <4>3. j < i
                BY <1>0, <3>1, <4>2
            <4> QED BY <1>1, <1>3, <4>2, <4>3
        <3> QED BY <3>1, <3>2, <3>3, <3>4
    <2> QED BY <2>1, <2>2
<1>9. AllThere(off, R, g, t)
    <2> SUFFICES ASSUME NEW k \in (g + 1)..Len(t)
                 PROVE  \E j \in 1..Len(R) : Starts(R, j) /\ Number(off, R[j].pdu) = k
        BY DEF AllThere
    <2>1. CASE k \in (g + 1)..Len(s)
        <3>1. PICK j \in 1..Len(Q) : Starts(Q, j) /\ Number(off, Q[j].pdu) = k
            BY <1>7, <2>1
        <3> QED BY <1>1, <1>3, <3>1
    <2>2. CASE k \notin (g + 1)..Len(s)
        <3>1. p # HeartBeat /\ k = Len(s) + 1
            BY <1>0, <1>5, <2>2
        <3> QED BY <1>1, <1>4, <1>5, <3>1
    <2> QED BY <2>1, <2>2
<1> QED BY <1>2, <1>8, <1>9 DEF Cut, Full

\* Moving positions by w keeps their order.
LEMMA ShiftedBounds ==
    ASSUME NEW i \in Int, NEW j \in Int, NEW v \in Int, NEW w \in Int, NEW q \in Int
    PROVE  /\ i < j => i + w < j + w
           /\ j < i + v => j + w < (i + w) + v
           /\ (i + w) + v <= q + 1 => i + v <= (q - w) + 1
OBVIOUS

\* R is Q without its first w cells.
Shifted(Q, w, R) == Len(R) = Len(Q) - w /\ \A i \in 1..Len(R) : R[i] = Q[i + w]

\* The first PDU is taken out: it is the next one that was sent, or a heartbeat.
FirstOut(off, g, s, Q, p, w, h, R) ==
    /\ Cut(off, Q, g, s) /\ p = Q[1].pdu /\ w = p.len /\ w \in 1..Len(Q) /\ Shifted(Q, w, R)
    /\ h = IF p = HeartBeat THEN g ELSE g + 1

LEMMA TakenOut ==
    ASSUME NEW off \in Nat, NEW g \in Nat, NEW s \in Seq(Pdus),
           NEW Q \in Seq(Cells), NEW R \in Seq(Cells), NEW p, NEW w, NEW h,
           FirstOut(off, g, s, Q, p, w, h, R)
    PROVE  /\ p # HeartBeat => g + 1 \in 1..Len(s) /\ s[g + 1] = p
           /\ Cut(off, R, h, s)
           /\ Full(off, Q, g, s) => Full(off, R, h, s)
<1>a. /\ Cut(off, Q, g, s) /\ p = Q[1].pdu /\ w = p.len /\ w \in 1..Len(Q) /\ Shifted(Q, w, R)
      /\ h = IF p = HeartBeat THEN g ELSE g + 1
    BY DEF FirstOut
<1> USE <1>a
<1>0. /\ Len(Q) \in Nat /\ Len(R) \in Nat /\ Len(s) \in Nat /\ w \in Nat \ {0} /\ Width(p) = w
      /\ 1 \in 1..Len(Q) /\ h \in Nat /\ Len(Q) > 0
    BY LenProperties DEF Width
<1>1. Q[1].header /\ \A j \in 1..Len(Q) : 1 < j /\ j < 1 + w => ~Q[j].header
    BY <1>0 DEF Cut, Framed
<1>2. w < Len(Q) => Q[1 + w].header
    <2>1. 1 + w <= Len(Q) => Q[1 + w].header
        BY <1>0, <1>1 DEF Cut, Framed
    <2> QED BY <1>0, <2>1
<1>3. /\ \A i \in 1..Len(R) : /\ i + w \in 1..Len(Q) /\ R[i] = Q[i + w]
                              /\ Width(R[i].pdu) \in Nat \ {0}
      /\ \A j \in 1..Len(Q) : j > w => j - w \in 1..Len(R) /\ R[j - w] = Q[j]
      /\ Len(R) = Len(Q) - w
    <2>3. Len(R) = Len(Q) - w
        BY DEF Shifted
    <2>1. \A i \in 1..Len(R) : i + w \in 1..Len(Q) /\ R[i] = Q[i + w]
        <3>1. \A i \in 1..Len(R) : R[i] = Q[i + w]
            BY DEF Shifted
        <3>2. Len(Q) \in Nat /\ Len(R) = Len(Q) - w /\ w \in Nat \ {0} /\ Len(R) \in Nat
            BY <1>0, <2>3
        <3>3. \A i \in 1..Len(R) : i + w \in 1..Len(Q)
            BY ONLY <3>2
        <3> QED BY <3>1, <3>3
    <2>2. \A i \in 1..Len(R) : R[i] \in Cells
        BY ElementOfSeq
    <2>4. \A j \in 1..Len(Q) : j > w => j - w \in 1..Len(R) /\ (j - w) + w = j
        BY <1>0, <2>3
    <2> QED BY <2>1, <2>2, <2>3, <2>4, PduTypes
<1>4. Framed(R)
    <2>1. Len(R) > 0 => R[1].header
        <3> SUFFICES ASSUME Len(R) > 0 PROVE R[1].header
            OBVIOUS
        <3>1. 1 \in 1..Len(R) /\ w < Len(Q)
            BY <1>0, <1>3
        <3> QED BY <1>2, <1>3, <3>1
    <2> SUFFICES ASSUME NEW i \in 1..Len(R), R[i].header
                 PROVE  /\ \A j \in 1..Len(R) : i < j /\ j < i + Width(R[i].pdu)
                                                    => ~R[j].header /\ R[j].pdu = R[i].pdu
                        /\ i + Width(R[i].pdu) <= Len(R) => R[i + Width(R[i].pdu)].header
        BY <2>1 DEF Framed
    <2>2. PICK v : v = Width(R[i].pdu) /\ v \in Nat \ {0}
        BY <1>3
    <2>3. PICK i2 : i2 = i + w /\ i2 \in 1..Len(Q) /\ R[i] = Q[i2]
        BY <1>3
    <2>4. /\ \A j \in 1..Len(Q) : i2 < j /\ j < i2 + v => ~Q[j].header /\ Q[j].pdu = Q[i2].pdu
          /\ i2 + v <= Len(Q) => Q[i2 + v].header
        BY <2>2, <2>3 DEF Cut, Framed
    <2>5. ASSUME NEW j \in 1..Len(R), i < j, j < i + v PROVE ~R[j].header /\ R[j].pdu = R[i].pdu
        <3>1. j + w \in 1..Len(Q) /\ R[j] = Q[j + w]
            BY <1>3
        <3>2. i2 < j + w /\ j + w < i2 + v
            <4>1. i \in Int /\ j \in Int /\ v \in Int /\ w \in Int
                BY <2>2
            <4> QED BY ONLY <2>3, <2>5, <4>1, ShiftedBounds
        <3> QED BY <2>3, <2>4, <3>1, <3>2
    <2>6. ASSUME i + v <= Len(R) PROVE R[i + v].header
        <3>a. i + v \in 1..Len(R)
            BY <1>0, <2>2, <2>6
        <3>b. (i + v) + w = i2 + v
            <4>1. i \in Int /\ v \in Int /\ w \in Int /\ i2 = i + w
                BY <2>2, <2>3
            <4> QED BY ONLY <4>1
        <3>c. (i + v) + w \in 1..Len(Q)
            BY <1>3, <3>a
        <3>d. i2 + v <= Len(Q)
            BY <1>0, <3>b, <3>c
        <3>1. i + v \in 1..Len(R) /\ i2 + v <= Len(Q) /\ (i + v) + w = i2 + v
            BY <3>a, <3>b, <3>d
        <3>2. R[i + v] = Q[(i + v) + w]
            BY <1>3, <3>1
        <3> QED BY <2>4, <3>1, <3>2
    <2> QED BY <2>2, <2>5, <2>6
<1>5. \A i \in 1..Len(R) : Starts(R, i) <=> Starts(Q, i + w)
    BY <1>3 DEF Starts
<1>6. \A j \in 1..Len(Q) : Starts(Q, j) => j > w \/ (j = 1 /\ p # HeartBeat)
    <2> SUFFICES ASSUME NEW j \in 1..Len(Q), Starts(Q, j), ~(j > w) PROVE j = 1 /\ p # HeartBeat
        OBVIOUS
    <2>1. j = 1 \/ (1 < j /\ j < 1 + w)
        BY <1>0
    <2>2. j = 1
        BY <1>1, <2>1 DEF Starts
    <2> QED BY <2>2 DEF Starts
<1>7. \A i \in 1..Len(Q) : Starts(Q, i) =>
          LET n == Number(off, Q[i].pdu) IN
          /\ n \in 1..Len(s) /\ s[n] = Q[i].pdu
          /\ n > g
          /\ \A j \in 1..Len(Q) : i < j /\ Starts(Q, j) => n < Number(off, Q[j].pdu)
          /\ \A k \in (g + 1)..(n - 1) : \E j \in 1..Len(Q) :
                 j < i /\ Starts(Q, j) /\ Number(off, Q[j].pdu) = k
    BY DEF Cut, Ordered
<1>8. p # HeartBeat => /\ Starts(Q, 1) /\ Number(off, p) = g + 1
                       /\ g + 1 \in 1..Len(s) /\ s[g + 1] = p
    <2> SUFFICES ASSUME p # HeartBeat
                 PROVE  /\ Starts(Q, 1) /\ Number(off, p) = g + 1
                        /\ g + 1 \in 1..Len(s) /\ s[g + 1] = p
        OBVIOUS
    <2>1. Starts(Q, 1)
        BY <1>1 DEF Starts
    <2>2. PICK n : n = Number(off, p)
        OBVIOUS
    <2>3. /\ n \in 1..Len(s) /\ s[n] = p /\ n > g
          /\ \A k \in (g + 1)..(n - 1) : \E j \in 1..Len(Q) : j < 1
        BY <1>0, <1>7, <2>1, <2>2
    <2>4. g + 1 \notin (g + 1)..(n - 1)
        BY <1>0, <2>3
    <2>5. n = g + 1
        <3>1. g \in Nat /\ n \in Nat /\ n > g
            BY <1>0, <2>3
        <3>2. n - 1 < g + 1
            BY <2>4, <3>1
        <3> QED BY <3>1, <3>2
    <2> QED BY <2>1, <2>2, <2>3, <2>5
\* A PDU that starts behind the first one has a greater number.
<1>9. \A j \in 1..Len(Q) : Starts(Q, j) /\ j > w => Number(off, Q[j].pdu) > h
    <2> SUFFICES ASSUME NEW j \in 1..Len(Q), Starts(Q, j), j > w PROVE Number(off, Q[j].pdu) > h
        OBVIOUS
    <2>1. CASE p = HeartBeat
        BY <1>7, <2>1
    <2>2. CASE p # HeartBeat
        <3>1. 1 < j
            BY <1>0
        <3>2. Number(off, Q[1].pdu) < Number(off, Q[j].pdu)
            BY <1>0, <1>7, <1>8, <2>2, <3>1
        <3> QED BY <1>8, <2>2, <3>2
    <2> QED BY <2>1, <2>2
\* A PDU with a number past h starts behind the first one.
<1>10. \A j \in 1..Len(Q) : Starts(Q, j) /\ Number(off, Q[j].pdu) > h
                               => j - w \in 1..Len(R) /\ R[j - w] = Q[j] /\ Starts(R, j - w)
    <2> SUFFICES ASSUME NEW j \in 1..Len(Q), Starts(Q, j), Number(off, Q[j].pdu) > h
                 PROVE  j - w \in 1..Len(R) /\ R[j - w] = Q[j] /\ Starts(R, j - w)
        OBVIOUS
    <2>1. j > w
        <3> SUFFICES ASSUME j = 1, p # HeartBeat PROVE FALSE
            BY <1>6
        <3>1. Number(off, Q[j].pdu) = h
            BY <1>8
        <3> QED BY <1>0, <3>1
    <2> QED BY <1>3, <2>1 DEF Starts
<1>11. Ordered(off, R, h, s)
    <2> SUFFICES ASSUME NEW i \in 1..Len(R), Starts(R, i), NEW n, n = Number(off, R[i].pdu)
                 PROVE  /\ n \in 1..Len(s) /\ s[n] = R[i].pdu
                        /\ n > h
                        /\ \A j \in 1..Len(R) : i < j /\ Starts(R, j) => n < Number(off, R[j].pdu)
                        /\ \A k \in (h + 1)..(n - 1) : \E j \in 1..Len(R) :
                               j < i /\ Starts(R, j) /\ Number(off, R[j].pdu) = k
        BY DEF Ordered
    <2>1. PICK i2 : i2 = i + w /\ i2 \in 1..Len(Q) /\ i2 > w /\ R[i] = Q[i2] /\ Starts(Q, i2)
        <3>1. i + w \in 1..Len(Q) /\ R[i] = Q[i + w] /\ Starts(Q, i + w)
            BY <1>3, <1>5
        <3>2. i + w > w
            BY <1>0
        <3> QED BY <3>1, <3>2
    <2>2. /\ n \in 1..Len(s) /\ s[n] = R[i].pdu
          /\ \A j \in 1..Len(Q) : i2 < j /\ Starts(Q, j) => n < Number(off, Q[j].pdu)
          /\ \A k \in (g + 1)..(n - 1) : \E j \in 1..Len(Q) :
                 j < i2 /\ Starts(Q, j) /\ Number(off, Q[j].pdu) = k
        BY <1>7, <2>1
    <2>3. n > h
        BY <1>9, <2>1
    <2>4. ASSUME NEW j \in 1..Len(R), i < j, Starts(R, j) PROVE n < Number(off, R[j].pdu)
        <3>1. j + w \in 1..Len(Q) /\ R[j] = Q[j + w] /\ Starts(Q, j + w)
            BY <1>3, <1>5, <2>4
        <3>2. i2 < j + w
            BY <1>0, <2>1, <2>4
        <3> QED BY <2>2, <3>1, <3>2
    <2>5. ASSUME NEW k \in (h + 1)..(n - 1)
          PROVE  \E j \in 1..Len(R) : j < i /\ Starts(R, j) /\ Number(off, R[j].pdu) = k
        <3>1. k \in (g + 1)..(n - 1) /\ k > h
            BY <1>0, <2>2
        <3>2. PICK j \in 1..Len(Q) : j < i2 /\ Starts(Q, j) /\ Number(off, Q[j].pdu) = k
            BY <2>2, <3>1
        <3>3. j - w \in 1..Len(R) /\ R[j - w] = Q[j] /\ Starts(R, j - w)
            BY <1>10, <3>1, <3>2
        <3>4. j - w < i
            BY <1>0, <2>1, <3>2
        <3> QED BY <3>2, <3>3, <3>4
    <2> QED BY <2>2, <2>3, <2>4, <2>5
<1>12. ASSUME Full(off, Q, g, s) PROVE Full(off, R, h, s)
    <2>1. Whole(R)
        <3> SUFFICES ASSUME NEW i \in 1..Len(R), R[i].header
                     PROVE  i + Width(R[i].pdu) <= Len(R) + 1
            BY DEF Whole
        <3>1. PICK v : v = Width(R[i].pdu) /\ v \in Nat \ {0}
            BY <1>3
        <3>2. i + w \in 1..Len(Q) /\ R[i] = Q[i + w]
            BY <1>3
        <3>3. (i + w) + v <= Len(Q) + 1
            BY <1>12, <3>1, <3>2 DEF Full, Whole
        <3>4. i \in Int /\ w \in Int /\ v \in Int /\ Len(Q) \in Int /\ Len(R) = Len(Q) - w
            BY <1>0, <1>3, <3>1
        <3>5. i + v <= Len(R) + 1
            BY ONLY <3>3, <3>4, ShiftedBounds
        <3> QED BY <3>1, <3>5
    <2>2. AllThere(off, R, h, s)
        <3> SUFFICES ASSUME NEW k \in (h + 1)..Len(s)
                     PROVE  \E j \in 1..Len(R) : Starts(R, j) /\ Number(off, R[j].pdu) = k
            BY DEF AllThere
        <3>1. k \in (g + 1)..Len(s) /\ k > h
            BY <1>0
        <3>2. PICK j \in 1..Len(Q) : Starts(Q, j) /\ Number(off, Q[j].pdu) = k
            BY <1>12, <3>1 DEF Full, AllThere
        <3>3. j - w \in 1..Len(R) /\ R[j - w] = Q[j] /\ Starts(R, j - w)
            BY <1>10, <3>1, <3>2
        <3> QED BY <3>2, <3>3
    <2> QED BY <2>1, <2>2 DEF Full
<1> QED BY <1>4, <1>8, <1>11, <1>12 DEF Cut

\* PDUs that are sent and do not get into the stream.
LEMMA SentAside ==
    ASSUME NEW off \in Nat, NEW g \in Nat, NEW s \in Seq(Pdus), NEW p \in Pdus,
           NEW Q \in Seq(Cells), Cut(off, Q, g, s)
    PROVE  Cut(off, Q, g, Append(s, p))
<1>1. /\ Len(s) \in Nat /\ Len(Append(s, p)) = Len(s) + 1
      /\ \A n \in 1..Len(s) : n \in 1..Len(Append(s, p)) /\ Append(s, p)[n] = s[n]
    BY AppendProperties, LenProperties
<1> DEFINE t == Append(s, p)
<1>2. \A n \in 1..Len(s) : n \in 1..Len(t) /\ t[n] = s[n]
    BY <1>1
<1> HIDE DEF t
<1>3. Ordered(off, Q, g, t)
    BY <1>2 DEF Cut, Ordered
<1> QED BY <1>3 DEF Cut, t

-----------------------------------------------------------------------------
\* Streams as concatenations.

\* Concatenation, position by position.
LEMMA CatProperties ==
    ASSUME NEW x \in Seq(Cells), NEW y \in Seq(Cells)
    PROVE  /\ Cat(x, y) \in Seq(Cells) /\ Len(Cat(x, y)) = Len(x) + Len(y)
           /\ \A i \in 1..(Len(x) + Len(y)) : Cat(x, y)[i] = IF i <= Len(x) THEN x[i] ELSE y[i - Len(x)]
           /\ Cat(x, <<>>) = x /\ Cat(<<>>, x) = x
BY ConcatProperties, ConcatEmptySeq DEF Cat

\* Concatenation is a monoid on the sequences of cells.
LEMMA CatAlgebra ==
    /\ <<>> \in Seq(Cells)
    /\ \A x, y \in Seq(Cells) : Cat(x, y) \in Seq(Cells)
    /\ \A x \in Seq(Cells) : Cat(x, <<>>) = x /\ Cat(<<>>, x) = x
    /\ \A x, y, z \in Seq(Cells) : Cat(Cat(x, y), z) = Cat(x, Cat(y, z))
<1>1. <<>> \in Seq(Cells)
    BY EmptySeq
<1>2. \A x, y \in Seq(Cells) : Cat(x, y) \in Seq(Cells)
    BY CatProperties
<1>3. \A x \in Seq(Cells) : Cat(x, <<>>) = x /\ Cat(<<>>, x) = x
    BY <1>1, CatProperties
<1>4. ASSUME NEW x \in Seq(Cells), NEW y \in Seq(Cells), NEW z \in Seq(Cells)
      PROVE  Cat(Cat(x, y), z) = Cat(x, Cat(y, z))
    BY ConcatAssociative DEF Cat
<1> QED BY <1>1, <1>2, <1>3, <1>4

\* CutOff, for a stream that falls into two parts.
LEMMA CutOffCat ==
    ASSUME NEW off \in Nat, NEW g \in Nat, NEW s \in Seq(Pdus),
           NEW R \in Seq(Cells), NEW T \in Seq(Cells), Cut(off, Cat(R, T), g, s)
    PROVE  Cut(off, R, g, s)
<1>1. /\ Cat(R, T) \in Seq(Cells) /\ Len(Cat(R, T)) = Len(R) + Len(T)
      /\ \A i \in 1..(Len(R) + Len(T)) : Cat(R, T)[i] = IF i <= Len(R) THEN R[i] ELSE T[i - Len(R)]
    BY CatProperties
<1>2. Len(R) \in Nat /\ Len(T) \in Nat
    BY LenProperties
<1>3. PICK Q \in Seq(Cells) : Q = Cat(R, T)
    BY <1>1
<1>4. Len(R) <= Len(Q) /\ \A i \in 1..Len(R) : R[i] = Q[i]
    BY <1>1, <1>2, <1>3
<1>5. Cut(off, Q, g, s)
    BY <1>3
<1> QED BY ONLY <1>3, <1>4, <1>5, CutOff, off \in Nat, g \in Nat, s \in Seq(Pdus), R \in Seq(Cells)

\* The cells of a PDU: its header comes first.
LEMMA CellsOfTypes ==
    ASSUME NEW p \in AllPdus
    PROVE  /\ CellsOf(p) \in Seq(Cells) /\ Len(CellsOf(p)) = Width(p)
           /\ \A i \in 1..Width(p) : CellsOf(p)[i].pdu = p /\ (CellsOf(p)[i].header <=> i = 1)
<1>1. Width(p) \in Nat \ {0}
    BY PduTypes
<1>2. CellsOf(p) = [i \in 1..Width(p) |-> [pdu |-> p, header |-> i = 1]]
    BY DEF CellsOf, Width
<1>3. \A i \in 1..Width(p) : [pdu |-> p, header |-> i = 1] \in Cells
    BY DEF Cells, AllPdus
<1>4. [i \in 1..Width(p) |-> [pdu |-> p, header |-> i = 1]] \in [1..Width(p) -> Cells]
    BY <1>3
<1> HIDE DEF Cells, Width
<1>5. CellsOf(p) \in Seq(Cells) /\ Len(CellsOf(p)) = Width(p)
    BY <1>1, <1>2, <1>4
<1>6. \A i \in 1..Width(p) : CellsOf(p)[i] = [pdu |-> p, header |-> i = 1]
    BY <1>2
<1>7. ASSUME NEW i \in 1..Width(p) PROVE CellsOf(p)[i].pdu = p /\ (CellsOf(p)[i].header <=> i = 1)
    <2>0. PICK b : b = (i = 1)
        OBVIOUS
    <2>3. CellsOf(p)[i] = [pdu |-> p, header |-> b]
        BY <1>6, <2>0
    <2>1. CellsOf(p)[i].pdu = p
        BY <2>3
    <2>2. CellsOf(p)[i].header = (i = 1)
        BY <2>0, <2>3
    <2> QED BY <2>1, <2>2
<1> QED BY <1>5, <1>7

\* SentBehind for the cells of a PDU.
LEMMA SentCat ==
    ASSUME NEW off \in Nat, NEW g \in Nat, NEW s \in Seq(Pdus), NEW t \in Seq(Pdus),
           NEW Q \in Seq(Cells), Cut(off, Q, g, s), Full(off, Q, g, s),
           NEW p \in AllPdus, g <= Len(s),
           \/ p = HeartBeat /\ t = s
           \/ p # HeartBeat /\ t = Append(s, p) /\ Number(off, p) = Len(s) + 1
    PROVE  Cut(off, Cat(Q, CellsOf(p)), g, t) /\ Full(off, Cat(Q, CellsOf(p)), g, t)
<1>1. PICK c \in Seq(Cells) : c = CellsOf(p)
    BY CellsOfTypes
<1>2. PICK w : w = Width(p) /\ w \in Nat \ {0}
    BY PduTypes
<1>3. Len(c) = w /\ \A i \in 1..w : c[i].pdu = p /\ (c[i].header <=> i = 1)
    BY <1>1, <1>2, CellsOfTypes
<1>4. /\ Cat(Q, c) \in Seq(Cells) /\ Len(Cat(Q, c)) = Len(Q) + Len(c)
      /\ \A i \in 1..(Len(Q) + Len(c)) : Cat(Q, c)[i] = IF i <= Len(Q) THEN Q[i] ELSE c[i - Len(Q)]
    BY CatProperties
<1>5. PICK R \in Seq(Cells) : R = Cat(Q, c)
    BY <1>4
<1>6. Len(Q) \in Nat /\ Len(R) = Len(Q) + w
    BY <1>3, <1>4, <1>5, LenProperties
<1>7. \A i \in 1..Len(Q) : R[i] = Q[i]
    <2> SUFFICES ASSUME NEW i \in 1..Len(Q) PROVE R[i] = Q[i]
        OBVIOUS
    <2>1. i \in 1..(Len(Q) + Len(c)) /\ i <= Len(Q)
        BY <1>2, <1>3, <1>6
    <2> QED BY <1>4, <1>5, <2>1
<1>8. \A i \in 1..Len(R) : i > Len(Q) => R[i].pdu = p /\ (R[i].header <=> i = Len(Q) + 1)
    <2> SUFFICES ASSUME NEW i \in 1..Len(R), i > Len(Q)
                 PROVE  R[i].pdu = p /\ (R[i].header <=> i = Len(Q) + 1)
        OBVIOUS
    <2>1. PICK k : k = i - Len(Q)
        OBVIOUS
    <2>2. k \in 1..w /\ (k = 1 <=> i = Len(Q) + 1) /\ ~(i <= Len(Q))
        BY <1>2, <1>6, <2>1
    <2>3. R[i] = c[k]
        BY <1>3, <1>4, <1>5, <1>6, <2>1, <2>2
    <2> QED BY <1>3, <2>2, <2>3
<1>9. Len(R) = Len(Q) + Width(p)
    BY <1>2, <1>6
<1>10. Cut(off, R, g, t) /\ Full(off, R, g, t)
    BY <1>7, <1>8, <1>9, SentBehind
<1> QED BY <1>1, <1>5, <1>10

\* A sequence is its first n cells and the rest.
LEMMA SplitSeq ==
    ASSUME NEW d \in Seq(Cells), NEW n \in 0..Len(d)
    PROVE  /\ SubSeq(d, 1, n) \in Seq(Cells) /\ SubSeq(d, n + 1, Len(d)) \in Seq(Cells)
           /\ Len(SubSeq(d, 1, n)) = n
           /\ SubSeq(d, 1, n) \o SubSeq(d, n + 1, Len(d)) = d
           /\ n = 0 => SubSeq(d, 1, n) = <<>> /\ SubSeq(d, n + 1, Len(d)) = d
<1>1. Len(d) \in Nat /\ n \in Nat /\ \A i \in 1..Len(d) : d[i] \in Cells
    BY LenProperties, ElementOfSeq
<1>2. SubSeq(d, 1, n) \in Seq(Cells) /\ Len(SubSeq(d, 1, n)) = n
    <2>1. \A i \in 1..n : d[i] \in Cells
        BY <1>1
    <2> QED BY <1>1, <2>1, SubSeqProperties
<1>3. SubSeq(d, n + 1, Len(d)) \in Seq(Cells)
    <2>1. \A i \in (n + 1)..Len(d) : d[i] \in Cells
        BY <1>1
    <2> QED BY <1>1, <2>1, SubSeqProperties
<1>4. SubSeq(d, 1, n) \o SubSeq(d, n + 1, Len(d)) = SubSeq(d, 1, Len(d))
    <2>1. 1 \in 1..(Len(d) + 1) /\ n \in (1 - 1)..Len(d) /\ Len(d) \in n..Len(d)
        BY <1>1
    <2> QED BY <2>1, ConcatAdjacentSubSeq
<1>5. SubSeq(d, 1, Len(d)) = d
    BY SubSeqFull
<1>6. n = 0 => SubSeq(d, 1, n) = <<>> /\ SubSeq(d, n + 1, Len(d)) = d
    BY <1>1, <1>5, SubSeqEmpty
<1> QED BY <1>2, <1>3, <1>4, <1>5, <1>6

\* Arrive: the first cell of c goes behind b.
LEMMA ArriveSame ==
    ASSUME NEW a \in Seq(Cells), NEW b \in Seq(Cells), NEW c \in Seq(Cells), NEW d \in Seq(Cells),
           c # <<>>
    PROVE  /\ Head(c) \in Cells /\ Tail(c) \in Seq(Cells) /\ Append(b, Head(c)) \in Seq(Cells)
           /\ Len(Tail(c)) = Len(c) - 1
           /\ Cat(Cat(a, Append(b, Head(c))), Cat(Tail(c), d)) = Cat(Cat(a, b), Cat(c, d))
<1>1. /\ Head(c) \in Cells /\ Tail(c) \in Seq(Cells) /\ Len(Tail(c)) = Len(c) - 1
    BY HeadTailProperties
<1>2. PICK t \in Seq(Cells) : t = Tail(c)
    BY <1>1
<1>3. PICK x \in Seq(Cells) : x = <<Head(c)>>
    <2>1. PICK h \in Cells : h = Head(c)
        BY <1>1
    <2>2. <<h>> \in Seq(Cells)
        OBVIOUS
    <2> QED BY <2>1, <2>2
<1>4. Append(b, Head(c)) = Cat(b, x)
    BY <1>1, <1>3, AppendIsConcat DEF Cat
<1>5. Cat(x, t) = c
    <2>1. 1 \in 1..Len(c) /\ Len(c) \in 1..Len(c)
        BY EmptySeq, LenProperties
    <2>2. SubSeq(c, 1, Len(c)) = <<c[1]>> \o SubSeq(c, 1 + 1, Len(c))
        BY <2>1, SubSeqRecursiveFirst
    <2>3. Tail(c) = SubSeq(c, 2, Len(c)) /\ SubSeq(c, 1, Len(c)) = c
        BY TailIsSubSeq, SubSeqFull
    <2>4. Head(c) = c[1] /\ 1 + 1 = 2
        OBVIOUS
    <2> QED BY <1>2, <1>3, <2>2, <2>3, <2>4 DEF Cat
<1>6. Cat(Cat(a, Cat(b, x)), Cat(t, d)) = Cat(Cat(a, b), Cat(Cat(x, t), d))
    BY CatAlgebra
<1>7. Cat(b, x) \in Seq(Cells)
    BY CatAlgebra
<1>8. Cat(Cat(a, Append(b, Head(c))), Cat(Tail(c), d)) = Cat(Cat(a, b), Cat(c, d))
    BY <1>2, <1>4, <1>5, <1>6
<1> QED BY <1>1, <1>4, <1>7, <1>8

\* OnWrite: n cells of d go behind c.
LEMMA WriteSame ==
    ASSUME NEW c \in Seq(Cells), NEW d \in Seq(Cells), NEW n \in 0..Len(d)
    PROVE  Cat(Cat(c, SubSeq(d, 1, n)), SubSeq(d, n + 1, Len(d))) = Cat(c, d)
<1>1. PICK x \in Seq(Cells) : x = SubSeq(d, 1, n)
    BY SplitSeq
<1>2. PICK y \in Seq(Cells) : y = SubSeq(d, n + 1, Len(d))
    BY SplitSeq
<1>3. Cat(x, y) = d
    BY <1>1, <1>2, SplitSeq DEF Cat
<1>4. Cat(Cat(c, x), y) = Cat(c, Cat(x, y))
    BY CatAlgebra
<1> QED BY <1>1, <1>2, <1>3, <1>4

\* Send: f goes behind c and d, n cells of it at once.
LEMMA SendBehind ==
    ASSUME NEW a \in Seq(Cells), NEW c \in Seq(Cells), NEW d \in Seq(Cells), NEW f \in Seq(Cells),
           NEW n \in 0..Len(f), n = 0 \/ d = <<>>
    PROVE  Cat(a, Cat(Cat(c, SubSeq(f, 1, n)), Cat(d, SubSeq(f, n + 1, Len(f)))))
               = Cat(Cat(a, Cat(c, d)), f)
<1>1. PICK x \in Seq(Cells) : x = SubSeq(f, 1, n)
    BY SplitSeq
<1>2. PICK y \in Seq(Cells) : y = SubSeq(f, n + 1, Len(f))
    BY SplitSeq
<1>3. Cat(x, y) = f /\ (n = 0 => x = <<>> /\ y = f)
    BY <1>1, <1>2, SplitSeq DEF Cat
<1>4. Cat(Cat(c, x), Cat(d, y)) = Cat(Cat(c, d), f)
    <2>1. CASE n = 0
        BY <1>3, <2>1, CatAlgebra
    <2>2. CASE d = <<>>
        BY <1>3, <2>2, CatAlgebra
    <2> QED BY <2>1, <2>2
<1>5. Cat(a, Cat(Cat(c, d), f)) = Cat(Cat(a, Cat(c, d)), f)
    BY CatAlgebra
<1> QED BY <1>1, <1>2, <1>4, <1>5

\* HandlePdu: w cells of a are taken out.
LEMMA HandleShifts ==
    ASSUME NEW a \in Seq(Cells), NEW b \in Seq(Cells), NEW y \in Seq(Cells), NEW w \in 1..Len(a)
    PROVE  /\ SubSeq(a, w + 1, Len(a)) \in Seq(Cells)
           /\ Shifted(Cat(Cat(a, b), y), w, Cat(Cat(SubSeq(a, w + 1, Len(a)), b), y))
           /\ Cat(Cat(a, b), y)[1] = a[1]
           /\ Len(Cat(Cat(a, b), y)) >= Len(a)
<1>1. Len(a) \in Nat /\ Len(b) \in Nat /\ Len(y) \in Nat /\ w \in 0..Len(a)
    BY LenProperties
<1>2. PICK u \in Seq(Cells) : u = SubSeq(a, 1, w)
    BY <1>1, SplitSeq
<1>3. PICK v \in Seq(Cells) : v = SubSeq(a, w + 1, Len(a))
    BY <1>1, SplitSeq
<1>4. Cat(u, v) = a /\ Len(u) = w
    BY <1>1, <1>2, <1>3, SplitSeq DEF Cat
<1>5. PICK R \in Seq(Cells) : R = Cat(Cat(v, b), y)
    BY CatAlgebra
<1>6. PICK Q \in Seq(Cells) : Q = Cat(u, R)
    BY CatAlgebra
<1>7. Cat(Cat(a, b), y) = Q
    BY <1>4, <1>5, <1>6, CatAlgebra
<1>8. /\ Len(Q) = w + Len(R) /\ Len(R) \in Nat
      /\ \A i \in 1..(Len(u) + Len(R)) : Q[i] = IF i <= Len(u) THEN u[i] ELSE R[i - Len(u)]
    BY <1>4, <1>6, CatProperties, LenProperties
<1>9. Shifted(Q, w, R)
    <2>1. Len(R) = Len(Q) - w
        BY <1>1, <1>8
    <2>2. \A i \in 1..Len(R) : R[i] = Q[i + w]
        <3> SUFFICES ASSUME NEW i \in 1..Len(R) PROVE R[i] = Q[i + w]
            OBVIOUS
        <3>1. i + w \in 1..(Len(u) + Len(R)) /\ ~(i + w <= Len(u)) /\ (i + w) - Len(u) = i
            BY <1>1, <1>4, <1>8
        <3> QED BY <1>8, <3>1
    <2> QED BY <2>1, <2>2 DEF Shifted
<1>10. PICK z \in Seq(Cells) : z = Cat(b, y)
    BY CatAlgebra
<1>11. Q = Cat(a, z)
    BY <1>7, <1>10, CatAlgebra
<1>12. Len(z) \in Nat /\ Len(Q) = Len(a) + Len(z)
    BY <1>11, CatProperties, LenProperties
<1>13. Len(Q) >= Len(a)
    BY <1>1, <1>12
<1>14. Q[1] = a[1]
    <2>1. 1 \in 1..(Len(a) + Len(z)) /\ 1 <= Len(a)
        BY <1>1, <1>12
    <2> QED BY <1>11, <2>1, CatProperties
<1> QED BY <1>3, <1>5, <1>7, <1>9, <1>13, <1>14
-----------------------------------------------------------------------------
\* The types of the state, and what leaves a stream as it is.

ConnTypes ==
    /\ state \in [Ends -> States] /\ busy \in [Ends -> BOOLEAN]
    /\ outBuf \in [Ends -> Seq(Cells)] /\ inBuf \in [Ends -> Seq(Cells)]

Places == {"loop", "read", "handle", "write", "hup"}
LoopTypes == pc \in [Ends -> Places] /\ ev \in [Ends -> Events]

BufferTypes ==
    /\ snd \in [Ends -> Seq(Cells)] /\ rcv \in [Ends -> Seq(Cells)]
    /\ \A e \in Ends : Len(snd[e]) <= SndCap

FlagTypes ==
    /\ up \in BOOLEAN
    /\ nospace \in [Ends -> BOOLEAN] /\ edge \in [Ends -> BOOLEAN]
    /\ eof \in [Ends -> BOOLEAN] /\ reset \in [Ends -> BOOLEAN]

GhostTypes == sent \in [Ends -> Seq(Pdus)] /\ got \in [Ends -> Seq(Pdus)]

Types == ConnTypes /\ LoopTypes /\ BufferTypes /\ FlagTypes /\ GhostTypes

\* The type invariant, part by part.
LEMMA TypeParts == Types /\ BusyInv <=> ImConnTypeOK /\ BusyInv
BY DEF Types, ConnTypes, LoopTypes, BufferTypes, FlagTypes, GhostTypes, ImConnTypeOK, BusyInv, Places

\* The inductive invariant, part by part, now and after a step.
LEMMA InvParts == ConnInv <=> Types /\ BusyInv /\ SentInv /\ StreamInv
BY TypeParts DEF ConnInv

LEMMA InvPartsNext == Types' /\ BusyInv' /\ SentInv' /\ StreamInv' => ConnInv'
BY InvParts, PTL

\* Each end has the other one for a peer.
LEMMA TwoEnds ==
    ASSUME NEW e \in Ends
    PROVE  /\ Peer[e] \in Ends /\ Peer[e] # e /\ Peer[Peer[e]] = e
           /\ \A x \in Ends : x = e \/ x = Peer[e]
           /\ Off(e) \in Nat /\ MaxPdus[e] \in Nat
BY ImConnAssumption DEF Ends, Peer, Off

\* The buffers of an end.
LEMMA BufferOf ==
    ASSUME ConnTypes, BufferTypes, NEW e \in Ends
    PROVE  /\ inBuf[e] \in Seq(Cells) /\ outBuf[e] \in Seq(Cells)
           /\ snd[e] \in Seq(Cells) /\ rcv[e] \in Seq(Cells)
           /\ Len(snd[e]) \in Nat /\ Len(snd[e]) <= SndCap
BY LenProperties DEF ConnTypes, BufferTypes

\* The PDUs an end sent and handled.
LEMMA GhostOf ==
    ASSUME GhostTypes, NEW e \in Ends
    PROVE  /\ sent[e] \in Seq(Pdus) /\ got[e] \in Seq(Pdus)
           /\ Len(sent[e]) \in Nat /\ Len(got[e]) \in Nat
BY LenProperties DEF GhostTypes

\* A stream is a sequence of cells.
LEMMA StreamType ==
    ASSUME ConnTypes, BufferTypes, NEW e \in Ends
    PROVE  /\ Stream(e) \in Seq(Cells)
           /\ Cat(inBuf[Peer[e]], rcv[Peer[e]]) \in Seq(Cells)
           /\ Cat(snd[e], outBuf[e]) \in Seq(Cells)
<1>1. inBuf[Peer[e]] \in Seq(Cells) /\ rcv[Peer[e]] \in Seq(Cells)
    BY TwoEnds, BufferOf
<1>2. snd[e] \in Seq(Cells) /\ outBuf[e] \in Seq(Cells)
    BY BufferOf
<1> QED BY <1>1, <1>2, CatAlgebra DEF Stream

\* No stream changes, nothing is sent or handled, and what is closed stays so.
LEMMA SameStreams ==
    ASSUME StreamInv, UNCHANGED ghosts, \A e \in Ends : Stream(e)' = Stream(e),
           EitherClosed => EitherClosed'
    PROVE  StreamInv'
<1> SUFFICES ASSUME NEW e \in Ends PROVE StreamOK(e)'
    BY DEF StreamInv
<1>1. EndOK(Off(e), Stream(e), Len(got[Peer[e]]), sent[e], ~EitherClosed)
    BY DEF StreamInv, StreamOK
<1>2. Len(got[Peer[e]])' = Len(got[Peer[e]]) /\ sent[e]' = sent[e] /\ Stream(e)' = Stream(e)
    BY DEF ghosts
<1>3. EndOK(Off(e), Stream(e), Len(got[Peer[e]]), sent[e], ~EitherClosed')
    BY <1>1 DEF EndOK
<1> QED BY <1>2, <1>3 DEF StreamOK

\* The channel does not see a step that neither sends, handles nor closes.
ChanVars == <<sent, got, [e \in Ends |-> state[e] = "closed"]>>
ChanStep == [Channel!ChanNext]_ChanVars

LEMMA Unseen ==
    ASSUME UNCHANGED ghosts, \A e \in Ends : state'[e] = "closed" <=> state[e] = "closed"
    PROVE  ChanStep
<1>1. [e \in Ends |-> state'[e] = "closed"] = [e \in Ends |-> state[e] = "closed"]
    OBVIOUS
<1> QED BY <1>1 DEF ChanStep, ChanVars, ghosts

\* Goto keeps the event loop's types.
LEMMA GotoTypes ==
    ASSUME LoopTypes, NEW e \in Ends, NEW next \in Places, Goto(e, next)
    PROVE  LoopTypes'
<1>1. NoEvent \in Events
    BY DEF NoEvent, Events
<1> QED BY <1>1 DEF Goto, LoopTypes

\* What the kernel does without touching a buffer.
LEMMA FlagStep ==
    ASSUME ConnInv, Establish \/ ConnectFails \/ \E e \in Ends : FinArrives(e)
    PROVE  ConnInv' /\ ChanStep
<1>0. Types /\ BusyInv /\ SentInv /\ StreamInv
    BY InvParts
<1>1. UNCHANGED <<imConnVars, loopVars, snd, rcv, ghosts>>
    BY DEF Establish, ConnectFails, FinArrives
<1>2. FlagTypes'
    BY <1>0 DEF Types, FlagTypes, Establish, ConnectFails, FinArrives
<1>3. Types' /\ BusyInv' /\ SentInv'
    BY <1>0, <1>1, <1>2 DEF Types, ConnTypes, LoopTypes, BufferTypes, GhostTypes, BusyInv, SentInv,
        imConnVars, loopVars, ghosts
<1>4. \A e \in Ends : Stream(e)' = Stream(e)
    BY <1>1 DEF Stream, imConnVars
<1>5. UNCHANGED state /\ UNCHANGED ghosts
    BY <1>1 DEF imConnVars
<1>6. EitherClosed => EitherClosed'
    BY <1>5 DEF EitherClosed
<1>7. StreamInv'
    BY <1>0, <1>4, <1>5, <1>6, SameStreams
<1>8. ChanStep
    BY <1>5, Unseen
<1> QED BY <1>3, <1>7, <1>8, InvPartsNext
\* Arrive: the first cell of the send buffer becomes the last one received.
LEMMA ArriveStep ==
    ASSUME ConnInv, NEW e \in Ends, Arrive(e)
    PROVE  ConnInv' /\ ChanStep
<1>0. Types /\ BusyInv /\ SentInv /\ StreamInv
    BY InvParts
<1>1. PICK p \in Ends : p = Peer[e] /\ p # e /\ e = Peer[p] /\ \A x \in Ends : x = e \/ x = p
    BY TwoEnds
<1>2. /\ snd[e] # <<>> /\ state[p] # "closed"
      /\ snd' = [snd EXCEPT ![e] = Tail(snd[e])]
      /\ rcv' = [rcv EXCEPT ![p] = Append(rcv[p], Head(snd[e]))]
      /\ UNCHANGED <<state, outBuf, inBuf, busy, pc, ev, sent, got>>
    BY <1>1 DEF Arrive, imConnVars, loopVars, ghosts
<1>3. /\ inBuf[p] \in Seq(Cells) /\ rcv[p] \in Seq(Cells)
      /\ snd[e] \in Seq(Cells) /\ outBuf[e] \in Seq(Cells) /\ Len(snd[e]) \in Nat /\ Len(snd[e]) <= SndCap
    BY <1>0, BufferOf DEF Types
<1>4. /\ Tail(snd[e]) \in Seq(Cells) /\ Append(rcv[p], Head(snd[e])) \in Seq(Cells)
      /\ Len(Tail(snd[e])) = Len(snd[e]) - 1
      /\ Cat(Cat(inBuf[p], Append(rcv[p], Head(snd[e]))), Cat(Tail(snd[e]), outBuf[e]))
             = Cat(Cat(inBuf[p], rcv[p]), Cat(snd[e], outBuf[e]))
    BY <1>2, <1>3, ArriveSame
<1>5. Len(Tail(snd[e])) <= SndCap
    BY <1>3, <1>4, ImConnAssumption
<1>6. /\ snd'[e] = Tail(snd[e]) /\ snd'[p] = snd[p]
      /\ rcv'[p] = Append(rcv[p], Head(snd[e])) /\ rcv'[e] = rcv[e]
    BY <1>0, <1>1, <1>2 DEF Types, BufferTypes
<1>7. BufferTypes'
    <2>1. snd' \in [Ends -> Seq(Cells)] /\ rcv' \in [Ends -> Seq(Cells)]
        BY <1>0, <1>2, <1>4 DEF Types, BufferTypes
    <2>2. \A x \in Ends : Len(snd'[x]) <= SndCap
        BY <1>0, <1>1, <1>5, <1>6 DEF Types, BufferTypes
    <2> QED BY <2>1, <2>2 DEF BufferTypes
<1>8. FlagTypes'
    BY <1>0, <1>1 DEF Types, FlagTypes, Arrive
<1>9. Types' /\ BusyInv' /\ SentInv'
    BY <1>0, <1>2, <1>7, <1>8 DEF Types, ConnTypes, LoopTypes, GhostTypes, BusyInv, SentInv
<1>10. Stream(e)' = Stream(e)
    BY <1>1, <1>2, <1>4, <1>6 DEF Stream
<1>11. Stream(p)' = Stream(p)
    <2>1. inBuf' = inBuf /\ state' = state /\ outBuf' = outBuf
        BY <1>2
    <2>2. rcv'[Peer[p]] = rcv[Peer[p]] /\ snd'[p] = snd[p]
        <3>1. e = Peer[p]
            BY <1>1
        <3> QED BY ONLY <1>6, <3>1
    <2> QED BY ONLY <2>1, <2>2 DEF Stream
<1>12. UNCHANGED ghosts /\ UNCHANGED state
    BY <1>2 DEF ghosts
<1>13. EitherClosed => EitherClosed'
    BY <1>12 DEF EitherClosed
<1>14. \A x \in Ends : Stream(x)' = Stream(x)
    BY <1>1, <1>10, <1>11
<1>15. StreamInv'
    BY <1>0, <1>12, <1>13, <1>14, SameStreams
<1>16. ChanStep
    BY <1>12, Unseen
<1> QED BY <1>9, <1>15, <1>16, InvPartsNext

\* ArriveAtClosed: what is still on its way to a closed socket is lost.
LEMMA ArriveAtClosedStep ==
    ASSUME ConnInv, NEW e \in Ends, ArriveAtClosed(e)
    PROVE  ConnInv' /\ ChanStep
<1>0. Types /\ BusyInv /\ SentInv /\ StreamInv
    BY InvParts
<1>1. PICK p \in Ends : p = Peer[e] /\ p # e /\ e = Peer[p] /\ \A x \in Ends : x = e \/ x = p
    BY TwoEnds
<1>2. /\ state[p] = "closed"
      /\ snd' = [snd EXCEPT ![e] = <<>>]
      /\ UNCHANGED <<state, outBuf, inBuf, busy, pc, ev, rcv, sent, got>>
    BY <1>1 DEF ArriveAtClosed, imConnVars, loopVars, ghosts
<1>3. snd'[e] = <<>> /\ snd'[p] = snd[p]
    BY <1>0, <1>1, <1>2 DEF Types, BufferTypes
<1>4. BufferTypes'
    <2>1. <<>> \in Seq(Cells) /\ Len(<<>>) = 0 /\ 0 <= SndCap
        BY CatAlgebra, EmptySeq, ImConnAssumption
    <2>2. snd' \in [Ends -> Seq(Cells)] /\ rcv' \in [Ends -> Seq(Cells)]
        BY <1>0, <1>2, <2>1 DEF Types, BufferTypes
    <2>3. \A x \in Ends : Len(snd'[x]) <= SndCap
        BY <1>0, <1>1, <1>3, <2>1 DEF Types, BufferTypes
    <2> QED BY <2>2, <2>3 DEF BufferTypes
<1>5. FlagTypes'
    BY <1>0, <1>1 DEF Types, FlagTypes, ArriveAtClosed
<1>6. Types' /\ BusyInv' /\ SentInv'
    BY <1>0, <1>2, <1>4, <1>5 DEF Types, ConnTypes, LoopTypes, GhostTypes, BusyInv, SentInv
<1>7. Stream(e)' = Stream(e) /\ Stream(p)' = Stream(p)
    BY <1>1, <1>2, <1>3 DEF Stream
<1>8. UNCHANGED ghosts /\ UNCHANGED state
    BY <1>2 DEF ghosts
<1>9. EitherClosed => EitherClosed'
    BY <1>8 DEF EitherClosed
<1>10. \A x \in Ends : Stream(x)' = Stream(x)
    BY <1>1, <1>7
<1>11. StreamInv'
    BY <1>0, <1>8, <1>9, <1>10, SameStreams
<1>12. ChanStep
    BY <1>8, Unseen
<1> QED BY <1>6, <1>11, <1>12, InvPartsNext

\* epoll_wait, the end of OnRead, NETLIB_MSG_CONFIRM and the accept touch no
\* buffer and close nothing.
LEMMA QuietStep ==
    ASSUME ConnInv,
           \/ AcceptNewSocket
           \/ \E e \in Ends : EpollWait(e) \/ ImOnReadReturns(e) \/ OnConfirm(e)
    PROVE  ConnInv' /\ ChanStep
<1>0. Types /\ BusyInv /\ SentInv /\ StreamInv
    BY InvParts
<1>1. UNCHANGED <<outBuf, inBuf, busy, snd, rcv, ghosts>>
    BY DEF AcceptNewSocket, EpollWait, ImOnReadReturns, OnConfirm, imConnVars, kernelVars
<1>2. /\ state' \in [Ends -> States]
      /\ \A x \in Ends : state'[x] = "closed" <=> state[x] = "closed"
    <2>1. CASE UNCHANGED state
        BY <1>0, <2>1 DEF Types, ConnTypes
    <2>2. CASE state["S"] = "none" /\ state' = [state EXCEPT !["S"] = "connected"]
        BY <1>0, <2>2 DEF Types, ConnTypes, States, Ends
    <2>3. CASE \E e \in Ends : state[e] = "connecting" /\ state' = [state EXCEPT ![e] = "connected"]
        BY <1>0, <2>3 DEF Types, ConnTypes, States
    <2> QED BY <2>1, <2>2, <2>3 DEF AcceptNewSocket, EpollWait, ImOnReadReturns, OnConfirm, imConnVars
<1>3. FlagTypes'
    BY <1>0 DEF Types, FlagTypes, AcceptNewSocket, EpollWait, ImOnReadReturns, OnConfirm, kernelVars
<1>4. LoopTypes'
    <2>1. CASE AcceptNewSocket
        BY <1>0, <2>1 DEF Types, LoopTypes, AcceptNewSocket, loopVars
    <2>2. ASSUME NEW e \in Ends, EpollWait(e) PROVE LoopTypes'
        <3>1. PICK next \in Places : pc' = [pc EXCEPT ![e] = next]
            BY <2>2 DEF EpollWait, AfterRead, AfterWrite, Places
        <3>2. NoEvent \in Events
            BY DEF NoEvent, Events
        <3>3. reset[e] \in BOOLEAN
            BY <1>0 DEF Types, FlagTypes
        <3>4. [out |-> (up /\ Len(snd[e]) < SndCap) \/ reset[e], hup |-> reset[e]] \in Events
            BY <3>3 DEF Events
        <3>5. PICK bits \in Events : ev' = [ev EXCEPT ![e] = bits]
            BY <2>2, <3>2, <3>4 DEF EpollWait
        <3> QED BY <1>0, <3>1, <3>5 DEF Types, LoopTypes
    <2>3. ASSUME NEW e \in Ends, ImOnReadReturns(e) \/ OnConfirm(e) PROVE LoopTypes'
        <3>1. PICK next \in Places : Goto(e, next)
            BY <2>3 DEF ImOnReadReturns, OnConfirm, AfterRead, AfterWrite, Places
        <3> QED BY <1>0, <3>1, GotoTypes DEF Types
    <2> QED BY <2>1, <2>2, <2>3
<1>5. Types' /\ BusyInv' /\ SentInv'
    BY <1>0, <1>1, <1>2, <1>3, <1>4 DEF Types, ConnTypes, BufferTypes, GhostTypes, BusyInv, SentInv, ghosts
<1>6. \A e \in Ends : Stream(e)' = Stream(e)
    BY <1>1, <1>2, TwoEnds DEF Stream
<1>7. EitherClosed => EitherClosed'
    BY <1>2 DEF EitherClosed
<1>8. UNCHANGED ghosts
    BY <1>1
<1>9. StreamInv'
    BY <1>0, <1>6, <1>7, <1>8, SameStreams
<1>10. ChanStep
    BY <1>2, <1>8, Unseen
<1> QED BY <1>5, <1>9, <1>10, InvPartsNext
\* OnRead: all that was received goes behind inBuf_.
LEMMA OnReadStep ==
    ASSUME ConnInv, NEW e \in Ends, ImOnRead(e)
    PROVE  ConnInv' /\ ChanStep
<1>0. Types /\ BusyInv /\ SentInv /\ StreamInv
    BY InvParts
<1>1. PICK p \in Ends : p = Peer[e] /\ p # e /\ e = Peer[p] /\ \A x \in Ends : x = e \/ x = p
    BY TwoEnds
<1>2. /\ inBuf' = [inBuf EXCEPT ![e] = Cat(inBuf[e], rcv[e])]
      /\ rcv' = [rcv EXCEPT ![e] = <<>>]
      /\ Goto(e, "handle")
      /\ UNCHANGED <<state, outBuf, busy, snd, sent, got>>
      /\ UNCHANGED <<up, nospace, edge, eof, reset>>
    BY DEF ImOnRead, ghosts, Cat
<1>3. /\ inBuf[e] \in Seq(Cells) /\ rcv[e] \in Seq(Cells)
      /\ Cat(inBuf[e], rcv[e]) \in Seq(Cells) /\ <<>> \in Seq(Cells)
      /\ Cat(Cat(inBuf[e], rcv[e]), <<>>) = Cat(inBuf[e], rcv[e])
    BY <1>0, BufferOf, CatAlgebra DEF Types
<1>4. /\ inBuf'[e] = Cat(inBuf[e], rcv[e]) /\ inBuf'[p] = inBuf[p]
      /\ rcv'[e] = <<>> /\ rcv'[p] = rcv[p]
    BY <1>0, <1>1, <1>2 DEF Types, BufferTypes, ConnTypes
<1>5. inBuf' \in [Ends -> Seq(Cells)] /\ rcv' \in [Ends -> Seq(Cells)]
    BY <1>0, <1>2, <1>3 DEF Types, BufferTypes, ConnTypes
<1>6. LoopTypes'
    BY <1>0, <1>2, GotoTypes DEF Types, Places
<1>7. Types' /\ BusyInv' /\ SentInv'
    BY <1>0, <1>2, <1>5, <1>6 DEF Types, ConnTypes, BufferTypes, FlagTypes, GhostTypes, BusyInv, SentInv
<1>8. Stream(e)' = Stream(e)
    BY <1>1, <1>2, <1>4 DEF Stream
<1>9. Stream(p)' = Stream(p)
    BY <1>1, <1>2, <1>3, <1>4 DEF Stream
<1>10. UNCHANGED ghosts /\ UNCHANGED state
    BY <1>2 DEF ghosts
<1>11. EitherClosed => EitherClosed'
    BY <1>10 DEF EitherClosed
<1>12. \A x \in Ends : Stream(x)' = Stream(x)
    BY <1>1, <1>8, <1>9
<1>13. StreamInv'
    BY <1>0, <1>10, <1>11, <1>12, SameStreams
<1>14. ChanStep
    BY <1>10, Unseen
<1> QED BY <1>7, <1>13, <1>14, InvPartsNext

\* send(2) takes no more than there is and than there is space for.
LEMMA TakenBounds ==
    ASSUME Types, NEW e \in Ends, NEW n \in Nat
    PROVE  /\ Taken(e, n) \in 0..n /\ Len(snd[e]) + Taken(e, n) <= SndCap
<1>1. Len(snd[e]) \in Nat /\ Len(snd[e]) <= SndCap /\ SndCap \in Nat
    BY BufferOf, ImConnAssumption DEF Types
<1>2. PICK l : l = Len(snd[e])
    OBVIOUS
<1>3. Taken(e, n) = IF reset[e] THEN 0 ELSE IF n < SndCap - l THEN n ELSE SndCap - l
    BY <1>2 DEF Taken
<1>4. l \in Nat /\ SndCap \in Nat /\ l <= SndCap
    BY <1>1, <1>2
<1>5. Taken(e, n) \in 0..n /\ l + Taken(e, n) <= SndCap
    <2>1. CASE reset[e]
        BY <1>3, <1>4, <2>1
    <2>2. CASE ~reset[e] /\ n < SndCap - l
        BY <1>3, <1>4, <2>2
    <2>3. CASE ~reset[e] /\ ~(n < SndCap - l)
        BY <1>3, <1>4, <2>3
    <2> QED BY <2>1, <2>2, <2>3
<1> QED BY <1>2, <1>5

\* OnWrite: the send buffer takes the first cells of outBuf_.
LEMMA OnWriteStep ==
    ASSUME ConnInv, NEW e \in Ends, OnWrite(e)
    PROVE  ConnInv' /\ ChanStep
<1>0. Types /\ BusyInv /\ SentInv /\ StreamInv
    BY InvParts
<1>1. PICK p \in Ends : p = Peer[e] /\ p # e /\ e = Peer[p] /\ \A x \in Ends : x = e \/ x = p
    BY TwoEnds
<1>2. PICK d \in Seq(Cells) : d = outBuf[e]
    BY <1>0, BufferOf DEF Types
<1>3. PICK n \in 0..Len(d) : n = Taken(e, Len(d)) /\ Len(snd[e]) + n <= SndCap
    BY <1>0, TakenBounds, LenProperties
<1>4. PICK rest \in Seq(Cells) : rest = SubSeq(d, n + 1, Len(d))
    BY SplitSeq
<1>5. PICK x \in Seq(Cells) : x = SubSeq(d, 1, n) /\ Len(x) = n
    BY SplitSeq
<1>6. /\ UNCHANGED <<state, inBuf, rcv, sent, got>>
      /\ UNCHANGED <<up, edge, eof, reset>>
      /\ IF busy[e]
         THEN /\ outBuf' = [outBuf EXCEPT ![e] = rest]
              /\ busy' = [busy EXCEPT ![e] = (rest # <<>>)]
              /\ snd' = [snd EXCEPT ![e] = Cat(snd[e], x)]
              /\ nospace' = [nospace EXCEPT ![e] = nospace[e] \/ (rest # <<>> /\ ~reset[e])]
         ELSE UNCHANGED <<outBuf, busy, snd, nospace>>
    BY <1>2, <1>3, <1>4, <1>5 DEF OnWrite, StaysBusy, ghosts, Cat
<1>7. LoopTypes'
    <2>1. PICK next \in Places : Goto(e, next)
        BY DEF OnWrite, AfterWrite, Places
    <2> QED BY <1>0, <2>1, GotoTypes DEF Types
<1>8. snd[e] \in Seq(Cells) /\ Len(snd[e]) \in Nat
    BY <1>0, BufferOf DEF Types
<1>9. Cat(snd[e], x) \in Seq(Cells) /\ Len(Cat(snd[e], x)) <= SndCap
    <2>1. Cat(snd[e], x) \in Seq(Cells) /\ Len(Cat(snd[e], x)) = Len(snd[e]) + Len(x)
        BY ONLY x \in Seq(Cells), <1>8, CatProperties
    <2> QED BY ONLY <1>3, <1>5, <2>1
<1>10. /\ outBuf' \in [Ends -> Seq(Cells)] /\ snd' \in [Ends -> Seq(Cells)]
       /\ busy' \in [Ends -> BOOLEAN] /\ nospace' \in [Ends -> BOOLEAN]
       /\ \A y \in Ends : Len(snd'[y]) <= SndCap
       /\ \A y \in Ends : busy'[y] <=> outBuf'[y] # <<>>
    <2>1. CASE busy[e]
        <3>1. /\ outBuf' = [outBuf EXCEPT ![e] = rest]
              /\ busy' = [busy EXCEPT ![e] = (rest # <<>>)]
              /\ snd' = [snd EXCEPT ![e] = Cat(snd[e], x)]
              /\ nospace' = [nospace EXCEPT ![e] = nospace[e] \/ (rest # <<>> /\ ~reset[e])]
            BY <1>6, <2>1
        <3>2. outBuf' \in [Ends -> Seq(Cells)] /\ snd' \in [Ends -> Seq(Cells)]
            BY <1>0, <1>9, <3>1 DEF Types, ConnTypes, BufferTypes
        <3>3. busy' \in [Ends -> BOOLEAN] /\ nospace' \in [Ends -> BOOLEAN]
            BY <1>0, <3>1 DEF Types, ConnTypes, FlagTypes
        <3>4. \A y \in Ends : Len(snd'[y]) <= SndCap
            BY <1>0, <1>9, <3>1 DEF Types, BufferTypes
        <3>5. \A y \in Ends : busy'[y] <=> outBuf'[y] # <<>>
            BY <1>0, <3>1 DEF Types, ConnTypes, BusyInv
        <3> QED BY <3>2, <3>3, <3>4, <3>5
    <2>2. CASE ~busy[e]
        BY <1>0, <1>6, <2>2 DEF Types, ConnTypes, BufferTypes, FlagTypes, BusyInv
    <2> QED BY <2>1, <2>2
<1>11. Types' /\ BusyInv' /\ SentInv'
    BY <1>0, <1>6, <1>7, <1>10 DEF Types, ConnTypes, BufferTypes, FlagTypes, GhostTypes, BusyInv, SentInv
<1>12. Cat(snd'[e], outBuf'[e]) = Cat(snd[e], outBuf[e]) /\ Cat(snd'[p], outBuf'[p]) = Cat(snd[p], outBuf[p])
    <2>1. CASE busy[e]
        <3>1. /\ outBuf' = [outBuf EXCEPT ![e] = rest]
              /\ snd' = [snd EXCEPT ![e] = Cat(snd[e], x)]
            BY <1>6, <2>1
        <3>2. /\ outBuf'[e] = rest /\ snd'[e] = Cat(snd[e], x)
              /\ outBuf'[p] = outBuf[p] /\ snd'[p] = snd[p]
            BY <1>0, <1>1, <3>1 DEF Types, ConnTypes, BufferTypes
        <3>3. Cat(Cat(snd[e], x), rest) = Cat(snd[e], d)
            BY <1>4, <1>5, <1>8, WriteSame
        <3> QED BY <1>2, <3>2, <3>3
    <2>2. CASE ~busy[e]
        BY <1>6, <2>2
    <2> QED BY <2>1, <2>2
<1>13. Stream(e)' = Stream(e) /\ Stream(p)' = Stream(p)
    BY <1>1, <1>6, <1>12 DEF Stream
<1>14. UNCHANGED ghosts /\ UNCHANGED state
    BY <1>6 DEF ghosts
<1>15. EitherClosed => EitherClosed'
    BY <1>14 DEF EitherClosed
<1>16. \A y \in Ends : Stream(y)' = Stream(y)
    BY <1>1, <1>13
<1>17. StreamInv'
    BY <1>0, <1>14, <1>15, <1>16, SameStreams
<1>18. ChanStep
    BY <1>14, Unseen
<1> QED BY <1>11, <1>17, <1>18, InvPartsNext
\* An end has closed, and of x's stream only the beginning R is left.
LEMMA CutStream ==
    ASSUME StreamInv, GhostTypes, NEW x \in Ends, NEW R \in Seq(Cells), NEW T \in Seq(Cells),
           Stream(x) = Cat(R, T), Stream(x)' = R, UNCHANGED ghosts, EitherClosed'
    PROVE  StreamOK(x)'
<1>1. PICK g \in Nat, s \in Seq(Pdus) : g = Len(got[Peer[x]]) /\ s = sent[x]
    BY TwoEnds, GhostOf
<1>2. g <= Len(s) /\ Cut(Off(x), Cat(R, T), g, s)
    BY <1>1 DEF StreamInv, StreamOK, EndOK
<1>3. Off(x) \in Nat
    BY TwoEnds
<1>4. Cut(Off(x), R, g, s)
    BY <1>2, <1>3, CutOffCat
<1>5. Len(got[Peer[x]])' = g /\ sent[x]' = s
    BY <1>1 DEF ghosts
<1> QED BY <1>2, <1>4, <1>5 DEF StreamOK, EndOK

\* The channel sees the first close of an end.
LEMMA Closing ==
    ASSUME ConnTypes, NEW e \in Ends, state' = [state EXCEPT ![e] = "closed"], UNCHANGED ghosts
    PROVE  ChanStep /\ EitherClosed'
<1>0. state'[e] = "closed" /\ \A x \in Ends : x # e => state'[x] = state[x]
    BY DEF ConnTypes
<1>1. CASE state[e] = "closed"
    <2>1. \A x \in Ends : state'[x] = "closed" <=> state[x] = "closed"
        BY <1>0, <1>1
    <2> QED BY <1>0, <2>1, Unseen DEF EitherClosed
<1>2. CASE state[e] # "closed"
    <2> DEFINE shut == [x \in Ends |-> state[x] = "closed"]
    <2>1. ~shut[e] /\ shut \in [Ends -> BOOLEAN]
        BY <1>2
    <2>2. [x \in Ends |-> state'[x] = "closed"] = [shut EXCEPT ![e] = TRUE]
        BY <1>0
    <2>3. Channel!ChanClose(e)
        BY <2>1, <2>2 DEF Channel!ChanClose, ghosts
    <2>4. Channel!ChanNext
        BY <2>3 DEF Channel!ChanNext
    <2> QED BY <1>0, <2>4 DEF ChanStep, EitherClosed
<1> QED BY <1>1, <1>2

\* Close: of the stream of either end a beginning is left.
LEMMA CloseStep ==
    ASSUME ConnInv, NEW e \in Ends, ImClose(e), UNCHANGED inBuf, UNCHANGED ghosts, LoopTypes'
    PROVE  ConnInv' /\ ChanStep
<1>0. Types /\ BusyInv /\ SentInv /\ StreamInv
    BY InvParts
<1>1. PICK p \in Ends : p = Peer[e] /\ p # e /\ e = Peer[p] /\ \A x \in Ends : x = e \/ x = p
    BY TwoEnds
<1>2. /\ state' = [state EXCEPT ![e] = "closed"]
      /\ outBuf' = [outBuf EXCEPT ![e] = <<>>]
      /\ busy' = [busy EXCEPT ![e] = FALSE]
      /\ snd' = [snd EXCEPT ![e] = <<>>] \/ snd' = snd
      /\ rcv' = [rcv EXCEPT ![e] = <<>>]
    BY DEF ImClose, KernelClose
<1>3. <<>> \in Seq(Cells) /\ Len(<<>>) = 0 /\ 0 <= SndCap
    BY CatAlgebra, EmptySeq, ImConnAssumption
<1>4. ConnTypes'
    <2>1. state' \in [Ends -> States] /\ busy' \in [Ends -> BOOLEAN]
        BY <1>0, <1>2 DEF Types, ConnTypes, States
    <2>2. outBuf' \in [Ends -> Seq(Cells)] /\ inBuf' \in [Ends -> Seq(Cells)]
        BY <1>0, <1>2, <1>3 DEF Types, ConnTypes
    <2> QED BY <2>1, <2>2 DEF ConnTypes
<1>5. BufferTypes'
    <2>1. snd' \in [Ends -> Seq(Cells)] /\ rcv' \in [Ends -> Seq(Cells)]
        BY <1>0, <1>2, <1>3 DEF Types, BufferTypes
    <2>2. \A x \in Ends : Len(snd'[x]) <= SndCap
        BY <1>0, <1>2, <1>3 DEF Types, BufferTypes
    <2> QED BY <2>1, <2>2 DEF BufferTypes
<1>6. FlagTypes'
    BY <1>0 DEF Types, FlagTypes, ImClose, KernelClose
<1>7. BusyInv'
    BY <1>0, <1>2 DEF Types, ConnTypes, BusyInv
<1>8. GhostTypes' /\ SentInv'
    BY <1>0 DEF Types, GhostTypes, SentInv, ghosts
<1>9. ChanStep /\ EitherClosed'
    BY <1>0, <1>2, Closing DEF Types
<1>10. /\ state'[e] = "closed" /\ outBuf'[e] = <<>> /\ rcv'[e] = <<>> /\ state'[p] = state[p]
       /\ outBuf'[p] = outBuf[p] /\ rcv'[p] = rcv[p] /\ snd'[p] = snd[p]
       /\ snd'[e] = <<>> \/ snd'[e] = snd[e]
    BY <1>0, <1>1, <1>2 DEF Types, ConnTypes, BufferTypes
<1>11. StreamOK(p)'
    <2>1. PICK R \in Seq(Cells) : R = inBuf[e]
        BY <1>0, BufferOf DEF Types
    <2>2. PICK b \in Seq(Cells) : b = rcv[e]
        BY <1>0, BufferOf DEF Types
    <2>3. PICK y \in Seq(Cells) : y = IF state[e] = "closed" THEN <<>> ELSE Cat(snd[p], outBuf[p])
        BY <1>0, BufferOf, CatAlgebra DEF Types
    <2>4. Stream(p) = Cat(Cat(R, b), y)
        BY <1>1, <2>1, <2>2, <2>3 DEF Stream
    <2>5. PICK T \in Seq(Cells) : T = Cat(b, y)
        BY CatAlgebra
    <2>6. Stream(p) = Cat(R, T)
        BY <2>4, <2>5, CatAlgebra
    <2>7. Stream(p)' = Cat(Cat(R, <<>>), <<>>)
        BY <1>1, <1>10, <2>1 DEF Stream
    <2>8. Stream(p)' = R
        BY <2>7, CatAlgebra
    <2> QED BY <1>0, <1>9, <2>6, <2>8, CutStream DEF Types
<1>12. StreamOK(e)'
    <2>1. PICK X \in Seq(Cells) : X = Cat(inBuf[p], rcv[p])
        BY <1>0, BufferOf, CatAlgebra DEF Types
    <2>2. PICK c \in Seq(Cells), d \in Seq(Cells) : c = snd[e] /\ d = outBuf[e]
        BY <1>0, BufferOf DEF Types
    <2>3. Stream(e) = Cat(X, IF state[p] = "closed" THEN <<>> ELSE Cat(c, d))
        BY <1>1, <2>1, <2>2 DEF Stream
    <2>4. Stream(e)' = Cat(X, IF state[p] = "closed" THEN <<>> ELSE Cat(snd'[e], <<>>))
        BY <1>1, <1>10, <2>1 DEF Stream
    <2>5. CASE state[p] = "closed"
        <3>1. Stream(e) = Cat(X, <<>>) /\ Stream(e)' = X
            BY <2>3, <2>4, <2>5, CatAlgebra
        <3> QED BY <1>0, <1>3, <1>9, <3>1, CutStream DEF Types
    <2>6. CASE state[p] # "closed" /\ snd'[e] = <<>>
        <3>1. PICK T \in Seq(Cells) : T = Cat(c, d)
            BY CatAlgebra
        <3>2. Stream(e) = Cat(X, T) /\ Stream(e)' = X
            BY <2>3, <2>4, <2>6, <3>1, CatAlgebra
        <3> QED BY <1>0, <1>9, <3>2, CutStream DEF Types
    <2>7. CASE state[p] # "closed" /\ snd'[e] = snd[e]
        <3>1. PICK R \in Seq(Cells) : R = Cat(X, c)
            BY CatAlgebra
        <3>2. Stream(e) = Cat(R, d)
            BY <2>3, <2>7, <3>1, CatAlgebra
        <3>3. Stream(e)' = Cat(X, Cat(c, <<>>))
            BY <2>2, <2>4, <2>7
        <3>4. Stream(e)' = R
            BY <3>1, <3>3, CatAlgebra
        <3> QED BY <1>0, <1>9, <3>2, <3>4, CutStream DEF Types
    <2> QED BY <1>10, <2>5, <2>6, <2>7
<1>13. StreamInv'
    BY <1>1, <1>11, <1>12 DEF StreamInv
<1>14. Types'
    BY <1>4, <1>5, <1>6, <1>8 DEF Types
<1> QED BY <1>7, <1>8, <1>9, <1>13, <1>14, InvPartsNext

\* All the callbacks and handlers that close the connection.
LEMMA ClosingStep ==
    ASSUME ConnInv, NEW e \in Ends,
           ImCloseConn(e) \/ ReadClose(e) \/ ImHandleBroken(e) \/ ConnectError(e) \/ OnClose(e)
    PROVE  ConnInv' /\ ChanStep
<1>0. Types /\ BusyInv /\ SentInv /\ StreamInv
    BY InvParts
<1>1. UNCHANGED inBuf /\ UNCHANGED ghosts
    BY DEF ImCloseConn, ReadClose, ImHandleBroken, ConnectError, OnClose
<1>2. LoopTypes'
    <2>1. CASE ImCloseConn(e)
        BY <1>0, <2>1 DEF ImCloseConn, Types, LoopTypes, loopVars
    <2>2. CASE Goto(e, "loop")
        <3>1. "loop" \in Places
            BY DEF Places
        <3> QED BY <1>0, <2>2, <3>1, GotoTypes DEF Types
    <2> QED BY <2>1, <2>2 DEF ReadClose, ImHandleBroken, ConnectError, OnClose
<1>3. CASE ImClose(e)
    BY <1>1, <1>2, <1>3, CloseStep
<1>4. CASE UNCHANGED <<state, outBuf, busy, kernelVars>>
    <2>1. UNCHANGED <<state, outBuf, inBuf, busy, up, snd, rcv, nospace, edge, eof, reset>>
        BY <1>1, <1>4 DEF kernelVars
    <2>2. Types' /\ BusyInv' /\ SentInv'
        BY <1>0, <1>1, <1>2, <2>1 DEF Types, ConnTypes, BufferTypes, FlagTypes, GhostTypes, BusyInv,
            SentInv, ghosts
    <2>3. \A x \in Ends : Stream(x)' = Stream(x)
        BY <2>1 DEF Stream
    <2>4. EitherClosed => EitherClosed'
        BY <2>1 DEF EitherClosed
    <2>5. StreamInv'
        BY <1>0, <1>1, <2>3, <2>4, SameStreams
    <2>6. ChanStep
        BY <1>1, <2>1, Unseen
    <2> QED BY <2>2, <2>5, <2>6, InvPartsNext
<1> QED BY <1>3, <1>4 DEF ImCloseConn, ReadClose, ImHandleBroken, ConnectError, OnClose

\* ListenerGone: the connection was never accepted.
LEMMA ListenerGoneStep ==
    ASSUME ConnInv, ListenerGone
    PROVE  ConnInv' /\ ChanStep
<1>0. Types /\ BusyInv /\ SentInv /\ StreamInv
    BY InvParts
<1>1. /\ "C" \in Ends /\ "S" \in Ends /\ Peer["C"] = "S" /\ Peer["S"] = "C" /\ "C" # "S"
      /\ \A x \in Ends : x = "C" \/ x = "S"
    BY DEF Ends, Peer
<1>2. /\ state["S"] = "none"
      /\ state' = [state EXCEPT !["S"] = "closed"]
      /\ snd' = [snd EXCEPT !["C"] = <<>>]
      /\ rcv' = [rcv EXCEPT !["S"] = <<>>]
      /\ UNCHANGED <<outBuf, inBuf, busy, pc, ev>>
      /\ UNCHANGED ghosts
    BY DEF ListenerGone, loopVars
<1>3. <<>> \in Seq(Cells) /\ Len(<<>>) = 0 /\ 0 <= SndCap
    BY CatAlgebra, EmptySeq, ImConnAssumption
<1>4. ConnTypes' /\ LoopTypes'
    BY <1>0, <1>2 DEF Types, ConnTypes, LoopTypes, States
<1>5. BufferTypes'
    <2>1. snd' \in [Ends -> Seq(Cells)] /\ rcv' \in [Ends -> Seq(Cells)]
        BY <1>0, <1>2, <1>3 DEF Types, BufferTypes
    <2>2. \A x \in Ends : Len(snd'[x]) <= SndCap
        BY <1>0, <1>2, <1>3 DEF Types, BufferTypes
    <2> QED BY <2>1, <2>2 DEF BufferTypes
<1>6. FlagTypes'
    BY <1>0 DEF Types, FlagTypes, ListenerGone
<1>7. BusyInv' /\ GhostTypes' /\ SentInv'
    BY <1>0, <1>2 DEF Types, GhostTypes, BusyInv, SentInv, ghosts
<1>8. ChanStep /\ EitherClosed'
    BY <1>0, <1>1, <1>2, Closing DEF Types
<1>9. /\ state'["S"] = "closed" /\ state'["C"] = state["C"]
      /\ rcv'["S"] = <<>> /\ rcv'["C"] = rcv["C"] /\ snd'["S"] = snd["S"]
    BY <1>0, <1>1, <1>2 DEF Types, ConnTypes, BufferTypes
<1>10. StreamOK("C")'
    <2>1. PICK R \in Seq(Cells) : R = inBuf["S"]
        BY <1>0, <1>1, BufferOf DEF Types
    <2>2. PICK b \in Seq(Cells) : b = rcv["S"]
        BY <1>0, <1>1, BufferOf DEF Types
    <2>3. PICK y \in Seq(Cells) : y = Cat(snd["C"], outBuf["C"])
        BY <1>0, <1>1, BufferOf, CatAlgebra DEF Types
    <2>4. Stream("C") = Cat(Cat(R, b), y)
        BY <1>1, <1>2, <2>1, <2>2, <2>3 DEF Stream
    <2>5. PICK T \in Seq(Cells) : T = Cat(b, y)
        BY CatAlgebra
    <2>6. Stream("C") = Cat(R, T)
        BY <2>4, <2>5, CatAlgebra
    <2>7. Stream("C")' = Cat(Cat(R, <<>>), <<>>)
        BY <1>1, <1>2, <1>9, <2>1 DEF Stream
    <2>8. Stream("C")' = R
        BY <2>7, CatAlgebra
    <2> QED BY <1>0, <1>1, <1>2, <1>8, <2>6, <2>8, CutStream DEF Types
<1>11. StreamOK("S")'
    <2>1. PICK R \in Seq(Cells) : R = Stream("S")
        BY <1>0, <1>1, StreamType DEF Types
    <2>2. Stream("S") = Cat(R, <<>>)
        BY <2>1, CatAlgebra
    <2>3. Stream("S")' = R
        BY <1>1, <1>2, <1>9, <2>1 DEF Stream
    <2> QED BY <1>0, <1>1, <1>2, <1>3, <1>8, <2>2, <2>3, CutStream DEF Types
<1>12. StreamInv'
    BY <1>1, <1>10, <1>11 DEF StreamInv
<1>13. Types'
    BY <1>4, <1>5, <1>6, <1>7 DEF Types
<1> QED BY <1>7, <1>8, <1>12, <1>13, InvPartsNext
\* The channel sees a PDU that is sent.
LEMMA Sending ==
    ASSUME NEW e \in Ends, state[e] # "closed", UNCHANGED state, UNCHANGED got,
           NEW p \in Pdus, sent' = [sent EXCEPT ![e] = Append(sent[e], p)]
    PROVE  ChanStep
<1>1. Channel!ChanSend(e)
    BY DEF Channel!ChanSend
<1>2. Channel!ChanNext
    BY <1>1 DEF Channel!ChanNext
<1> QED BY <1>2 DEF ChanStep

\* Send: the cells go behind the stream, unless the peer has closed.
LEMMA SendStream ==
    ASSUME ConnInv, NEW e \in Ends, NEW f \in Seq(Cells), Exists(e), Send(e, f)
    PROVE  /\ ConnTypes' /\ LoopTypes' /\ BufferTypes' /\ FlagTypes' /\ BusyInv'
           /\ UNCHANGED state
           /\ Stream(Peer[e])' = Stream(Peer[e])
           /\ state[Peer[e]] = "closed" => Stream(e)' = Stream(e)
           /\ state[Peer[e]] # "closed" => Stream(e)' = Cat(Stream(e), f)
<1>0. Types /\ BusyInv /\ SentInv /\ StreamInv
    BY InvParts
<1>1. PICK p \in Ends : p = Peer[e] /\ p # e /\ e = Peer[p] /\ \A x \in Ends : x = e \/ x = p
    BY TwoEnds
<1>2. PICK n \in 0..Len(f) :
          /\ n = IF ~busy[e] /\ state[e] = "connected" THEN Taken(e, Len(f)) ELSE 0
          /\ Len(snd[e]) + n <= SndCap
          /\ n = 0 \/ ~busy[e]
    <2>1. Len(f) \in Nat /\ Len(snd[e]) \in Nat /\ Len(snd[e]) <= SndCap
        BY <1>0, BufferOf, LenProperties DEF Types
    <2>2. CASE ~busy[e] /\ state[e] = "connected"
        <3>1. Taken(e, Len(f)) \in 0..Len(f) /\ Len(snd[e]) + Taken(e, Len(f)) <= SndCap
            BY <1>0, <2>1, TakenBounds
        <3> QED BY <2>2, <3>1
    <2>3. CASE ~(~busy[e] /\ state[e] = "connected")
        <3>1. 0 \in 0..Len(f) /\ Len(snd[e]) + 0 <= SndCap
            BY <2>1
        <3> QED BY <2>3, <3>1
    <2> QED BY <2>2, <2>3
<1>3. PICK rest \in Seq(Cells) : rest = SubSeq(f, n + 1, Len(f))
    BY SplitSeq
<1>4. PICK x \in Seq(Cells) : x = SubSeq(f, 1, n) /\ Len(x) = n
    BY SplitSeq
<1>5. /\ outBuf' = [outBuf EXCEPT ![e] = Cat(outBuf[e], rest)]
      /\ busy' = [busy EXCEPT ![e] = busy[e] \/ rest # <<>>]
      /\ snd' = [snd EXCEPT ![e] = Cat(snd[e], x)]
      /\ UNCHANGED <<state, inBuf, pc, ev, up, rcv, edge, eof, reset>>
    BY <1>2, <1>3, <1>4 DEF Send, loopVars, Cat
<1>6. PICK c \in Seq(Cells), d \in Seq(Cells) : c = snd[e] /\ d = outBuf[e]
    BY <1>0, BufferOf DEF Types
<1>7. Cat(c, x) \in Seq(Cells) /\ Cat(d, rest) \in Seq(Cells) /\ Len(Cat(c, x)) <= SndCap
    <2>0. Len(Cat(c, x)) = Len(c) + Len(x)
        BY CatProperties
    <2>1. Len(Cat(c, x)) = Len(c) + n
        BY <1>4, <2>0
    <2> QED BY <1>2, <1>6, <2>1, CatAlgebra
<1>8. /\ outBuf' = [outBuf EXCEPT ![e] = Cat(d, rest)] /\ snd' = [snd EXCEPT ![e] = Cat(c, x)]
      /\ outBuf'[e] = Cat(d, rest) /\ outBuf'[p] = outBuf[p]
      /\ snd'[e] = Cat(c, x) /\ snd'[p] = snd[p]
    BY <1>0, <1>1, <1>5, <1>6 DEF Types, ConnTypes, BufferTypes
<1>9. /\ busy' \in [Ends -> BOOLEAN] /\ busy'[p] = busy[p]
      /\ busy'[e] <=> busy[e] \/ rest # <<>>
    BY <1>0, <1>1, <1>5 DEF Types, ConnTypes
<1>10. ConnTypes'
    BY <1>0, <1>5, <1>7, <1>8, <1>9 DEF Types, ConnTypes
<1>11. BufferTypes'
    <2>1. snd' \in [Ends -> Seq(Cells)] /\ rcv' \in [Ends -> Seq(Cells)]
        BY <1>0, <1>5, <1>7, <1>8 DEF Types, BufferTypes
    <2>2. \A y \in Ends : Len(snd'[y]) <= SndCap
        BY <1>0, <1>1, <1>7, <1>8 DEF Types, BufferTypes
    <2> QED BY <2>1, <2>2 DEF BufferTypes
<1>12. LoopTypes'
    BY <1>0, <1>5 DEF Types, LoopTypes
<1>13. FlagTypes'
    <2>1. nospace' \in [Ends -> BOOLEAN]
        BY <1>0 DEF Types, FlagTypes, Send
    <2> QED BY <1>0, <1>5, <2>1 DEF Types, FlagTypes
<1>14. BusyInv'
    <2>1. Cat(d, rest) # <<>> <=> d # <<>> \/ rest # <<>>
        BY ConcatEqualIffEmpty DEF Cat
    <2>2. busy'[e] <=> outBuf'[e] # <<>>
        BY <1>0, <1>6, <1>8, <1>9, <2>1 DEF BusyInv
    <2>3. busy'[p] <=> outBuf'[p] # <<>>
        BY <1>0, <1>8, <1>9 DEF BusyInv
    <2> QED BY <1>1, <2>2, <2>3 DEF BusyInv
<1>15. Stream(p)' = Stream(p)
    BY <1>1, <1>5, <1>8 DEF Stream
<1>16. state[p] = "closed" => Stream(e)' = Stream(e)
    BY <1>1, <1>5 DEF Stream
<1>17. ASSUME state[p] # "closed" PROVE Stream(e)' = Cat(Stream(e), f)
    <2>1. PICK a \in Seq(Cells) : a = Cat(inBuf[p], rcv[p])
        BY <1>0, BufferOf, CatAlgebra DEF Types
    <2>2. Stream(e) = Cat(a, Cat(c, d))
        BY <1>1, <1>6, <1>17, <2>1 DEF Stream
    <2>3. Stream(e)' = Cat(a, Cat(Cat(c, x), Cat(d, rest)))
        BY <1>1, <1>5, <1>8, <1>17, <2>1 DEF Stream
    <2>4. n = 0 \/ d = <<>>
        BY <1>0, <1>2, <1>6 DEF BusyInv
    <2>5. Cat(a, Cat(Cat(c, x), Cat(d, rest))) = Cat(Cat(a, Cat(c, d)), f)
        BY <1>3, <1>4, <2>4, SendBehind
    <2> QED BY <2>2, <2>3, <2>5
<1>18. UNCHANGED state
    BY <1>5
<1> QED BY <1>1, <1>10, <1>11, <1>12, <1>13, <1>14, <1>15, <1>16, <1>17, <1>18

\* OnTimer: a heartbeat goes behind the stream.
LEMMA OnTimerStep ==
    ASSUME ConnInv, NEW e \in Ends, OnTimer(e)
    PROVE  ConnInv' /\ ChanStep
<1>0. Types /\ BusyInv /\ SentInv /\ StreamInv
    BY InvParts
<1>1. PICK p \in Ends : p = Peer[e] /\ p # e /\ e = Peer[p] /\ \A x \in Ends : x = e \/ x = p
    BY TwoEnds
<1>2. HeartBeat \in AllPdus
    BY DEF AllPdus
<1>3. PICK f \in Seq(Cells) : f = CellsOf(HeartBeat)
    BY <1>2, CellsOfTypes
<1>4. Exists(e) /\ Send(e, f) /\ UNCHANGED ghosts
    BY <1>3 DEF OnTimer
<1>5. /\ ConnTypes' /\ LoopTypes' /\ BufferTypes' /\ FlagTypes' /\ BusyInv'
      /\ UNCHANGED state
      /\ Stream(p)' = Stream(p)
      /\ state[p] = "closed" => Stream(e)' = Stream(e)
      /\ state[p] # "closed" => Stream(e)' = Cat(Stream(e), f)
    BY <1>1, <1>4, SendStream
<1>6. GhostTypes' /\ SentInv'
    BY <1>0, <1>4 DEF Types, GhostTypes, SentInv, ghosts
<1>7. ChanStep
    BY <1>4, <1>5, Unseen
<1>8. EitherClosed' <=> EitherClosed
    BY <1>5 DEF EitherClosed
<1>9. StreamInv'
    <2>1. CASE state[p] = "closed"
        <3>1. \A x \in Ends : Stream(x)' = Stream(x)
            BY <1>1, <1>5, <2>1
        <3> QED BY <1>0, <1>4, <1>8, <3>1, SameStreams
    <2>2. CASE state[p] # "closed"
        <3>1. ~EitherClosed
            BY <1>1, <1>4, <2>2 DEF EitherClosed, Exists
        <3>2. PICK g \in Nat, s \in Seq(Pdus) : g = Len(got[p]) /\ s = sent[e]
            BY <1>0, GhostOf DEF Types
        <3>3. PICK Q \in Seq(Cells) : Q = Stream(e)
            BY <1>0, StreamType DEF Types
        <3>4. g <= Len(s) /\ Cut(Off(e), Q, g, s) /\ Full(Off(e), Q, g, s)
            BY <1>0, <1>1, <3>1, <3>2, <3>3 DEF StreamInv, StreamOK, EndOK
        <3>5. Cut(Off(e), Cat(Q, CellsOf(HeartBeat)), g, s) /\ Full(Off(e), Cat(Q, CellsOf(HeartBeat)), g, s)
            BY <1>2, <3>4, SentCat, TwoEnds
        <3>6. Len(got[p])' = g /\ sent[e]' = s /\ Stream(e)' = Cat(Q, f)
            BY <1>4, <1>5, <2>2, <3>2, <3>3 DEF ghosts
        <3>7. StreamOK(e)'
            BY <1>1, <1>3, <3>4, <3>5, <3>6 DEF StreamOK, EndOK
        <3>8. StreamOK(p)'
            BY <1>0, <1>1, <1>4, <1>5, <1>8 DEF StreamInv, StreamOK, ghosts
        <3> QED BY <1>1, <3>7, <3>8 DEF StreamInv
    <2> QED BY <2>1, <2>2
<1>10. Types'
    BY <1>5, <1>6 DEF Types
<1> QED BY <1>5, <1>6, <1>7, <1>9, <1>10, InvPartsNext

\* SendPdu: a PDU with the next number goes behind the stream.
LEMMA SendPduStep ==
    ASSUME ConnInv, NEW e \in Ends, NEW len \in Lens, SendPdu(e, len)
    PROVE  ConnInv' /\ ChanStep
<1>0. Types /\ BusyInv /\ SentInv /\ StreamInv
    BY InvParts
<1>1. PICK p \in Ends : p = Peer[e] /\ p # e /\ e = Peer[p] /\ \A x \in Ends : x = e \/ x = p
    BY TwoEnds
<1>2. PICK s \in Seq(Pdus) : s = sent[e]
    BY <1>0, GhostOf DEF Types
<1>3. PICK q : q = [id |-> Len(s) + (IF e = "C" THEN 1 ELSE MaxPdus["C"] + 1), len |-> len]
    OBVIOUS
<1>4. Len(s) < MaxPdus[e] /\ Len(s) \in Nat /\ Off(e) \in Nat
      /\ MaxPdus["C"] \in Nat /\ MaxPdus["S"] \in Nat /\ e \in {"C", "S"}
    BY <1>2, TwoEnds, LenProperties, ImConnAssumption DEF SendPdu, Ends
<1>5. q.id = Off(e) + Len(s) + 1 /\ q.id \in Ids /\ Number(Off(e), q) = Len(s) + 1
    <2>1. PICK k : k = q.id
        OBVIOUS
    <2>2. k = Len(s) + (IF e = "C" THEN 1 ELSE MaxPdus["C"] + 1)
        BY <1>3, <2>1
    <2>3. CASE e = "C"
        BY <1>4, <2>1, <2>2, <2>3 DEF Off, Ids, Number
    <2>4. CASE e = "S"
        BY <1>4, <2>1, <2>2, <2>4 DEF Off, Ids, Number
    <2> QED BY <1>4, <2>3, <2>4
<1>6. q \in Pdus
    <2>1. q = [id |-> q.id, len |-> len]
        BY <1>3
    <2> QED BY <1>5, <2>1 DEF Pdus
<1>7. q \in AllPdus /\ q # HeartBeat
    BY <1>6, PduTypes DEF AllPdus
<1>8. PICK f \in Seq(Cells) : f = CellsOf(q)
    BY <1>7, CellsOfTypes
<1>9. Exists(e) /\ Send(e, f) /\ sent' = [sent EXCEPT ![e] = Append(sent[e], q)] /\ UNCHANGED got
    BY <1>2, <1>3, <1>8 DEF SendPdu
<1>10. /\ ConnTypes' /\ LoopTypes' /\ BufferTypes' /\ FlagTypes' /\ BusyInv'
       /\ UNCHANGED state
       /\ Stream(p)' = Stream(p)
       /\ state[p] = "closed" => Stream(e)' = Stream(e)
       /\ state[p] # "closed" => Stream(e)' = Cat(Stream(e), f)
    BY <1>1, <1>9, SendStream
<1>11. PICK t \in Seq(Pdus) : t = Append(s, q) /\ Len(t) = Len(s) + 1
    BY <1>6, AppendProperties
<1>12. sent' = [sent EXCEPT ![e] = t] /\ sent'[e] = t /\ sent'[p] = sent[p]
    BY <1>0, <1>1, <1>2, <1>9, <1>11 DEF Types, GhostTypes
<1>13. GhostTypes'
    BY <1>0, <1>9, <1>12 DEF Types, GhostTypes
<1>14. SentInv'
    <2>1. Len(t) <= MaxPdus[e]
        BY <1>4, <1>11, TwoEnds
    <2> QED BY <1>0, <1>1, <1>12, <2>1 DEF SentInv
<1>15. ChanStep
    BY <1>6, <1>9, <1>10, Sending DEF Exists
<1>16. EitherClosed' <=> EitherClosed
    BY <1>10 DEF EitherClosed
<1>17. PICK g \in Nat : g = Len(got[p])
    BY <1>0, GhostOf DEF Types
<1>18. PICK Q \in Seq(Cells) : Q = Stream(e)
    BY <1>0, StreamType DEF Types
<1>19. /\ g <= Len(s) /\ Cut(Off(e), Q, g, s)
       /\ ~EitherClosed => Full(Off(e), Q, g, s)
    BY <1>0, <1>1, <1>2, <1>17, <1>18 DEF StreamInv, StreamOK, EndOK
<1>20. Len(got[p])' = g /\ sent[e]' = t /\ g <= Len(t)
    BY <1>4, <1>9, <1>11, <1>12, <1>17, <1>19
<1>21. StreamOK(e)'
    <2>1. CASE state[p] = "closed"
        <3>1. EitherClosed' /\ Stream(e)' = Q
            BY <1>10, <1>16, <1>18, <2>1 DEF EitherClosed
        <3>2. Cut(Off(e), Q, g, t)
            BY <1>4, <1>6, <1>11, <1>19, SentAside
        <3> QED BY <1>1, <1>20, <3>1, <3>2 DEF StreamOK, EndOK
    <2>2. CASE state[p] # "closed"
        <3>1. ~EitherClosed
            BY <1>1, <1>9, <2>2 DEF EitherClosed, Exists
        <3>2. Cut(Off(e), Cat(Q, CellsOf(q)), g, t) /\ Full(Off(e), Cat(Q, CellsOf(q)), g, t)
            BY <1>4, <1>5, <1>7, <1>11, <1>19, <3>1, SentCat
        <3>3. Stream(e)' = Cat(Q, CellsOf(q))
            BY <1>8, <1>10, <1>18, <2>2
        <3> QED BY <1>1, <1>20, <3>2, <3>3 DEF StreamOK, EndOK
    <2> QED BY <2>1, <2>2
<1>22. StreamOK(p)'
    BY <1>0, <1>1, <1>9, <1>10, <1>12, <1>16 DEF StreamInv, StreamOK
<1>23. StreamInv'
    BY <1>1, <1>21, <1>22 DEF StreamInv
<1>24. Types'
    BY <1>10, <1>13 DEF Types
<1> QED BY <1>10, <1>14, <1>15, <1>23, <1>24, InvPartsNext
\* The channel sees a PDU that is handled.
LEMMA Handling ==
    ASSUME NEW e \in Ends, NEW q, NEW g \in Nat, g = Len(got[e]),
           g + 1 <= Len(sent[Peer[e]]), sent[Peer[e]][g + 1] = q, q.len > 0,
           got' = [got EXCEPT ![e] = Append(got[e], q)], UNCHANGED sent, UNCHANGED state
    PROVE  ChanStep
<1>1. Channel!ChanHandle(e)
    BY DEF Channel!ChanHandle
<1>2. Channel!ChanNext
    BY <1>1 DEF Channel!ChanNext
<1> QED BY <1>2 DEF ChanStep

\* HandlePdu: the first PDU of the stream is the next one its peer sent.
LEMMA HandlePduStep ==
    ASSUME ConnInv, NEW e \in Ends, HandlePdu(e)
    PROVE  ConnInv' /\ ChanStep
<1>0. Types /\ BusyInv /\ SentInv /\ StreamInv
    BY InvParts
<1>1. PICK p \in Ends : p = Peer[e] /\ p # e /\ e = Peer[p] /\ \A x \in Ends : x = e \/ x = p
    BY TwoEnds
<1>2. PICK a \in Seq(Cells), b \in Seq(Cells) : a = inBuf[e] /\ b = rcv[e]
    BY <1>0, BufferOf DEF Types
<1>3. PICK y \in Seq(Cells) : y = IF state[e] = "closed" THEN <<>> ELSE Cat(snd[p], outBuf[p])
    BY <1>0, BufferOf, CatAlgebra DEF Types
<1>4. PICK q : q = a[1].pdu
    OBVIOUS
<1>5. PICK w \in 1..Len(a) : w = q.len
    BY <1>2, <1>4 DEF HandlePdu, IsPduAvailable
<1>6. /\ got' = IF q = HeartBeat THEN got ELSE [got EXCEPT ![e] = Append(got[e], q)]
      /\ inBuf' = [inBuf EXCEPT ![e] = SubSeq(a, w + 1, Len(a))]
      /\ UNCHANGED <<state, outBuf, busy, pc, ev, up, snd, rcv, nospace, edge, eof, reset, sent>>
    BY <1>2, <1>4, <1>5 DEF HandlePdu, loopVars, kernelVars
<1>7. PICK Q \in Seq(Cells) : Q = Cat(Cat(a, b), y)
    BY CatAlgebra
<1>8. PICK z \in Seq(Cells) : z = SubSeq(a, w + 1, Len(a))
    BY HandleShifts
<1>9. PICK R \in Seq(Cells) : R = Cat(Cat(z, b), y)
    BY CatAlgebra
<1>10. Shifted(Q, w, R) /\ Q[1] = a[1] /\ Len(Q) >= Len(a)
    BY <1>7, <1>8, <1>9, HandleShifts
<1>11. w \in 1..Len(Q) /\ Len(Q) > 0 /\ Len(Q) \in Nat
    <2>1. Len(Q) \in Nat /\ Len(a) \in Nat
        BY LenProperties
    <2> QED BY <1>10, <2>1
<1>12. Stream(p) = Q
    BY <1>1, <1>2, <1>3, <1>7 DEF Stream
<1>13. inBuf' = [inBuf EXCEPT ![e] = z] /\ inBuf'[e] = z /\ inBuf'[p] = inBuf[p]
    BY <1>0, <1>1, <1>6, <1>8 DEF Types, ConnTypes
<1>14. Stream(p)' = R
    BY <1>1, <1>2, <1>3, <1>6, <1>9, <1>13 DEF Stream
<1>15. Stream(e)' = Stream(e)
    BY <1>1, <1>6, <1>13 DEF Stream
<1>16. PICK g \in Nat, s \in Seq(Pdus) : g = Len(got[e]) /\ s = sent[p]
    BY <1>0, GhostOf DEF Types
<1>17. PICK h : h = IF q = HeartBeat THEN g ELSE g + 1
    OBVIOUS
<1>18. /\ g <= Len(s) /\ Cut(Off(p), Q, g, s)
       /\ ~EitherClosed => Full(Off(p), Q, g, s)
    BY <1>0, <1>1, <1>12, <1>16 DEF StreamInv, StreamOK, EndOK
<1>19. /\ q # HeartBeat => g + 1 \in 1..Len(s) /\ s[g + 1] = q
       /\ Cut(Off(p), R, h, s)
       /\ Full(Off(p), Q, g, s) => Full(Off(p), R, h, s)
    <2>1. PICK off \in Nat : off = Off(p)
        BY TwoEnds
    <2>2. q = Q[1].pdu
        BY <1>4, <1>10
    <2>3. FirstOut(off, g, s, Q, q, w, h, R)
        BY <1>5, <1>10, <1>11, <1>17, <1>18, <2>1, <2>2 DEF FirstOut
    <2>4. /\ q # HeartBeat => g + 1 \in 1..Len(s) /\ s[g + 1] = q
          /\ Cut(off, R, h, s)
          /\ Full(off, Q, g, s) => Full(off, R, h, s)
        BY <2>3, TakenOut
    <2> QED BY <2>1, <2>4
<1>20. /\ GhostTypes' /\ Len(got'[e]) = h /\ got'[p] = got[p] /\ h <= Len(s)
    <2>1. CASE q = HeartBeat
        BY <1>0, <1>6, <1>16, <1>17, <1>18, <2>1 DEF Types, GhostTypes
    <2>2. CASE q # HeartBeat
        <3>1. q \in Pdus
            <4>1. s \in Seq(Pdus) /\ g + 1 \in 1..Len(s) /\ s[g + 1] = q
                BY <1>19, <2>2
            <4> QED BY ONLY <4>1, ElementOfSeq
        <3>2. PICK t \in Seq(Pdus) : t = Append(got[e], q) /\ Len(t) = g + 1
            <4>1. got[e] \in Seq(Pdus)
                BY <1>0, GhostOf DEF Types
            <4>2. Append(got[e], q) \in Seq(Pdus) /\ Len(Append(got[e], q)) = Len(got[e]) + 1
                BY ONLY <3>1, <4>1, AppendProperties
            <4> QED BY <1>16, <4>2
        <3>3. got' = [got EXCEPT ![e] = t]
            BY <1>6, <2>2, <3>2
        <3>4. got' \in [Ends -> Seq(Pdus)] /\ got'[e] = t /\ got'[p] = got[p]
            BY <1>0, <1>1, <3>3 DEF Types, GhostTypes
        <3>5. h <= Len(s)
            BY <1>17, <1>19, <2>2
        <3> QED BY <1>0, <1>6, <1>17, <2>2, <3>2, <3>4, <3>5 DEF Types, GhostTypes
    <2> QED BY <2>1, <2>2
<1>21. Types' /\ BusyInv' /\ SentInv'
    <2>1. inBuf' \in [Ends -> Seq(Cells)]
        BY <1>0, <1>13 DEF Types, ConnTypes
    <2> QED BY <1>0, <1>6, <1>20, <2>1 DEF Types, ConnTypes, LoopTypes, BufferTypes, FlagTypes, BusyInv,
            SentInv
<1>22. EitherClosed' <=> EitherClosed
    BY <1>6 DEF EitherClosed
<1>23. StreamOK(p)'
    <2>1. Len(got[Peer[p]])' = h /\ sent[p]' = s
        BY <1>1, <1>6, <1>16, <1>20
    <2> QED BY <1>14, <1>18, <1>19, <1>20, <1>22, <2>1 DEF StreamOK, EndOK
<1>24. StreamOK(e)'
    BY <1>0, <1>1, <1>6, <1>15, <1>20, <1>22 DEF StreamInv, StreamOK
<1>25. StreamInv'
    BY <1>1, <1>23, <1>24 DEF StreamInv
<1>26. ChanStep
    <2>1. CASE q = HeartBeat
        BY <1>6, <2>1, Unseen DEF ghosts
    <2>2. CASE q # HeartBeat
        <3>1. g + 1 <= Len(sent[Peer[e]]) /\ sent[Peer[e]][g + 1] = q /\ q.len > 0
            <4>1. g + 1 \in 1..Len(s) /\ s[g + 1] = q
                BY <1>19, <2>2
            <4>2. Len(s) \in Nat /\ g + 1 <= Len(s) /\ w > 0
                BY <4>1, LenProperties
            <4> QED BY <1>1, <1>5, <1>16, <4>1, <4>2
        <3>2. got' = [got EXCEPT ![e] = Append(got[e], q)] /\ UNCHANGED sent /\ UNCHANGED state
            BY <1>6, <2>2
        <3> QED BY <1>16, <3>1, <3>2, Handling
    <2> QED BY <2>1, <2>2
<1> QED BY <1>21, <1>25, <1>26, InvPartsNext

-----------------------------------------------------------------------------
\* The theorems.

\* The initial states.
LEMMA ConnInit == ImConnInit => ConnInv /\ Channel!ChanInit
<1> SUFFICES ASSUME ImConnInit PROVE ConnInv /\ Channel!ChanInit
    OBVIOUS
<1>0. <<>> \in Seq(Cells) /\ <<>> \in Seq(Pdus) /\ Len(<<>>) = 0 /\ 0 <= SndCap /\ NoEvent \in Events
    BY EmptySeq, ImConnAssumption DEF NoEvent, Events
<1>1. ConnTypes /\ LoopTypes /\ BufferTypes
    BY <1>0 DEF ImConnInit, ConnTypes, LoopTypes, BufferTypes, States, Places
<1>2. FlagTypes /\ GhostTypes /\ BusyInv
    BY <1>0 DEF ImConnInit, FlagTypes, GhostTypes, BusyInv
<1>3. SentInv
    BY <1>0, TwoEnds DEF ImConnInit, SentInv
<1>4. StreamInv
    <2> SUFFICES ASSUME NEW e \in Ends PROVE StreamOK(e)
        BY DEF StreamInv
    <2>1. Stream(e) = <<>>
        BY TwoEnds, CatAlgebra DEF Stream, ImConnInit
    <2>2. Len(got[Peer[e]]) = 0 /\ sent[e] = <<>>
        BY <1>0, TwoEnds DEF ImConnInit
    <2>3. Cut(Off(e), <<>>, 0, <<>>) /\ Full(Off(e), <<>>, 0, <<>>)
        BY <1>0 DEF Cut, Full, Framed, Whole, Ordered, AllThere
    <2> QED BY <1>0, <2>1, <2>2, <2>3 DEF StreamOK, EndOK
<1>5. ConnInv
    BY <1>1, <1>2, <1>3, <1>4, InvParts DEF Types
<1>6. [e \in Ends |-> state[e] = "closed"] = [e \in Ends |-> FALSE]
    BY DEF ImConnInit
<1> QED BY <1>5, <1>6 DEF ImConnInit, Channel!ChanInit

\* Every step keeps the invariant and is a step of the channel or none.
LEMMA ConnStep == ConnInv /\ [ImConnNext]_imVars => ConnInv' /\ ChanStep
<1> SUFFICES ASSUME ConnInv, [ImConnNext]_imVars PROVE ConnInv' /\ ChanStep
    OBVIOUS
<1>1. CASE Kernel
    <2>1. CASE Establish \/ ConnectFails \/ \E e \in Ends : FinArrives(e)
        BY <2>1, FlagStep
    <2>2. CASE ListenerGone
        BY <2>2, ListenerGoneStep
    <2>3. CASE \E e \in Ends : Arrive(e) \/ ArriveAtClosed(e)
        BY <2>3, ArriveStep, ArriveAtClosedStep
    <2> QED BY <1>1, <2>1, <2>2, <2>3 DEF Kernel
<1>2. CASE AcceptNewSocket
    BY <1>2, QuietStep
<1>3. ASSUME NEW e \in Ends, Dispatch(e) PROVE ConnInv' /\ ChanStep
    <2>1. CASE EpollWait(e) \/ ImOnReadReturns(e) \/ OnConfirm(e)
        BY <2>1, QuietStep
    <2>2. CASE ReadClose(e) \/ ImHandleBroken(e) \/ ConnectError(e) \/ OnClose(e)
        BY <2>2, ClosingStep
    <2>3. CASE ImOnRead(e) \/ HandlePdu(e) \/ OnWrite(e)
        BY <2>3, OnReadStep, HandlePduStep, OnWriteStep
    <2> QED BY <1>3, <2>1, <2>2, <2>3 DEF Dispatch
<1>4. ASSUME NEW e \in Ends, (\E len \in Lens : SendPdu(e, len)) \/ OnTimer(e) \/ ImCloseConn(e)
      PROVE  ConnInv' /\ ChanStep
    BY <1>4, SendPduStep, OnTimerStep, ClosingStep
<1>5. CASE UNCHANGED imVars
    <2>1. /\ UNCHANGED <<state, outBuf, inBuf, busy, pc, ev>>
          /\ UNCHANGED <<up, snd, rcv, nospace, edge, eof, reset>>
          /\ UNCHANGED ghosts
        BY <1>5 DEF imVars, imConnVars, loopVars, kernelVars
    <2>2. Types /\ BusyInv /\ SentInv /\ StreamInv
        BY InvParts
    <2>3. Types' /\ BusyInv' /\ SentInv'
        BY <2>1, <2>2 DEF Types, ConnTypes, LoopTypes, BufferTypes, FlagTypes, GhostTypes, BusyInv,
            SentInv, ghosts
    <2>4. \A e \in Ends : Stream(e)' = Stream(e)
        BY <2>1 DEF Stream
    <2>5. EitherClosed => EitherClosed'
        BY <2>1 DEF EitherClosed
    <2>6. StreamInv' /\ ChanStep
        BY <2>1, <2>2, <2>4, <2>5, SameStreams, Unseen
    <2> QED BY <2>3, <2>6, InvPartsNext
<1> QED BY <1>1, <1>2, <1>3, <1>4, <1>5 DEF ImConnNext

\* In every state of two ImConns what is on its way from one to the other,
\* through outBuf_, the sockets and inBuf_, is the PDUs not yet handled, in the
\* order of the sends, each framed by its header, with heartbeats between them.
THEOREM ConnInvariant == ImConnSpec => []ConnInv
BY ConnInit, ConnStep, PTL DEF ImConnSpec

\* ImConn, BaseSocket and the event loop keep their types; in particular busy_ is
\* set exactly while outBuf_ holds something.
THEOREM ConnTyped == ImConnSpec => []ImConnTypeOK
<1>1. ConnInv => ImConnTypeOK
    BY DEF ConnInv
<1> QED BY <1>1, ConnInvariant, PTL

\* Two ImConns implement a channel of PDUs (Send, OnWrite, OnRead,
\* IsPduAvailable): whatever is cut up on the way is handled whole, in the order
\* it was sent and once, and a broken header is never handled.
THEOREM ConnImplementsChannel == ImConnSpec => ChannelSpec
<1>1. ImConnInit => Channel!ChanInit
    BY ConnInit
<1>2. ConnInv /\ [ImConnNext]_imVars => [Channel!ChanNext]_(Channel!chanVars)
    BY ConnStep DEF ChanStep, ChanVars, Channel!chanVars
<1> QED BY <1>1, <1>2, ConnInvariant, PTL DEF ImConnSpec, ChannelSpec, Channel!ChanSpec
=============================================================================
