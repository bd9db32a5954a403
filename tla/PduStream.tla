----------------------------- MODULE PduStream ------------------------------
(***************************************************************************)
(* The bytes of PDUs: the client's copy of ImPdu, SimpleBuffer and         *)
(* ByteStream writes them, the server's copy reads them out of what the    *)
(* network delivers.  ImConn models the same connection by cells; here is  *)
(* what a cell stands for.  A body is that of AttachData.                  *)
(***************************************************************************)
EXTENDS Integers, Sequences

CONSTANTS
    Headers,      \* records of service_id, command_id and seq_num
    Attachments,  \* records of type, handle and serviceType
    ReadBufSize,  \* READ_BUF_SIZE
    MaxSent       \* bound: PDUs sent

HeaderLen == 16
Octets == {n \in Nat : n < 256}

\* The fields of a header are uint16_t, those of an attachment uint32_t.
Uint16 == {n \in Nat : n < 65536}
IsUint32(x) == x \in Nat /\ x \div 65536 \in Uint16

ASSUME PduStreamAssumption ==
    /\ ReadBufSize \in Nat \ {0} /\ MaxSent \in Nat
    /\ Headers \subseteq [service_id : Uint16, command_id : Uint16, seq_num : Uint16]
    /\ Attachments \subseteq [type : Nat, handle : Nat, serviceType : Nat]
    /\ \A a \in Attachments : IsUint32(a.type) /\ IsUint32(a.handle) /\ IsUint32(a.serviceType)

VARIABLES
    wire,      \* kernel: bytes sent and not received yet
    inBuf,     \* ImConn::inBuf_ of the receiver
    onRead,    \* ImConn::OnRead: "out" of it, in the "recv" loop or the "parse" loop
    pdusSent,  \* ghost: header and attachment of the PDUs sent
    pdusRead   \* ghost: header and attachment of the PDUs handled

pduVars == <<wire, inBuf, onRead, pdusSent, pdusRead>>

-----------------------------------------------------------------------------
\* SimpleBuffer: allocSize_ and the bytes up to writeOffset_.  A byte that was
\* never written is Unset.

Unset == 256
EmptyBuffer == [alloc |-> 0, data |-> <<>>]

\* Extend allocates a quarter more than is needed.
Extend(b, len) ==
    LET need == Len(b.data) + len IN [b EXCEPT !.alloc = need + need \div 4]

SimpleWrite(b, bytes) ==
    LET e == IF Len(b.data) + Len(bytes) > b.alloc THEN Extend(b, Len(bytes)) ELSE b IN
    [e EXCEPT !.data = @ \o bytes]

\* Mutant: what follows is dropped.
SimpleRead_All(b, len) == [b EXCEPT !.data = <<>>]

\* Read takes no more than there is and moves the rest to the front.
SimpleRead(b, len) ==
    LET n == IF len > Len(b.data) THEN Len(b.data) ELSE len IN
    [b EXCEPT !.data = SubSeq(@, n + 1, Len(@))]

-----------------------------------------------------------------------------
\* ByteStream: integers in network byte order.

WriteUint16(x) == <<x \div 256, x % 256>>
WriteUint32(x) == WriteUint16(x \div 65536) \o WriteUint16(x % 65536)
ReadUint16(bytes, at) == bytes[at + 1] * 256 + bytes[at + 2]
ReadUint32(bytes, at) == ReadUint16(bytes, at) * 65536 + ReadUint16(bytes, at + 2)

\* Bytes put into a buffer at an offset.
Put(data, at, bytes) ==
    [i \in 1..Len(data) |-> IF i > at /\ i <= at + Len(bytes) THEN bytes[i - at] ELSE data[i]]

\* AttachData writes its three integers to a SimpleBuffer, and reads them back
\* from bytes, each time only past the check of ByteStream::ReadByte.
AttachBytes(a) ==
    LET b == SimpleWrite(EmptyBuffer, WriteUint32(a.type)) IN
    SimpleWrite(SimpleWrite(b, WriteUint32(a.handle)), WriteUint32(a.serviceType)).data
AttachOf(bytes) ==
    [type |-> ReadUint32(bytes, 0), handle |-> ReadUint32(bytes, 4),
     serviceType |-> ReadUint32(bytes, 8)]

-----------------------------------------------------------------------------
\* ImPdu.

\* WriteHeader, with the version and the length of the whole PDU.
WriteHeader(data) ==
    Put(data, 0, WriteUint32(Len(data)) \o WriteUint16(1) \o WriteUint16(0) \o WriteUint16(0)
                     \o WriteUint16(0) \o WriteUint16(0) \o WriteUint16(0))

\* SetPBMsg: room for the header, the body, then the header.
SetPBMsg(body) ==
    LET room == SimpleWrite(EmptyBuffer, [i \in 1..HeaderLen |-> Unset]) IN
    WriteHeader(SimpleWrite(room, body).data)

\* SetServiceId, SetCommandId and SetSeqNum.
SetFields(data, h) ==
    Put(data, 8, WriteUint16(h.service_id) \o WriteUint16(h.command_id) \o WriteUint16(h.seq_num))

PduBytes(p) == SetFields(SetPBMsg(AttachBytes(p.attach)), p.header)

PduLen(bytes) == ReadUint32(bytes, 0)

\* IsPduAvailable.
IsAvailable(bytes) == Len(bytes) >= HeaderLen /\ PduLen(bytes) <= Len(bytes)

\* ReadPduHeader.
HeaderOf(bytes) ==
    [service_id |-> ReadUint16(bytes, 8), command_id |-> ReadUint16(bytes, 10),
     seq_num |-> ReadUint16(bytes, 12)]

-----------------------------------------------------------------------------
PduInit ==
    /\ wire = <<>>
    /\ inBuf = EmptyBuffer
    /\ onRead = "out"
    /\ pdusSent = <<>> /\ pdusRead = <<>>

SendPduBytes(p) ==
    /\ Len(pdusSent) < MaxSent
    /\ wire' = wire \o PduBytes(p)
    /\ pdusSent' = Append(pdusSent, p)
    /\ UNCHANGED <<inBuf, onRead, pdusRead>>

\* One recv of OnRead, into a buffer with room for READ_BUF_SIZE bytes.
Recv(n) ==
    LET room == IF inBuf.alloc - Len(inBuf.data) < ReadBufSize
                THEN Extend(inBuf, ReadBufSize) ELSE inBuf
    IN  /\ onRead # "parse"
        /\ n <= Len(wire)
        /\ inBuf' = [room EXCEPT !.data = @ \o SubSeq(wire, 1, n)]
        /\ wire' = SubSeq(wire, n + 1, Len(wire))
        /\ onRead' = "recv"
        /\ UNCHANGED <<pdusSent, pdusRead>>

\* What is not received yet may not have arrived.
RecvEnds ==
    /\ onRead = "recv"
    /\ onRead' = "parse"
    /\ UNCHANGED <<wire, inBuf, pdusSent, pdusRead>>

\* ReadPdu, HandlePdu, and the PDU's bytes leave inBuf_.
ReadPdu ==
    LET len == PduLen(inBuf.data)
        bytes == SubSeq(inBuf.data, 1, len)
    IN  /\ onRead = "parse"
        /\ IsAvailable(inBuf.data)
        /\ pdusRead' = Append(pdusRead, [header |-> HeaderOf(bytes),
                                         attach |-> AttachOf(SubSeq(bytes, HeaderLen + 1, len))])
        /\ inBuf' = SimpleRead(inBuf, len)
        /\ UNCHANGED <<wire, onRead, pdusSent>>

EndOnRead ==
    /\ onRead = "parse" /\ ~IsAvailable(inBuf.data)
    /\ onRead' = "out"
    /\ UNCHANGED <<wire, inBuf, pdusSent, pdusRead>>

PduNext ==
    \/ \E h \in Headers, a \in Attachments : SendPduBytes([header |-> h, attach |-> a])
    \/ \E n \in 1..ReadBufSize : Recv(n)
    \/ RecvEnds
    \/ ReadPdu
    \/ EndOnRead

PduSpec == PduInit /\ [][PduNext]_pduVars

-----------------------------------------------------------------------------
\* Whatever the receives cut the stream into, the PDUs handled are those sent, in
\* order and with the same header fields and attachment; what is left of the
\* stream starts with the next PDU, so that inBuf_ is always at the border of one;
\* no byte that was never written is sent; and inBuf_ holds no more than was
\* allocated, though OnRead receives straight into its free part.
PdusRoundTrip ==
    LET left == inBuf.data \o wire
        n == Len(pdusRead)
    IN  /\ n <= Len(pdusSent) /\ pdusRead = SubSeq(pdusSent, 1, n)
        /\ IF n = Len(pdusSent) THEN left = <<>>
           ELSE LET next == PduBytes(pdusSent[n + 1])
                IN  Len(left) >= Len(next) /\ SubSeq(left, 1, Len(next)) = next
        /\ \A i \in DOMAIN wire : wire[i] \in Octets
        /\ Len(inBuf.data) <= inBuf.alloc
=============================================================================
