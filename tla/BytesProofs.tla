---------------------------- MODULE BytesProofs -----------------------------
(***************************************************************************)
(* The two ways in which the servers keep bytes.  For every set of headers *)
(* and attachments and every cut of the stream: ImConn hands on the PDUs   *)
(* that were sent, as they were sent.  For net::Buffer, of any size and    *)
(* data of any length: its indexes stay in order, its asserts hold, and it *)
(* is a queue of bytes.                                                    *)
(***************************************************************************)
EXTENDS PduStream, NetBuffer, TLAPS

-----------------------------------------------------------------------------
(* ByteStream: what is written is read back.                               *)

\* Two sequences one after the other.
LEMMA CatFacts ==
    ASSUME NEW S, NEW s \in Seq(S), NEW t \in Seq(S)
    PROVE  /\ s \o t \in Seq(S) /\ Len(s \o t) = Len(s) + Len(t)
           /\ \A i \in 1..Len(s) : (s \o t)[i] = s[i]
           /\ \A i \in 1..Len(t) : (s \o t)[Len(s) + i] = t[i]
OBVIOUS

LEMMA CatAssoc ==
    ASSUME NEW S, NEW s \in Seq(S), NEW t \in Seq(S), NEW u \in Seq(S)
    PROVE  (s \o t) \o u = s \o (t \o u)
OBVIOUS

\* Sequences with the same elements are the same, and elements give the type.
LEMMA SameElements ==
    ASSUME NEW S, NEW s \in Seq(S), NEW t \in Seq(S), Len(s) = Len(t), \A i \in 1..Len(s) : s[i] = t[i]
    PROVE  s = t
OBVIOUS

LEMMA ElementsType ==
    ASSUME NEW S, NEW T, NEW s \in Seq(S), \A i \in 1..Len(s) : s[i] \in T
    PROVE  s \in Seq(T)
OBVIOUS

\* An integer read from the first or from the second of two sequences.
LEMMA ReadFirst16 ==
    ASSUME NEW S, NEW s \in Seq(S), NEW t \in Seq(S), NEW at \in Nat, at + 2 <= Len(s)
    PROVE  ReadUint16(s \o t, at) = ReadUint16(s, at)
<1>1. at + 1 \in 1..Len(s) /\ at + 2 \in 1..Len(s)
    OBVIOUS
<1> QED BY <1>1, CatFacts DEF ReadUint16

LEMMA ReadSecond16 ==
    ASSUME NEW S, NEW s \in Seq(S), NEW t \in Seq(S), NEW at \in Nat, at + 2 <= Len(t)
    PROVE  ReadUint16(s \o t, Len(s) + at) = ReadUint16(t, at)
<1>1. at + 1 \in 1..Len(t) /\ at + 2 \in 1..Len(t)
    OBVIOUS
<1>2. Len(s) + at + 1 = Len(s) + (at + 1) /\ Len(s) + at + 2 = Len(s) + (at + 2)
    OBVIOUS
<1>3. (s \o t)[Len(s) + (at + 1)] = t[at + 1] /\ (s \o t)[Len(s) + (at + 2)] = t[at + 2]
    BY <1>1, CatFacts
<1> QED BY <1>2, <1>3 DEF ReadUint16

LEMMA ReadFirst32 ==
    ASSUME NEW S, NEW s \in Seq(S), NEW t \in Seq(S), NEW at \in Nat, at + 4 <= Len(s)
    PROVE  ReadUint32(s \o t, at) = ReadUint32(s, at)
<1>1. at + 2 \in Nat /\ at + 2 <= Len(s) /\ (at + 2) + 2 <= Len(s)
    OBVIOUS
<1>2. ReadUint16(s \o t, at) = ReadUint16(s, at) /\ ReadUint16(s \o t, at + 2) = ReadUint16(s, at + 2)
    BY <1>1, ReadFirst16
<1> QED BY <1>2 DEF ReadUint32

LEMMA ReadSecond32 ==
    ASSUME NEW S, NEW s \in Seq(S), NEW t \in Seq(S), NEW at \in Nat, at + 4 <= Len(t)
    PROVE  ReadUint32(s \o t, Len(s) + at) = ReadUint32(t, at)
<1>1. at + 2 \in Nat /\ at + 2 <= Len(t) /\ (at + 2) + 2 <= Len(t)
    OBVIOUS
<1>2. /\ ReadUint16(s \o t, Len(s) + at) = ReadUint16(t, at)
      /\ ReadUint16(s \o t, Len(s) + (at + 2)) = ReadUint16(t, at + 2)
    BY <1>1, ReadSecond16
<1>3. Len(s) + (at + 2) = Len(s) + at + 2
    OBVIOUS
<1> QED BY <1>2, <1>3 DEF ReadUint32

\* A uint16_t is two bytes, the high one first.
LEMMA Uint16Bytes ==
    ASSUME NEW x \in Uint16
    PROVE  /\ WriteUint16(x) \in Seq(Octets) /\ Len(WriteUint16(x)) = 2
           /\ ReadUint16(WriteUint16(x), 0) = x
<1>1. x \div 256 \in Octets /\ x % 256 \in Octets /\ (x \div 256) * 256 + (x % 256) = x
    BY DEF Uint16, Octets
<1>2. ReadUint16(WriteUint16(x), 0) = (x \div 256) * 256 + (x % 256)
    BY DEF ReadUint16, WriteUint16
<1> QED BY <1>1, <1>2 DEF WriteUint16

\* A uint32_t is four.
LEMMA Uint32Bytes ==
    ASSUME NEW x, IsUint32(x)
    PROVE  /\ WriteUint32(x) \in Seq(Octets) /\ Len(WriteUint32(x)) = 4
           /\ ReadUint32(WriteUint32(x), 0) = x
<1> DEFINE hi == x \div 65536
           lo == x % 65536
           s == WriteUint16(hi)
           t == WriteUint16(lo)
<1>1. hi \in Uint16 /\ lo \in Uint16 /\ hi * 65536 + lo = x
    BY DEF IsUint32, Uint16
<1>2. WriteUint32(x) = s \o t
    BY DEF WriteUint32
<1> HIDE DEF hi, lo
<1>3. s \in Seq(Octets) /\ Len(s) = 2 /\ t \in Seq(Octets) /\ Len(t) = 2
    BY <1>1, Uint16Bytes
<1>4. ReadUint16(s, 0) = hi /\ ReadUint16(t, 0) = lo
    BY <1>1, Uint16Bytes
<1> HIDE DEF s, t
<1>5. s \o t \in Seq(Octets) /\ Len(s \o t) = 4
    BY <1>3, CatFacts
<1>6. ReadUint16(s \o t, 0) = hi
    <2>1. 0 \in Nat /\ 0 + 2 <= Len(s) /\ s \in Seq(Octets) /\ t \in Seq(Octets)
        BY <1>3
    <2>2. ReadUint16(s \o t, 0) = ReadUint16(s, 0)
        BY ONLY <2>1, ReadFirst16
    <2> QED BY <2>2, <1>4
<1>7. ReadUint16(s \o t, Len(s) + 0) = lo
    <2>1. 0 \in Nat /\ 0 + 2 <= Len(t) /\ s \in Seq(Octets) /\ t \in Seq(Octets)
        BY <1>3
    <2>2. ReadUint16(s \o t, Len(s) + 0) = ReadUint16(t, 0)
        BY ONLY <2>1, ReadSecond16
    <2> QED BY <2>2, <1>4
<1>8. ReadUint16(s \o t, 0 + 2) = lo
    BY <1>3, <1>7
<1>9. ReadUint32(s \o t, 0) = hi * 65536 + lo
    BY <1>6, <1>8 DEF ReadUint32
<1> QED BY <1>1, <1>2, <1>5, <1>9

\* Writing one more integer behind k bytes.
LEMMA Append16 ==
    ASSUME NEW s \in Seq(Octets), NEW x \in Uint16
    PROVE  /\ s \o WriteUint16(x) \in Seq(Octets) /\ Len(s \o WriteUint16(x)) = Len(s) + 2
           /\ ReadUint16(s \o WriteUint16(x), Len(s)) = x
           /\ \A at \in Nat : at + 2 <= Len(s) => ReadUint16(s \o WriteUint16(x), at) = ReadUint16(s, at)
           /\ \A at \in Nat : at + 4 <= Len(s) => ReadUint32(s \o WriteUint16(x), at) = ReadUint32(s, at)
<1> DEFINE t == WriteUint16(x)
<1>1. t \in Seq(Octets) /\ Len(t) = 2 /\ ReadUint16(t, 0) = x
    BY Uint16Bytes
<1> HIDE DEF t
<1>2. s \o t \in Seq(Octets) /\ Len(s \o t) = Len(s) + 2
    <2>1. t \in Seq(Octets) /\ s \in Seq(Octets)
        BY <1>1
    <2>2. s \o t \in Seq(Octets) /\ Len(s \o t) = Len(s) + Len(t)
        BY ONLY <2>1, CatFacts
    <2> QED BY <1>1, <2>2
<1>3. ReadUint16(s \o t, Len(s)) = x
    <2>1. 0 \in Nat /\ 0 + 2 <= Len(t) /\ Len(s) + 0 = Len(s) /\ s \in Seq(Octets) /\ t \in Seq(Octets)
        BY <1>1
    <2>2. ReadUint16(s \o t, Len(s) + 0) = ReadUint16(t, 0)
        BY ONLY <2>1, ReadSecond16
    <2> QED BY <1>1, <2>1, <2>2
<1>4. ASSUME NEW at \in Nat, at + 2 <= Len(s) PROVE ReadUint16(s \o t, at) = ReadUint16(s, at)
    BY <1>1, <1>4, ReadFirst16
<1>5. ASSUME NEW at \in Nat, at + 4 <= Len(s) PROVE ReadUint32(s \o t, at) = ReadUint32(s, at)
    BY <1>1, <1>5, ReadFirst32
<1> QED BY <1>2, <1>3, <1>4, <1>5 DEF t

LEMMA Append32 ==
    ASSUME NEW s \in Seq(Octets), NEW x, IsUint32(x)
    PROVE  /\ s \o WriteUint32(x) \in Seq(Octets) /\ Len(s \o WriteUint32(x)) = Len(s) + 4
           /\ ReadUint32(s \o WriteUint32(x), Len(s)) = x
           /\ \A at \in Nat : at + 4 <= Len(s) => ReadUint32(s \o WriteUint32(x), at) = ReadUint32(s, at)
<1> DEFINE t == WriteUint32(x)
<1>1. t \in Seq(Octets) /\ Len(t) = 4 /\ ReadUint32(t, 0) = x
    BY Uint32Bytes
<1> HIDE DEF t
<1>2. s \o t \in Seq(Octets) /\ Len(s \o t) = Len(s) + 4
    <2>1. t \in Seq(Octets) /\ s \in Seq(Octets)
        BY <1>1
    <2>2. s \o t \in Seq(Octets) /\ Len(s \o t) = Len(s) + Len(t)
        BY ONLY <2>1, CatFacts
    <2> QED BY <1>1, <2>2
<1>3. ReadUint32(s \o t, Len(s)) = x
    <2>1. 0 \in Nat /\ 0 + 4 <= Len(t) /\ Len(s) + 0 = Len(s) /\ s \in Seq(Octets) /\ t \in Seq(Octets)
        BY <1>1
    <2>2. ReadUint32(s \o t, Len(s) + 0) = ReadUint32(t, 0)
        BY ONLY <2>1, ReadSecond32
    <2> QED BY <1>1, <2>1, <2>2
<1>4. ASSUME NEW at \in Nat, at + 4 <= Len(s) PROVE ReadUint32(s \o t, at) = ReadUint32(s, at)
    BY <1>1, <1>4, ReadFirst32
<1> QED BY <1>2, <1>3, <1>4 DEF t

-----------------------------------------------------------------------------
(* AttachData and ImPdu: what a PDU's bytes are.                           *)

\* SimpleBuffer::Write appends, whether or not it has to extend.
LEMMA SimpleWriteData ==
    ASSUME NEW b, b \in [alloc : Int, data : Seq(Nat)], NEW bytes \in Seq(Nat)
    PROVE  /\ SimpleWrite(b, bytes).data = b.data \o bytes
           /\ SimpleWrite(b, bytes) \in [alloc : Int, data : Seq(Nat)]
<1> DEFINE need == Len(b.data) + Len(bytes)
           grown == [b EXCEPT !.alloc = need + need \div 4]
<1>1. need + need \div 4 \in Int
    OBVIOUS
<1>2. grown.data = b.data /\ grown \in [alloc : Int, data : Seq(Nat)]
    BY <1>1
<1>3. b.data \o bytes \in Seq(Nat)
    BY CatFacts
<1> HIDE DEF grown
<1>4. ASSUME NEW e \in [alloc : Int, data : Seq(Nat)], e.data = b.data
      PROVE  /\ [e EXCEPT !.data = @ \o bytes].data = b.data \o bytes
             /\ [e EXCEPT !.data = @ \o bytes] \in [alloc : Int, data : Seq(Nat)]
    BY <1>3, <1>4
<1>5. \E e \in {b, grown} : SimpleWrite(b, bytes) = [e EXCEPT !.data = @ \o bytes]
    BY DEF SimpleWrite, Extend, grown
<1> QED BY <1>2, <1>4, <1>5

LEMMA OctetsNat == Seq(Octets) \subseteq Seq(Nat)
BY DEF Octets

\* AttachData's three integers are read back.
LEMMA AttachRoundTrip ==
    ASSUME NEW a \in Attachments
    PROVE  /\ AttachBytes(a) \in Seq(Octets) /\ Len(AttachBytes(a)) = 12
           /\ AttachOf(AttachBytes(a)) = a
<1>1. /\ IsUint32(a.type) /\ IsUint32(a.handle) /\ IsUint32(a.serviceType)
      /\ a = [type |-> a.type, handle |-> a.handle, serviceType |-> a.serviceType]
    BY PduStreamAssumption
<1> DEFINE t == WriteUint32(a.type)
           u == t \o WriteUint32(a.handle)
           v == u \o WriteUint32(a.serviceType)
<1>2. t \in Seq(Octets) /\ Len(t) = 4 /\ ReadUint32(t, 0) = a.type
    BY <1>1, Uint32Bytes
<1>3. WriteUint32(a.handle) \in Seq(Octets) /\ WriteUint32(a.serviceType) \in Seq(Octets)
    BY <1>1, Uint32Bytes
<1>4. u \in Seq(Octets) /\ Len(u) = 4 + 4 /\ ReadUint32(u, 4) = a.handle /\ ReadUint32(u, 0) = a.type
    <2> HIDE DEF t
    <2>1. /\ u \in Seq(Octets) /\ Len(u) = Len(t) + 4 /\ ReadUint32(u, Len(t)) = a.handle
          /\ \A at \in Nat : at + 4 <= Len(t) => ReadUint32(u, at) = ReadUint32(t, at)
        <3>1. t \in Seq(Octets) /\ IsUint32(a.handle)
            BY <1>1, <1>2
        <3> QED BY ONLY <3>1, Append32
    <2>2. 0 \in Nat /\ 0 + 4 <= Len(t)
        BY <1>2
    <2> HIDE DEF u
    <2> QED BY <1>2, <2>1, <2>2
<1>5. /\ v \in Seq(Octets) /\ Len(v) = 8 + 4 /\ ReadUint32(v, 8) = a.serviceType
      /\ ReadUint32(v, 4) = a.handle /\ ReadUint32(v, 0) = a.type
    <2> HIDE DEF u
    <2>1. /\ v \in Seq(Octets) /\ Len(v) = Len(u) + 4 /\ ReadUint32(v, Len(u)) = a.serviceType
          /\ \A at \in Nat : at + 4 <= Len(u) => ReadUint32(v, at) = ReadUint32(u, at)
        <3>1. u \in Seq(Octets) /\ IsUint32(a.serviceType)
            BY <1>1, <1>4
        <3> QED BY ONLY <3>1, Append32
    <2>2. Len(u) = 8 /\ 0 \in Nat /\ 0 + 4 <= Len(u) /\ 4 \in Nat /\ 4 + 4 <= Len(u)
        BY <1>4
    <2> HIDE DEF v
    <2> QED BY <1>4, <2>1, <2>2
<1>6. AttachBytes(a) = v
    <2>1. EmptyBuffer \in [alloc : Int, data : Seq(Nat)] /\ EmptyBuffer.data \o t = t
        BY <1>2 DEF EmptyBuffer
    <2> DEFINE b == SimpleWrite(EmptyBuffer, t)
    <2>2. b \in [alloc : Int, data : Seq(Nat)] /\ b.data = t
        BY <1>2, <2>1, SimpleWriteData, OctetsNat
    <2> DEFINE c == SimpleWrite(b, WriteUint32(a.handle))
    <2>3. c \in [alloc : Int, data : Seq(Nat)] /\ c.data = u
        <3> HIDE DEF b, t
        <3> QED BY <1>3, <2>2, SimpleWriteData, OctetsNat
    <2>4. SimpleWrite(c, WriteUint32(a.serviceType)).data = v
        <3> HIDE DEF c, u
        <3> QED BY <1>3, <2>3, SimpleWriteData, OctetsNat
    <2> QED BY <2>4 DEF AttachBytes
<1> HIDE DEF v
<1> QED BY <1>1, <1>5, <1>6 DEF AttachOf

\* Equal bytes read as equal integers.
LEMMA SameRead16 ==
    ASSUME NEW s, NEW t, NEW at, NEW bt, s[at + 1] = t[bt + 1], s[at + 2] = t[bt + 2]
    PROVE  ReadUint16(s, at) = ReadUint16(t, bt)
BY DEF ReadUint16

LEMMA SameRead32 ==
    ASSUME NEW s, NEW t, NEW at \in Nat, \A j \in 1..4 : s[at + j] = t[at + j]
    PROVE  ReadUint32(s, at) = ReadUint32(t, at)
<1>1. s[at + 1] = t[at + 1] /\ s[at + 2] = t[at + 2] /\ s[at + 3] = t[at + 3] /\ s[at + 4] = t[at + 4]
    OBVIOUS
<1>2. (at + 2) + 1 = at + 3 /\ (at + 2) + 2 = at + 4
    OBVIOUS
<1>3. ReadUint16(s, at) = ReadUint16(t, at)
    BY <1>1, SameRead16
<1>4. ReadUint16(s, at + 2) = ReadUint16(t, at + 2)
    BY <1>1, <1>2, SameRead16
<1> QED BY <1>3, <1>4 DEF ReadUint32

\* Bytes put into a buffer replace as many, and change no other.
LEMMA PutFacts ==
    ASSUME NEW data \in Seq(Nat), NEW at \in Nat, NEW bytes \in Seq(Octets), at + Len(bytes) <= Len(data)
    PROVE  /\ Put(data, at, bytes) \in Seq(Nat) /\ Len(Put(data, at, bytes)) = Len(data)
           /\ \A i \in 1..Len(data) : i <= at \/ i > at + Len(bytes) => Put(data, at, bytes)[i] = data[i]
           /\ \A i \in 1..Len(bytes) : Put(data, at, bytes)[at + i] = bytes[i]
<1>1. bytes \in Seq(Nat) /\ Len(bytes) \in Nat /\ Len(data) \in Nat
    BY OctetsNat
<1>2. \A i \in 1..Len(data) :
          (IF i > at /\ i <= at + Len(bytes) THEN bytes[i - at] ELSE data[i]) \in Nat
    <2> SUFFICES ASSUME NEW i \in 1..Len(data), i > at, i <= at + Len(bytes) PROVE bytes[i - at] \in Nat
        OBVIOUS
    <2>1. i - at \in 1..Len(bytes)
        BY <1>1
    <2> QED BY <1>1, <2>1
<1>3. Put(data, at, bytes) \in Seq(Nat) /\ Len(Put(data, at, bytes)) = Len(data)
    BY <1>1, <1>2 DEF Put
<1>4. \A i \in 1..Len(data) : i <= at \/ i > at + Len(bytes) => Put(data, at, bytes)[i] = data[i]
    BY <1>1 DEF Put
<1>5. ASSUME NEW i \in 1..Len(bytes) PROVE Put(data, at, bytes)[at + i] = bytes[i]
    <2> DEFINE j == at + i
    <2>1. j \in 1..Len(data) /\ j > at /\ j <= at + Len(bytes) /\ j - at = i
        BY <1>1
    <2> HIDE DEF j
    <2>2. Put(data, at, bytes)[j] = bytes[j - at]
        BY <2>1 DEF Put
    <2> QED BY <2>1, <2>2 DEF j
<1> QED BY <1>3, <1>4, <1>5

\* The header that WriteHeader writes, and the fields that are set in it later.
HeaderBytes(n) ==
    WriteUint32(n) \o WriteUint16(1) \o WriteUint16(0) \o WriteUint16(0)
        \o WriteUint16(0) \o WriteUint16(0) \o WriteUint16(0)
FieldBytes(h) == WriteUint16(h.service_id) \o WriteUint16(h.command_id) \o WriteUint16(h.seq_num)

\* The first k bytes of the header of a PDU of n bytes.
HeadOf(s, n, k) == s \in Seq(Octets) /\ Len(s) = k /\ ReadUint32(s, 0) = n

\* One more uint16_t of the header leaves the length in front as it is.
LEMMA Lengthen ==
    ASSUME NEW s, NEW n, NEW k \in Nat, 4 <= k, HeadOf(s, n, k), NEW x \in Uint16
    PROVE  HeadOf(s \o WriteUint16(x), n, k + 2)
<1>1. s \in Seq(Octets) /\ Len(s) = k /\ ReadUint32(s, 0) = n
    BY DEF HeadOf
<1>2. /\ s \o WriteUint16(x) \in Seq(Octets) /\ Len(s \o WriteUint16(x)) = Len(s) + 2
      /\ \A at \in Nat : at + 4 <= Len(s) => ReadUint32(s \o WriteUint16(x), at) = ReadUint32(s, at)
    BY <1>1, Append16
<1>3. 0 \in Nat /\ 0 + 4 <= Len(s)
    BY <1>1
<1> QED BY <1>1, <1>2, <1>3 DEF HeadOf

LEMMA HeaderFacts ==
    ASSUME NEW n, IsUint32(n)
    PROVE  HeadOf(HeaderBytes(n), n, 16)
<1> DEFINE a == WriteUint32(n)
           b == a \o WriteUint16(1)
           c == b \o WriteUint16(0)
           d == c \o WriteUint16(0)
           e == d \o WriteUint16(0)
           f == e \o WriteUint16(0)
           g == f \o WriteUint16(0)
<1>1. 0 \in Uint16 /\ 1 \in Uint16
    BY DEF Uint16
<1>2. HeadOf(a, n, 4)
    BY Uint32Bytes DEF HeadOf
<1> HIDE DEF a
<1>3. HeadOf(b, n, 4 + 2)
    BY <1>1, <1>2, Lengthen
<1> HIDE DEF b
<1>4. HeadOf(c, n, 6 + 2)
    BY <1>1, <1>3, Lengthen
<1> HIDE DEF c
<1>5. HeadOf(d, n, 8 + 2)
    BY <1>1, <1>4, Lengthen
<1> HIDE DEF d
<1>6. HeadOf(e, n, 10 + 2)
    BY <1>1, <1>5, Lengthen
<1> HIDE DEF e
<1>7. HeadOf(f, n, 12 + 2)
    BY <1>1, <1>6, Lengthen
<1> HIDE DEF f
<1>8. HeadOf(g, n, 14 + 2)
    BY <1>1, <1>7, Lengthen
<1> HIDE DEF g
<1>9. HeaderBytes(n) = g
    BY DEF HeaderBytes, a, b, c, d, e, f, g
<1> QED BY <1>8, <1>9

LEMMA FieldFacts ==
    ASSUME NEW h \in Headers
    PROVE  /\ FieldBytes(h) \in Seq(Octets) /\ Len(FieldBytes(h)) = 6
           /\ ReadUint16(FieldBytes(h), 0) = h.service_id
           /\ ReadUint16(FieldBytes(h), 2) = h.command_id
           /\ ReadUint16(FieldBytes(h), 4) = h.seq_num
<1>1. h.service_id \in Uint16 /\ h.command_id \in Uint16 /\ h.seq_num \in Uint16
    BY PduStreamAssumption
<1> DEFINE s == WriteUint16(h.service_id)
           t == s \o WriteUint16(h.command_id)
           u == t \o WriteUint16(h.seq_num)
<1>2. s \in Seq(Octets) /\ Len(s) = 2 /\ ReadUint16(s, 0) = h.service_id
    BY <1>1, Uint16Bytes
<1> HIDE DEF s
<1>3. /\ t \in Seq(Octets) /\ Len(t) = 4
      /\ ReadUint16(t, 0) = h.service_id /\ ReadUint16(t, 2) = h.command_id
    <2>1. /\ t \in Seq(Octets) /\ Len(t) = Len(s) + 2 /\ ReadUint16(t, Len(s)) = h.command_id
          /\ \A at \in Nat : at + 2 <= Len(s) => ReadUint16(t, at) = ReadUint16(s, at)
        <3>1. s \in Seq(Octets) /\ h.command_id \in Uint16
            BY <1>1, <1>2
        <3> QED BY ONLY <3>1, Append16
    <2>2. 0 \in Nat /\ 0 + 2 <= Len(s)
        BY <1>2
    <2> HIDE DEF t
    <2> QED BY <1>2, <2>1, <2>2
<1> HIDE DEF t
<1>4. /\ u \in Seq(Octets) /\ Len(u) = 6 /\ ReadUint16(u, 4) = h.seq_num
      /\ ReadUint16(u, 0) = h.service_id /\ ReadUint16(u, 2) = h.command_id
    <2>1. /\ u \in Seq(Octets) /\ Len(u) = Len(t) + 2 /\ ReadUint16(u, Len(t)) = h.seq_num
          /\ \A at \in Nat : at + 2 <= Len(t) => ReadUint16(u, at) = ReadUint16(t, at)
        <3>1. t \in Seq(Octets) /\ h.seq_num \in Uint16
            BY <1>1, <1>3
        <3> QED BY ONLY <3>1, Append16
    <2>2. 0 \in Nat /\ 0 + 2 <= Len(t) /\ 2 \in Nat /\ 2 + 2 <= Len(t)
        BY <1>3
    <2> HIDE DEF u
    <2> QED BY <1>3, <2>1, <2>2
<1> HIDE DEF u
<1>5. FieldBytes(h) = u
    BY DEF FieldBytes, s, t, u
<1> QED BY <1>4, <1>5

\* A header put in front of a body, and fields put into the header.
Framed(room, body, head, at, fields) == Put(Put(room \o body, 0, head), at, fields)

LEMMA FramedFacts ==
    ASSUME NEW room \in Seq(Nat), NEW body \in Seq(Octets), NEW head \in Seq(Octets),
           NEW fields \in Seq(Octets), NEW at \in Nat,
           Len(head) = Len(room), at + Len(fields) <= Len(head),
           NEW all, all = Framed(room, body, head, at, fields)
    PROVE  /\ all \in Seq(Octets) /\ Len(all) = Len(head) + Len(body)
           /\ \A i \in 1..at : all[i] = head[i]
           /\ \A i \in 1..Len(fields) : all[at + i] = fields[i]
           /\ SubSeq(all, Len(head) + 1, Len(all)) = body
<1> DEFINE empty == room \o body
           filled == Put(empty, 0, head)
           n == Len(head) + Len(body)
<1>1. /\ empty \in Seq(Nat) /\ Len(empty) = n
      /\ \A i \in 1..Len(body) : empty[Len(head) + i] = body[i]
    <2>1. body \in Seq(Nat)
        BY OctetsNat
    <2>2. /\ empty \in Seq(Nat) /\ Len(empty) = Len(room) + Len(body)
          /\ \A i \in 1..Len(body) : empty[Len(room) + i] = body[i]
        BY <2>1, CatFacts
    <2> HIDE DEF empty
    <2> QED BY <2>2
<1>2. Len(head) \in Nat /\ Len(body) \in Nat /\ Len(fields) \in Nat /\ n \in Nat
    OBVIOUS
<1> HIDE DEF empty, n
<1>3. /\ filled \in Seq(Nat) /\ Len(filled) = n
      /\ \A i \in 1..n : i > Len(head) => filled[i] = empty[i]
      /\ \A i \in 1..Len(head) : filled[0 + i] = head[i]
    <2>1. 0 \in Nat /\ 0 + Len(head) <= Len(empty)
        BY <1>1, <1>2 DEF n
    <2>2. /\ filled \in Seq(Nat) /\ Len(filled) = Len(empty)
          /\ \A i \in 1..Len(empty) : i <= 0 \/ i > 0 + Len(head) => filled[i] = empty[i]
          /\ \A i \in 1..Len(head) : filled[0 + i] = head[i]
        BY <1>1, <2>1, PutFacts
    <2> HIDE DEF filled
    <2> QED BY <1>1, <1>2, <2>2
<1> HIDE DEF filled
<1>4. /\ all \in Seq(Nat) /\ Len(all) = n
      /\ \A i \in 1..n : i <= at \/ i > at + Len(fields) => all[i] = filled[i]
      /\ \A i \in 1..Len(fields) : all[at + i] = fields[i]
    <2>1. filled \in Seq(Nat) /\ at + Len(fields) <= Len(filled)
        <3>1. Len(head) <= Len(filled) /\ Len(filled) \in Nat
            BY <1>2, <1>3 DEF n
        <3>2. at + Len(fields) <= Len(filled)
            BY <1>2, <3>1
        <3> QED BY <1>3, <3>2
    <2>2. all = Put(filled, at, fields)
        BY DEF Framed, filled, empty
    <2>3. /\ Put(filled, at, fields) \in Seq(Nat) /\ Len(Put(filled, at, fields)) = Len(filled)
          /\ \A i \in 1..Len(filled) :
                 i <= at \/ i > at + Len(fields) => Put(filled, at, fields)[i] = filled[i]
          /\ \A i \in 1..Len(fields) : Put(filled, at, fields)[at + i] = fields[i]
        BY <2>1, PutFacts
    <2> QED BY <1>3, <2>2, <2>3
<1>5. \A i \in 1..Len(head) : i <= at \/ i > at + Len(fields) => all[i] = head[i]
    <2> SUFFICES ASSUME NEW i \in 1..Len(head), i <= at \/ i > at + Len(fields) PROVE all[i] = head[i]
        OBVIOUS
    <2>1. i \in 1..n
        BY <1>2 DEF n
    <2> QED BY <1>3, <1>4, <2>1
<1>6. \A i \in 1..Len(body) : all[Len(head) + i] = body[i]
    <2> SUFFICES ASSUME NEW i \in 1..Len(body) PROVE all[Len(head) + i] = body[i]
        OBVIOUS
    <2> DEFINE j == Len(head) + i
    <2>1. j \in 1..n /\ j > Len(head) /\ j > at + Len(fields)
        BY <1>2 DEF n
    <2>2. empty[j] = body[i]
        BY <1>1
    <2> HIDE DEF j
    <2>3. all[j] = empty[j]
        BY <1>3, <1>4, <2>1
    <2> QED BY <2>2, <2>3 DEF j
<1>7. ASSUME NEW j \in 1..n PROVE all[j] \in Octets
    <2>4. /\ \A i \in 1..Len(head) : head[i] \in Octets
          /\ \A i \in 1..Len(body) : body[i] \in Octets
          /\ \A i \in 1..Len(fields) : fields[i] \in Octets
        OBVIOUS
    <2>1. CASE j > Len(head)
        <3>1. j - Len(head) \in 1..Len(body) /\ Len(head) + (j - Len(head)) = j
            BY <1>2, <2>1 DEF n
        <3>2. all[j] = body[j - Len(head)]
            BY <1>6, <3>1
        <3> QED BY ONLY <2>4, <3>1, <3>2
    <2>2. CASE j > at /\ j <= at + Len(fields)
        <3>1. j - at \in 1..Len(fields) /\ at + (j - at) = j
            BY <1>2, <2>2
        <3>2. all[j] = fields[j - at]
            BY <1>4, <3>1
        <3> QED BY ONLY <2>4, <3>1, <3>2
    <2>3. CASE j <= Len(head) /\ (j <= at \/ j > at + Len(fields))
        <3>1. j \in 1..Len(head)
            BY <1>2, <2>3
        <3>2. all[j] = head[j]
            BY <1>5, <2>3, <3>1
        <3> QED BY ONLY <2>4, <3>1, <3>2
    <2>5. j \in Int
        BY <1>2
    <2> QED BY <1>2, <2>1, <2>2, <2>3, <2>5
<1>8. all \in Seq(Octets)
    BY <1>4, <1>7, ElementsType
<1>9. SubSeq(all, Len(head) + 1, Len(all)) = body
    <2> DEFINE rest == SubSeq(all, Len(head) + 1, n)
    <2>1. rest \in Seq(Octets) /\ Len(rest) = Len(body)
        BY <1>2, <1>4, <1>8 DEF n
    <2>2. ASSUME NEW i \in 1..Len(body) PROVE rest[i] = body[i]
        <3>1. rest[i] = all[Len(head) + i]
            BY <1>2, <1>4, <1>8 DEF n
        <3> QED BY <1>6, <3>1
    <2> HIDE DEF rest
    <2>3. rest = body
        BY <2>1, <2>2, SameElements
    <2> QED BY <1>4, <2>3 DEF rest
<1>10. \A i \in 1..at : all[i] = head[i]
    BY <1>2, <1>5
<1> QED BY <1>4, <1>8, <1>9, <1>10 DEF n

\* A PDU is 28 bytes, all of them written, and reads back as it was.
Pdus == [header : Headers, attach : Attachments]
PduSize == 28
FieldsAt == 8

LEMMA PduBytesFacts ==
    ASSUME NEW p \in Pdus
    PROVE  /\ PduBytes(p) \in Seq(Octets) /\ Len(PduBytes(p)) = PduSize
           /\ PduLen(PduBytes(p)) = PduSize
           /\ HeaderOf(PduBytes(p)) = p.header
           /\ AttachOf(SubSeq(PduBytes(p), HeaderLen + 1, PduSize)) = p.attach
<1> DEFINE room == [i \in 1..HeaderLen |-> Unset]
           body == AttachBytes(p.attach)
           head == HeaderBytes(PduSize)
           fields == FieldBytes(p.header)
           empty == room \o body
           all == Framed(room, body, head, FieldsAt, fields)
<1>1. p.header \in Headers /\ p.attach \in Attachments
    BY DEF Pdus
<1>2. body \in Seq(Octets) /\ Len(body) = 12 /\ AttachOf(body) = p.attach
    BY <1>1, AttachRoundTrip
<1>3. room \in Seq(Nat) /\ Len(room) = HeaderLen
    BY DEF Unset, HeaderLen
<1>4. head \in Seq(Octets) /\ Len(head) = HeaderLen /\ ReadUint32(head, 0) = PduSize
    <2>1. IsUint32(PduSize)
        BY DEF IsUint32, Uint16, PduSize
    <2> QED BY <2>1, HeaderFacts DEF HeadOf, HeaderLen
<1>5. /\ fields \in Seq(Octets) /\ Len(fields) = 6 /\ ReadUint16(fields, 0) = p.header.service_id
      /\ ReadUint16(fields, 2) = p.header.command_id /\ ReadUint16(fields, 4) = p.header.seq_num
    BY <1>1, FieldFacts
<1> HIDE DEF room, body, head, fields
<1>6. /\ all \in Seq(Octets) /\ Len(all) = Len(head) + Len(body)
      /\ \A i \in 1..FieldsAt : all[i] = head[i]
      /\ \A i \in 1..Len(fields) : all[FieldsAt + i] = fields[i]
      /\ SubSeq(all, Len(head) + 1, Len(all)) = body
    <2>1. Len(head) = Len(room) /\ FieldsAt \in Nat /\ FieldsAt + Len(fields) <= Len(head)
        BY <1>3, <1>4, <1>5 DEF HeaderLen, FieldsAt
    <2>2. room \in Seq(Nat) /\ body \in Seq(Octets) /\ head \in Seq(Octets) /\ fields \in Seq(Octets)
        BY <1>2, <1>3, <1>4, <1>5
    <2> QED BY ONLY <2>1, <2>2, FramedFacts
<1>7. Len(empty) = PduSize
    <2>1. room \in Seq(Nat) /\ body \in Seq(Nat)
        BY <1>2, <1>3, OctetsNat
    <2>2. Len(empty) = Len(room) + Len(body)
        BY ONLY <2>1, CatFacts
    <2> QED BY <1>2, <1>3, <2>2 DEF HeaderLen, PduSize
<1>8. PduBytes(p) = all
    <2>1. EmptyBuffer \in [alloc : Int, data : Seq(Nat)] /\ EmptyBuffer.data \o room = room
        BY <1>3 DEF EmptyBuffer
    <2> DEFINE b == SimpleWrite(EmptyBuffer, room)
    <2>2. b \in [alloc : Int, data : Seq(Nat)] /\ b.data = room
        BY <1>3, <2>1, SimpleWriteData
    <2>3. body \in Seq(Nat)
        BY <1>2, OctetsNat
    <2>4. SimpleWrite(b, body).data = empty
        <3> HIDE DEF b, empty
        <3>1. SimpleWrite(b, body).data = b.data \o body
            BY <2>2, <2>3, SimpleWriteData
        <3> QED BY <2>2, <3>1 DEF empty
    <2> HIDE DEF empty
    <2>5. SetPBMsg(body) = WriteHeader(empty)
        BY <2>4 DEF SetPBMsg, room
    <2>6. WriteHeader(empty) = Put(empty, 0, head)
        BY <1>7 DEF WriteHeader, head, HeaderBytes
    <2> QED BY <2>5, <2>6 DEF PduBytes, SetFields, Framed, FieldsAt, empty, fields, FieldBytes, body
<1> HIDE DEF all
<1>9. PduLen(all) = PduSize
    <2>1. \A j \in 1..4 : all[0 + j] = head[0 + j]
        BY <1>6 DEF FieldsAt
    <2> QED BY <1>4, <2>1, SameRead32 DEF PduLen
<1>10. HeaderOf(all) = p.header
    <2>1. all[8 + 1] = fields[0 + 1] /\ all[8 + 2] = fields[0 + 2]
        BY <1>5, <1>6 DEF FieldsAt
    <2>2. all[8 + 3] = fields[2 + 1] /\ all[8 + 4] = fields[2 + 2]
        BY <1>5, <1>6 DEF FieldsAt
    <2>3. all[8 + 5] = fields[4 + 1] /\ all[8 + 6] = fields[4 + 2]
        BY <1>5, <1>6 DEF FieldsAt
    <2>4. /\ ReadUint16(all, 8) = p.header.service_id /\ ReadUint16(all, 10) = p.header.command_id
          /\ ReadUint16(all, 12) = p.header.seq_num
        BY <1>5, <2>1, <2>2, <2>3 DEF ReadUint16
    <2>5. p.header = [service_id |-> p.header.service_id, command_id |-> p.header.command_id,
                      seq_num |-> p.header.seq_num]
        BY <1>1, PduStreamAssumption
    <2> QED BY <2>4, <2>5 DEF HeaderOf
<1>11. Len(all) = PduSize /\ Len(head) = HeaderLen
    BY <1>2, <1>4, <1>6 DEF HeaderLen, PduSize
<1> QED BY <1>2, <1>6, <1>8, <1>9, <1>10, <1>11

-----------------------------------------------------------------------------
(* ImConn::OnRead: the stream is cut into PDUs where it was put together.  *)

\* The bytes that have been sent and not handled yet.
Left == inBuf.data \o wire

PduTypeOK ==
    /\ wire \in Seq(Octets)
    /\ inBuf \in [alloc : Int, data : Seq(Octets)]
    /\ pdusSent \in Seq(Pdus) /\ pdusRead \in Seq(Pdus)

\* The PDUs handled are the first of those sent.
ReadInOrder ==
    /\ Len(pdusRead) <= Len(pdusSent)
    /\ \A i \in 1..Len(pdusRead) : pdusRead[i] = pdusSent[i]

\* What is left is the bytes of the others, one behind the other.
LeftIsUnread ==
    /\ Len(Left) = PduSize * (Len(pdusSent) - Len(pdusRead))
    /\ \A k \in Nat, j \in 1..PduSize :
           k < Len(pdusSent) - Len(pdusRead) =>
               Left[PduSize * k + j] = PduBytes(pdusSent[Len(pdusRead) + 1 + k])[j]

PduInv == PduTypeOK /\ ReadInOrder /\ LeftIsUnread /\ Len(inBuf.data) <= inBuf.alloc

LEMMA LeftFacts ==
    ASSUME PduTypeOK
    PROVE  /\ Left \in Seq(Octets) /\ Len(Left) = Len(inBuf.data) + Len(wire)
           /\ \A i \in 1..Len(inBuf.data) : Left[i] = inBuf.data[i]
           /\ \A i \in 1..Len(wire) : Left[Len(inBuf.data) + i] = wire[i]
BY CatFacts DEF PduTypeOK, Left

LEMMA PduInitInv == PduInit => PduInv
<1> SUFFICES ASSUME PduInit PROVE PduInv
    OBVIOUS
<1>1. /\ wire = <<>> /\ inBuf = [alloc |-> 0, data |-> <<>>]
      /\ pdusSent = <<>> /\ pdusRead = <<>>
    BY DEF PduInit, EmptyBuffer
<1>2. PduTypeOK
    BY <1>1 DEF PduTypeOK
<1>3. Len(pdusSent) = 0 /\ Len(pdusRead) = 0 /\ Len(wire) = 0 /\ Len(inBuf.data) = 0 /\ inBuf.alloc = 0
    BY <1>1
<1>4. Len(Left) = 0
    BY <1>2, <1>3, LeftFacts
<1> QED BY <1>2, <1>3, <1>4 DEF PduInv, ReadInOrder, LeftIsUnread, PduSize

LEMMA SendStep ==
    ASSUME PduInv, NEW p \in Pdus, SendPduBytes(p)
    PROVE  PduInv'
<1> DEFINE n == Len(pdusRead)
           m == Len(pdusSent)
           b == PduBytes(p)
<1>1. /\ wire' = wire \o b /\ pdusSent' = Append(pdusSent, p)
      /\ inBuf' = inBuf /\ pdusRead' = pdusRead
    BY DEF SendPduBytes
<1>2. b \in Seq(Octets) /\ Len(b) = PduSize
    BY PduBytesFacts
<1>3. PduTypeOK
    BY DEF PduInv
<1>4. PduTypeOK'
    BY <1>1, <1>2, <1>3, CatFacts DEF PduTypeOK
<1>5. /\ m \in Nat /\ n \in Nat /\ n <= m /\ Len(pdusSent') = m + 1 /\ pdusSent'[m + 1] = p
      /\ \A i \in 1..m : pdusSent'[i] = pdusSent[i]
    BY <1>1, <1>3 DEF PduTypeOK, PduInv, ReadInOrder
<1>6. ReadInOrder'
    BY <1>1, <1>3, <1>5 DEF PduInv, ReadInOrder, PduTypeOK
<1> HIDE DEF b
<1>7. Left' = Left \o b
    <2> DEFINE d == inBuf.data
    <2>1. d \in Seq(Octets) /\ wire \in Seq(Octets) /\ b \in Seq(Octets)
        BY <1>2, <1>3 DEF PduTypeOK
    <2> HIDE DEF d
    <2>2. (d \o wire) \o b = d \o (wire \o b)
        BY ONLY <2>1, CatAssoc
    <2> QED BY <1>1, <2>2 DEF Left, d
<1>8. Left \in Seq(Octets) /\ Len(Left) = PduSize * (m - n)
    BY <1>3, LeftFacts DEF PduInv, LeftIsUnread
<1>9. /\ Len(Left') = PduSize * (m - n) + PduSize
      /\ \A i \in 1..Len(Left) : Left'[i] = Left[i]
      /\ \A i \in 1..PduSize : Left'[PduSize * (m - n) + i] = b[i]
    <2>1. /\ Len(Left \o b) = Len(Left) + Len(b)
          /\ \A i \in 1..Len(Left) : (Left \o b)[i] = Left[i]
          /\ \A i \in 1..Len(b) : (Left \o b)[Len(Left) + i] = b[i]
        <3>1. Left \in Seq(Octets) /\ b \in Seq(Octets)
            BY <1>2, <1>8
        <3> QED BY ONLY <3>1, CatFacts
    <2> QED BY <1>2, <1>7, <1>8, <2>1
<1>10. LeftIsUnread'
    <2>1. Len(Left') = PduSize * (Len(pdusSent') - Len(pdusRead'))
        BY <1>1, <1>5, <1>9 DEF PduSize
    <2>2. ASSUME NEW k \in Nat, NEW j \in 1..PduSize, k < m + 1 - n
          PROVE  Left'[PduSize * k + j] = PduBytes(pdusSent'[n + 1 + k])[j]
        <3>1. CASE k < m - n
            <4>1. PduSize * k + j \in 1..Len(Left) /\ n + 1 + k \in 1..m
                BY <1>5, <1>8, <2>2, <3>1 DEF PduSize
            <4>2. Left[PduSize * k + j] = PduBytes(pdusSent[n + 1 + k])[j]
                BY <3>1 DEF PduInv, LeftIsUnread
            <4> QED BY <1>5, <1>9, <4>1, <4>2
        <3>2. CASE k = m - n
            <4>1. n + 1 + k = m + 1
                BY <1>5, <3>2
            <4>2. PduBytes(pdusSent'[n + 1 + k]) = b
                BY <1>5, <4>1 DEF b
            <4>3. Left'[PduSize * k + j] = b[j]
                BY <1>9, <3>2
            <4> QED BY <4>2, <4>3
        <3> QED BY <1>5, <2>2, <3>1, <3>2
    <2>3. Len(pdusSent') - Len(pdusRead') = m + 1 - n /\ Len(pdusRead') = n
        BY <1>1, <1>5
    <2> HIDE DEF m, n
    <2> QED BY <2>1, <2>2, <2>3 DEF LeftIsUnread
<1> QED BY <1>1, <1>4, <1>6, <1>10 DEF PduInv

LEMMA RecvStep ==
    ASSUME PduInv, NEW n \in 1..ReadBufSize, Recv(n)
    PROVE  PduInv'
<1> DEFINE taken == SubSeq(wire, 1, n)
           kept == SubSeq(wire, n + 1, Len(wire))
           d == inBuf.data
<1>1. PduTypeOK /\ n \in Nat /\ n >= 1 /\ n <= ReadBufSize /\ n <= Len(wire) /\ ReadBufSize \in Nat
    BY PduStreamAssumption DEF PduInv, Recv
<1>2. inBuf \in [alloc : Int, data : Seq(Octets)] /\ wire \in Seq(Octets) /\ d \in Seq(Octets)
    BY <1>1 DEF PduTypeOK
<1>3. PICK a \in Int : /\ inBuf' = [alloc |-> a, data |-> d \o taken]
                       /\ a - Len(d) >= ReadBufSize
    <2> DEFINE need == Len(d) + ReadBufSize
    <2>1. need \in Nat /\ need \div 4 \in Nat
        BY <1>1, <1>2
    <2>2. CASE inBuf.alloc - Len(d) < ReadBufSize
        <3>1. inBuf' = [[inBuf EXCEPT !.alloc = need + need \div 4] EXCEPT !.data = @ \o taken]
            BY <2>2 DEF Recv, Extend
        <3>2. inBuf' = [alloc |-> need + need \div 4, data |-> d \o taken]
            BY <1>2, <3>1
        <3>3. need + need \div 4 \in Int /\ (need + need \div 4) - Len(d) >= ReadBufSize
            BY <1>1, <1>2, <2>1
        <3> HIDE DEF need
        <3> QED BY <3>2, <3>3
    <2>3. CASE ~(inBuf.alloc - Len(d) < ReadBufSize)
        <3>1. inBuf' = [inBuf EXCEPT !.data = @ \o taken]
            BY <2>3 DEF Recv
        <3>2. inBuf' = [alloc |-> inBuf.alloc, data |-> d \o taken]
            BY <1>2, <3>1
        <3>3. inBuf.alloc \in Int /\ inBuf.alloc - Len(d) >= ReadBufSize
            BY <1>1, <1>2, <2>3
        <3> QED BY <3>2, <3>3
    <2> QED BY <2>2, <2>3
<1>4. wire' = kept /\ pdusSent' = pdusSent /\ pdusRead' = pdusRead
    BY DEF Recv
<1>5. /\ taken \in Seq(Octets) /\ Len(taken) = n /\ kept \in Seq(Octets) /\ Len(kept) = Len(wire) - n
      /\ \A i \in 1..n : taken[i] = wire[i]
      /\ \A i \in 1..(Len(wire) - n) : kept[i] = wire[n + i]
    BY <1>1, <1>2
<1> HIDE DEF taken, kept
<1> HIDE DEF d
<1>6. d \o taken \in Seq(Octets) /\ Len(d \o taken) = Len(d) + n
    <2>1. d \in Seq(Octets) /\ taken \in Seq(Octets)
        BY <1>2, <1>5
    <2>2. d \o taken \in Seq(Octets) /\ Len(d \o taken) = Len(d) + Len(taken)
        BY ONLY <2>1, CatFacts
    <2> QED BY <1>5, <2>2
<1>7. PduTypeOK'
    BY <1>1, <1>3, <1>4, <1>5, <1>6 DEF PduTypeOK
<1>8. Len(inBuf'.data) <= inBuf'.alloc
    BY <1>1, <1>2, <1>3, <1>6
<1>9. taken \o kept = wire
    <2> DEFINE w == taken \o kept
    <2>1. /\ w \in Seq(Octets) /\ Len(w) = Len(taken) + Len(kept)
          /\ \A i \in 1..Len(taken) : w[i] = taken[i]
          /\ \A i \in 1..Len(kept) : w[Len(taken) + i] = kept[i]
        <3>1. taken \in Seq(Octets) /\ kept \in Seq(Octets)
            BY <1>5
        <3> QED BY ONLY <3>1, CatFacts
    <2> HIDE DEF w
    <2>2. ASSUME NEW i \in 1..Len(wire) PROVE w[i] = wire[i]
        <3>1. CASE i <= n
            BY <1>1, <1>5, <2>1, <3>1
        <3>2. CASE i > n
            <4> DEFINE j == i - n
            <4>1. j \in 1..(Len(wire) - n) /\ n + j = i
                BY <1>1, <1>2, <3>2
            <4> HIDE DEF j
            <4>2. w[n + j] = kept[j] /\ kept[j] = wire[n + j]
                BY <1>5, <2>1, <4>1
            <4> QED BY <4>1, <4>2
        <3> QED BY <1>1, <3>1, <3>2
    <2>3. Len(w) = Len(wire)
        BY <1>1, <1>2, <1>5, <2>1
    <2> QED BY <1>2, <2>1, <2>2, <2>3, SameElements DEF w
<1>10. Left' = Left
    <2>1. d \in Seq(Octets) /\ taken \in Seq(Octets) /\ kept \in Seq(Octets)
        BY <1>2, <1>5
    <2>2. (d \o taken) \o kept = d \o (taken \o kept)
        BY ONLY <2>1, CatAssoc
    <2> QED BY <1>3, <1>4, <1>9, <2>2 DEF Left, d
<1> QED BY <1>4, <1>7, <1>8, <1>10 DEF PduInv, ReadInOrder, LeftIsUnread

\* A PDU in front of what is left is in inBuf_ as far as inBuf_ goes.
LEMMA ReadStep ==
    ASSUME PduInv, ReadPdu
    PROVE  PduInv'
<1> DEFINE n == Len(pdusRead)
           m == Len(pdusSent)
           d == inBuf.data
           p == pdusSent[n + 1]
<1>1. /\ PduTypeOK /\ d \in Seq(Octets) /\ wire \in Seq(Octets) /\ Len(d) \in Nat
      /\ Len(d) >= HeaderLen /\ PduLen(d) <= Len(d)
    BY DEF PduInv, PduTypeOK, ReadPdu, IsAvailable
<1>2. /\ m \in Nat /\ n \in Nat /\ n <= m /\ Len(d) + Len(wire) = PduSize * (m - n)
      /\ \A i \in 1..Len(d) : Left[i] = d[i]
    BY <1>1, LeftFacts DEF PduInv, PduTypeOK, ReadInOrder, LeftIsUnread
<1>3. n < m /\ n + 1 \in 1..m
    <2>1. Len(d) + Len(wire) > 0 /\ Len(wire) \in Nat
        BY <1>1 DEF HeaderLen
    <2> HIDE DEF n, m, d
    <2> QED BY <1>2, <2>1 DEF PduSize
<1>4. p \in Pdus
    BY <1>1, <1>3 DEF PduTypeOK
<1>5. /\ PduBytes(p) \in Seq(Octets) /\ Len(PduBytes(p)) = PduSize /\ PduLen(PduBytes(p)) = PduSize
      /\ HeaderOf(PduBytes(p)) = p.header
      /\ AttachOf(SubSeq(PduBytes(p), HeaderLen + 1, PduSize)) = p.attach
    BY <1>4, PduBytesFacts
<1>6. \A j \in 1..PduSize : Left[j] = PduBytes(p)[j]
    <2> SUFFICES ASSUME NEW j \in 1..PduSize PROVE Left[j] = PduBytes(p)[j]
        OBVIOUS
    <2>1. 0 \in Nat /\ 0 < m - n /\ PduSize * 0 + j = j /\ n + 1 + 0 = n + 1
        BY <1>2, <1>3 DEF PduSize
    <2>2. Left[PduSize * 0 + j] = PduBytes(pdusSent[n + 1 + 0])[j]
        BY <2>1 DEF PduInv, LeftIsUnread
    <2> QED BY <2>1, <2>2
<1>7. PduLen(d) = PduSize
    <2>1. ASSUME NEW j \in 1..4 PROVE d[0 + j] = PduBytes(p)[0 + j]
        <3>1. j \in 1..Len(d) /\ j \in 1..PduSize /\ 0 + j = j
            BY <1>1 DEF HeaderLen, PduSize
        <3> HIDE DEF d, p
        <3> QED BY <1>2, <1>6, <3>1
    <2>2. ReadUint32(d, 0) = ReadUint32(PduBytes(p), 0)
        BY <2>1, SameRead32
    <2> QED BY <1>5, <2>2 DEF PduLen
<1>8. PduSize \in Nat /\ PduSize <= Len(d)
    BY <1>1, <1>7 DEF PduSize
<1>9. SubSeq(d, 1, PduSize) = PduBytes(p)
    <2> DEFINE front == SubSeq(d, 1, PduSize)
    <2>1. /\ front \in Seq(Octets) /\ Len(front) = PduSize
          /\ \A i \in 1..PduSize : front[i] = d[i]
        BY <1>1, <1>8
    <2> HIDE DEF front, p
    <2>2. \A i \in 1..PduSize : front[i] = PduBytes(p)[i]
        BY <1>1, <1>2, <1>6, <1>8, <2>1
    <2>3. front = PduBytes(p)
        BY <1>5, <2>1, <2>2, SameElements
    <2> QED BY <2>3 DEF front
<1>10. p = [header |-> p.header, attach |-> p.attach]
    BY <1>4 DEF Pdus
<1>11. pdusRead' = Append(pdusRead, p)
    <2>1. pdusRead' = Append(pdusRead, [header |-> HeaderOf(SubSeq(d, 1, PduSize)),
                                        attach |-> AttachOf(SubSeq(SubSeq(d, 1, PduSize), HeaderLen + 1, PduSize))])
        BY <1>7 DEF ReadPdu
    <2> HIDE DEF p, d
    <2> QED BY <1>5, <1>9, <1>10, <2>1
<1>12. wire' = wire /\ pdusSent' = pdusSent
    BY DEF ReadPdu
<1> DEFINE rest == SubSeq(d, PduSize + 1, Len(d))
<1>13. inBuf' = [alloc |-> inBuf.alloc, data |-> rest]
    <2>1. inBuf' = SimpleRead(inBuf, PduSize)
        BY <1>7 DEF ReadPdu
    <2>2. ~(PduSize > Len(inBuf.data))
        BY <1>1, <1>8
    <2>3. SimpleRead(inBuf, PduSize) = [inBuf EXCEPT !.data = SubSeq(@, PduSize + 1, Len(@))]
        BY ONLY <2>2 DEF SimpleRead
    <2> QED BY <1>1, <2>1, <2>3 DEF PduTypeOK
<1>14. /\ rest \in Seq(Octets) /\ Len(rest) = Len(d) - PduSize
       /\ \A i \in 1..(Len(d) - PduSize) : rest[i] = d[PduSize + i]
    BY <1>1, <1>8
<1> HIDE DEF rest, p
<1>15. PduTypeOK'
    <2>1. pdusRead' \in Seq(Pdus)
        BY <1>1, <1>4, <1>11 DEF PduTypeOK
    <2> QED BY <1>1, <1>12, <1>13, <1>14, <2>1 DEF PduTypeOK
<1>16. Len(inBuf'.data) <= inBuf'.alloc
    BY <1>1, <1>8, <1>13, <1>14 DEF PduInv, PduTypeOK
<1>17. /\ Len(pdusRead') = n + 1 /\ pdusRead'[n + 1] = p
       /\ \A i \in 1..n : pdusRead'[i] = pdusRead[i]
    BY <1>1, <1>11 DEF PduTypeOK
<1>18. ReadInOrder'
    BY <1>2, <1>3, <1>12, <1>17 DEF PduInv, ReadInOrder, p
<1>19. /\ Len(Left') = PduSize * (m - (n + 1))
       /\ \A i \in 1..(PduSize * (m - (n + 1))) : Left'[i] = Left[PduSize + i]
    <2>1. /\ Len(Left') = Len(rest) + Len(wire)
          /\ \A i \in 1..Len(rest) : Left'[i] = rest[i]
          /\ \A i \in 1..Len(wire) : Left'[Len(rest) + i] = wire[i]
        <3>1. rest \in Seq(Octets) /\ wire \in Seq(Octets) /\ Left' = rest \o wire
            BY <1>1, <1>12, <1>13, <1>14 DEF Left
        <3> QED BY <3>1, CatFacts
    <2>2. \A i \in 1..Len(wire) : Left[Len(d) + i] = wire[i]
        BY <1>1, LeftFacts
    <2>3. Len(wire) \in Nat /\ Len(Left') = PduSize * (m - (n + 1))
        <3>1. Len(wire) \in Nat /\ Len(Left') = Len(d) - PduSize + Len(wire)
            BY <1>1, <1>14, <2>1
        <3> HIDE DEF d, m, n
        <3> QED BY <1>1, <1>2, <3>1 DEF PduSize
    <2>4. ASSUME NEW i \in 1..(PduSize * (m - (n + 1))) PROVE Left'[i] = Left[PduSize + i]
        <3> HIDE DEF d, m, n
        <3>1. CASE i <= Len(d) - PduSize
            <4>1. i \in 1..(Len(d) - PduSize) /\ PduSize + i \in 1..Len(d)
                BY <1>1, <1>8, <3>1
            <4> QED BY <1>2, <1>14, <2>1, <4>1
        <3>2. CASE i > Len(d) - PduSize
            <4> DEFINE j == i - (Len(d) - PduSize)
            <4>1. i \in Int /\ i >= 1 /\ i <= Len(d) - PduSize + Len(wire)
                BY <1>1, <1>2, <1>3, <1>14, <2>1, <2>3
            <4>2. j \in 1..Len(wire) /\ Len(rest) + j = i /\ Len(d) + j = PduSize + i
                BY <1>1, <1>8, <1>14, <2>3, <3>2, <4>1
            <4> HIDE DEF j
            <4>3. Left'[Len(rest) + j] = wire[j] /\ Left[Len(d) + j] = wire[j]
                BY <2>1, <2>2, <4>2
            <4> QED BY <4>2, <4>3
        <3> QED BY <1>1, <1>8, <3>1, <3>2
    <2> QED BY <2>3, <2>4
<1>20. LeftIsUnread'
    <2>1. ASSUME NEW k \in Nat, NEW j \in 1..PduSize, k < m - (n + 1)
          PROVE  Left'[PduSize * k + j] = PduBytes(pdusSent[n + 1 + 1 + k])[j]
        <3> HIDE DEF m, n
        <3>5. j \in Int /\ 1 <= j /\ j <= 28 /\ k + 1 <= m - (n + 1) /\ m \in Int /\ n \in Int
            BY <1>2, <2>1 DEF PduSize
        <3>6. PduSize * k + j \in 1..(PduSize * (m - (n + 1)))
            BY <3>5 DEF PduSize
        <3>1. PduSize * k + j \in 1..(PduSize * (m - (n + 1))) /\ k + 1 \in Nat /\ k + 1 < m - n
            BY <3>5, <3>6
        <3>2. PduSize + (PduSize * k + j) = PduSize * (k + 1) + j /\ n + 1 + (k + 1) = n + 1 + 1 + k
            BY <1>2 DEF PduSize
        <3>3. Left[PduSize * (k + 1) + j] = PduBytes(pdusSent[n + 1 + (k + 1)])[j]
            BY <3>1 DEF PduInv, LeftIsUnread, m, n
        <3>4. Left'[PduSize * k + j] = Left[PduSize + (PduSize * k + j)]
            BY <1>19, <3>1
        <3> QED BY <3>2, <3>3, <3>4
    <2>2. Len(pdusSent') = m /\ Len(pdusRead') = n + 1
        BY <1>12, <1>17
    <2> HIDE DEF m, n
    <2> QED BY <1>12, <1>19, <2>1, <2>2 DEF LeftIsUnread
<1> QED BY <1>15, <1>16, <1>18, <1>20 DEF PduInv

LEMMA PduStepInv == PduInv /\ [PduNext]_pduVars => PduInv'
<1> SUFFICES ASSUME PduInv, [PduNext]_pduVars PROVE PduInv'
    OBVIOUS
<1>1. ASSUME NEW h \in Headers, NEW a \in Attachments, SendPduBytes([header |-> h, attach |-> a])
      PROVE  PduInv'
    <2>1. [header |-> h, attach |-> a] \in Pdus
        BY DEF Pdus
    <2> QED BY <1>1, <2>1, SendStep
<1>2. ASSUME NEW n \in 1..ReadBufSize, Recv(n) PROVE PduInv'
    BY <1>2, RecvStep
<1>3. CASE UNCHANGED <<wire, inBuf, pdusSent, pdusRead>>
    BY <1>3 DEF PduInv, PduTypeOK, ReadInOrder, LeftIsUnread, Left
<1>4. CASE RecvEnds \/ EndOnRead
    BY <1>3, <1>4 DEF RecvEnds, EndOnRead
<1>5. CASE UNCHANGED pduVars
    BY <1>3, <1>5 DEF pduVars
<1> QED BY <1>1, <1>2, <1>4, <1>5, ReadStep DEF PduNext

LEMMA PduInvRoundTrip == PduInv => PdusRoundTrip
<1> SUFFICES ASSUME PduInv PROVE PdusRoundTrip
    OBVIOUS
<1> DEFINE n == Len(pdusRead)
           m == Len(pdusSent)
<1>1. PduTypeOK /\ m \in Nat /\ n \in Nat /\ n <= m /\ Len(Left) = PduSize * (m - n) /\ Left \in Seq(Octets)
    BY LeftFacts DEF PduInv, PduTypeOK, ReadInOrder, LeftIsUnread
<1>2. pdusRead = SubSeq(pdusSent, 1, n)
    <2> DEFINE first == SubSeq(pdusSent, 1, n)
    <2>1. pdusSent \in Seq(Pdus) /\ pdusRead \in Seq(Pdus)
        BY <1>1 DEF PduTypeOK
    <2>2. first \in Seq(Pdus) /\ Len(first) = n /\ \A i \in 1..n : first[i] = pdusSent[i]
        BY <1>1, <2>1
    <2> HIDE DEF first
    <2>3. first = pdusRead
        BY <2>1, <2>2, SameElements DEF PduInv, ReadInOrder
    <2> QED BY <2>3 DEF first
<1>3. n = m => Left = <<>>
    BY <1>1 DEF PduSize
<1>4. ASSUME n # m
      PROVE  LET next == PduBytes(pdusSent[n + 1])
             IN  Len(Left) >= Len(next) /\ SubSeq(Left, 1, Len(next)) = next
    <2> DEFINE next == PduBytes(pdusSent[n + 1])
    <2>1. n + 1 \in 1..m /\ pdusSent[n + 1] \in Pdus
        BY <1>1, <1>4 DEF PduTypeOK
    <2>2. next \in Seq(Octets) /\ Len(next) = PduSize
        BY <2>1, PduBytesFacts
    <2>3. PduSize \in Nat /\ Len(Left) >= PduSize
        <3> HIDE DEF m, n
        <3> QED BY <1>1, <1>4 DEF PduSize
    <2>4. ASSUME NEW j \in 1..PduSize PROVE Left[j] = next[j]
        <3>1. 0 \in Nat /\ 0 < m - n /\ PduSize * 0 + j = j /\ n + 1 + 0 = n + 1
            BY <1>1, <1>4 DEF PduSize
        <3>2. Left[PduSize * 0 + j] = PduBytes(pdusSent[n + 1 + 0])[j]
            BY <3>1 DEF PduInv, LeftIsUnread
        <3> QED BY <3>1, <3>2
    <2> HIDE DEF next
    <2> DEFINE front == SubSeq(Left, 1, PduSize)
    <2>5. front \in Seq(Octets) /\ Len(front) = PduSize /\ \A i \in 1..PduSize : front[i] = Left[i]
        BY <1>1, <2>3
    <2> HIDE DEF front
    <2>6. front = next
        BY <2>2, <2>4, <2>5, SameElements
    <2> QED BY <2>2, <2>3, <2>6 DEF front, next
<1>5. \A i \in DOMAIN wire : wire[i] \in Octets
    BY <1>1 DEF PduTypeOK
<1> QED BY <1>1, <1>2, <1>3, <1>4, <1>5 DEF PdusRoundTrip, Left, PduInv

\* However the receives cut the stream, ImConn::OnRead hands on the PDUs that were
\* sent, whole, in order, with the header and the attachment they were sent with,
\* and stays at the border of one; no byte is sent that was never written, and
\* inBuf_ is never written past what it has allocated.
THEOREM PdusReadAsSent == PduSpec => []PdusRoundTrip
BY PduInitInv, PduStepInv, PduInvRoundTrip, PTL DEF PduSpec

-----------------------------------------------------------------------------
(* net::Buffer.                                                            *)

\* The constants, one by one.
LEMMA Sizes ==
    /\ Base \in Nat /\ Base > 0
    /\ kCheapPrepend \in Nat /\ kInitialSize \in Nat /\ ExtraSize \in Nat
    /\ MaxBytes \in Nat /\ MaxData \in Nat
BY NetBufferAssumption

USE Sizes

\* A Buffer as a value, in order.
Buffers ==
    {b \in [mem : Seq(Bytes), r : Nat, w : Nat] :
        b.r <= b.w /\ b.w <= Len(b.mem) /\ kCheapPrepend <= Len(b.mem)}

-----------------------------------------------------------------------------
\* std::copy changes bytes, not the size of the vector.
LEMMA CopyType ==
    ASSUME NEW m \in Seq(Bytes), NEW data \in Seq(Bytes), NEW at \in Nat
    PROVE  Copy(m, data, at) \in Seq(Bytes) /\ Len(Copy(m, data, at)) = Len(m)
<1>1. \A i \in 1..Len(m) : (IF i > at /\ i <= at + Len(data) THEN data[i - at] ELSE m[i]) \in Bytes
  OBVIOUS
<1>2. Copy(m, data, at) \in [1..Len(m) -> Bytes]
  BY <1>1 DEF Copy
<1>. QED
  BY <1>2

\* resize fills up with zeros.
LEMMA ResizeType ==
    ASSUME NEW m \in Seq(Bytes), NEW n \in Nat
    PROVE  Resize(m, n) \in Seq(Bytes) /\ Len(Resize(m, n)) = n
<1>1. 0 \in Bytes
  BY DEF Bytes
<1>2. Resize(m, n) \in [1..n -> Bytes]
  BY <1>1 DEF Resize
<1>. QED
  BY <1>2

\* A part of a sequence.
LEMMA SubSeqIs ==
    ASSUME NEW s \in Seq(Bytes), NEW m \in Nat, NEW n \in Nat, m <= n, n <= Len(s)
    PROVE  /\ SubSeq(s, m + 1, n) \in Seq(Bytes)
           /\ Len(SubSeq(s, m + 1, n)) = n - m
           /\ \A i \in 1..(n - m) : SubSeq(s, m + 1, n)[i] = s[m + i]
<1>1. SubSeq(s, m + 1, n) \in Seq(Bytes)
  OBVIOUS
<1>2. Len(SubSeq(s, m + 1, n)) = n - m
  OBVIOUS
<1>3. \A i \in 1..(n - m) : SubSeq(s, m + 1, n)[i] = s[m + i]
  OBVIOUS
<1>. QED
  BY <1>1, <1>2, <1>3

\* Two sequences, one behind the other.
LEMMA ConcatIs ==
    ASSUME NEW s \in Seq(Bytes), NEW t \in Seq(Bytes)
    PROVE  /\ s \o t \in Seq(Bytes)
           /\ Len(s \o t) = Len(s) + Len(t)
           /\ \A i \in 1..Len(s) : (s \o t)[i] = s[i]
           /\ \A i \in 1..Len(t) : (s \o t)[Len(s) + i] = t[i]
<1>1. s \o t \in Seq(Bytes)
  OBVIOUS
<1>2. Len(s \o t) = Len(s) + Len(t)
  OBVIOUS
<1>3. \A i \in 1..Len(s) : (s \o t)[i] = s[i]
  OBVIOUS
<1>4. \A i \in 1..Len(t) : (s \o t)[Len(s) + i] = t[i]
  OBVIOUS
<1>. QED
  BY <1>1, <1>2, <1>3, <1>4

\* Three sequences, one behind the other.
LEMMA ConcatAssoc ==
    ASSUME NEW s \in Seq(Bytes), NEW t \in Seq(Bytes), NEW u \in Seq(Bytes)
    PROVE  (s \o t) \o u = s \o (t \o u)
OBVIOUS

\* The content of a buffer, byte by byte.
LEMMA ContentIs ==
    ASSUME NEW b \in Buffers
    PROVE  /\ Content(b) \in Seq(Bytes)
           /\ Len(Content(b)) = b.w - b.r
           /\ \A i \in 1..(b.w - b.r) : Content(b)[i] = b.mem[b.r + i]
<1>1. b.mem \in Seq(Bytes) /\ b.r \in Nat /\ b.w \in Nat /\ b.r <= b.w /\ b.w <= Len(b.mem)
  BY DEF Buffers
<1>2. Content(b) = SubSeq(b.mem, b.r + 1, b.w)
  BY DEF Content
<1>3. Content(b) \in Seq(Bytes)
  BY <1>1, <1>2, SubSeqIs
<1>4. Len(Content(b)) = b.w - b.r
  BY <1>1, <1>2, SubSeqIs
<1>5. \A i \in 1..(b.w - b.r) : Content(b)[i] = b.mem[b.r + i]
  BY <1>1, <1>2, SubSeqIs
<1>. QED
  BY <1>3, <1>4, <1>5

\* A buffer whose bytes from r on are s has the content s.
LEMMA ContentByBytes ==
    ASSUME NEW b \in Buffers, NEW s \in Seq(Bytes),
           Len(s) = b.w - b.r,
           \A i \in 1..Len(s) : b.mem[b.r + i] = s[i]
    PROVE  Content(b) = s
<1>1. Content(b) \in Seq(Bytes) /\ Len(Content(b)) = Len(s)
  BY ContentIs
<1>2. \A i \in 1..Len(s) : Content(b)[i] = s[i]
  BY ContentIs
<1>. QED
  BY <1>1, <1>2

\* A new buffer is empty and in order.
LEMMA NewBufferIs == NewBuffer \in Buffers /\ ReadableBytes(NewBuffer) = 0 /\ Content(NewBuffer) = <<>>
<1>1. [i \in 1..(kCheapPrepend + kInitialSize) |-> 0] \in [1..(kCheapPrepend + kInitialSize) -> Bytes]
  BY DEF Bytes
<1>2. [i \in 1..(kCheapPrepend + kInitialSize) |-> 0] \in Seq(Bytes)
      /\ Len([i \in 1..(kCheapPrepend + kInitialSize) |-> 0]) = kCheapPrepend + kInitialSize
  BY <1>1
<1>3. NewBuffer \in Buffers
  BY <1>2 DEF NewBuffer, Buffers
<1>4. ReadableBytes(NewBuffer) = 0
  BY DEF NewBuffer, ReadableBytes
<1>5. Content(NewBuffer) = <<>>
  BY <1>3, <1>4, ContentIs DEF ReadableBytes
<1>. QED
  BY <1>3, <1>4, <1>5

-----------------------------------------------------------------------------
\* Positions between two indexes of the buffer.
LEMMA Positions ==
    ASSUME NEW r \in Nat, NEW w \in Nat, NEW size \in Nat, NEW len \in Nat, r <= w, w <= size
    PROVE  \A i \in 1..(w - r) : r + i \in 1..size /\ r + i \in 1..(w + len)
  OBVIOUS

\* The bytes of m from index r to index w are c.
Shows(c, m, r, w) == c \in Seq(Bytes) /\ Len(c) = w - r /\ \A i \in 1..(w - r) : m[r + i] = c[i]

\* What is copied behind the content follows it.
LEMMA BytesBehind ==
    ASSUME NEW m \in Seq(Bytes), NEW data \in Seq(Bytes), NEW r \in Nat, NEW w \in Nat,
           r <= w, w + Len(data) <= Len(m),
           NEW c, Shows(c, m, r, w)
    PROVE  Shows(c \o data, Copy(m, data, w), r, w + Len(data))
<1>0. c \in Seq(Bytes) /\ Len(c) = w - r /\ \A i \in 1..(w - r) : c[i] = m[r + i]
  BY DEF Shows
<1>1. /\ c \o data \in Seq(Bytes) /\ Len(c \o data) = Len(c) + Len(data)
      /\ Len(data) \in Nat /\ Len(m) \in Nat /\ Len(c) \in Nat
  <2>1. c \in Seq(Bytes)
    BY <1>0
  <2>2. Len(data) \in Nat /\ Len(m) \in Nat /\ Len(c) \in Nat
    BY <2>1
  <2>3. c \o data \in Seq(Bytes) /\ Len(c \o data) = Len(c) + Len(data)
    BY ONLY <2>1, data \in Seq(Bytes), ConcatIs
  <2>. QED
    BY <2>2, <2>3
<1>2. Len(c \o data) = w + Len(data) - r
  BY <1>0, <1>1
<1>3. ASSUME NEW i \in 1..Len(c \o data) PROVE Copy(m, data, w)[r + i] = (c \o data)[i]
  <2>1. r + i \in 1..Len(m)
    BY <1>1, <1>2
  <2>2. CASE i <= Len(c)
    <3>1. i \in 1..Len(c) /\ i \in 1..(w - r) /\ ~(r + i > w)
      BY <1>0, <1>1, <2>2
    <3>. QED
      BY <1>0, <2>1, <3>1, ConcatIs DEF Copy
  <2>3. CASE ~(i <= Len(c))
    <3>. DEFINE j == i - Len(c)
    <3>1. j \in 1..Len(data) /\ r + i - w = j /\ Len(c) + j = i /\ r + i > w /\ r + i <= w + Len(data)
      BY <1>0, <1>1, <2>3
    <3>2. (c \o data)[Len(c) + j] = data[j]
      <4>. HIDE DEF j
      <4>. QED
        BY <1>0, <3>1, ConcatIs
    <3>3. Copy(m, data, w)[r + i] = data[r + i - w]
      BY <2>1, <3>1 DEF Copy
    <3>. QED
      BY <3>1, <3>2, <3>3
  <2>. QED
    BY <2>2, <2>3
<1>. QED
  BY <1>1, <1>2, <1>3 DEF Shows

\* makeSpace gives room for len bytes, by growing or by moving the content, and
\* does not change the content.
LEMMA MakeSpaceIs ==
    ASSUME NEW b \in Buffers, NEW len \in Nat, WritableBytes(b) < len
    PROVE  LET e == MakeSpace(b, len) IN
           /\ e \in Buffers /\ WritableBytes(e) >= len /\ MakeSpaceAsserts(b, len)
           /\ ReadableBytes(e) = ReadableBytes(b) /\ Content(e) = Content(b)
<1>0. b.mem \in Seq(Bytes) /\ b.r \in Nat /\ b.w \in Nat /\ b.r <= b.w /\ b.w <= Len(b.mem)
      /\ kCheapPrepend <= Len(b.mem) /\ Len(b.mem) \in Nat
  BY DEF Buffers
<1>1. CASE MustGrow(b, len)
  <2>. DEFINE e == [b EXCEPT !.mem = Resize(b.mem, b.w + len)]
  <2>1. MakeSpace(b, len) = e
    BY <1>1 DEF MakeSpace
  <2>2. Resize(b.mem, b.w + len) \in Seq(Bytes) /\ Len(Resize(b.mem, b.w + len)) = b.w + len
    <3>1. b.w + len \in Nat
      BY <1>0
    <3>. QED
      BY <1>0, <3>1, ResizeType
  <2>3. b \in [mem : Seq(Bytes), r : Nat, w : Nat]
    BY DEF Buffers
  <2>4. e.mem = Resize(b.mem, b.w + len) /\ e.r = b.r /\ e.w = b.w /\ e \in [mem : Seq(Bytes), r : Nat, w : Nat]
    BY <2>2, <2>3
  <2>5. Len(b.mem) <= b.w + len
    BY <1>0 DEF WritableBytes
  <2>6. e \in Buffers
    <3>1. kCheapPrepend <= Len(e.mem) /\ e.r <= e.w /\ e.w <= Len(e.mem)
      BY <1>0, <2>2, <2>4, <2>5
    <3>. QED
      BY <2>4, <3>1 DEF Buffers
  <2>7. WritableBytes(e) >= len /\ ReadableBytes(e) = ReadableBytes(b)
    <3>1. Len(e.mem) = b.w + len /\ e.r = b.r /\ e.w = b.w
      BY <2>2, <2>4
    <3>. HIDE DEF e
    <3>. QED
      BY <1>0, <3>1 DEF WritableBytes, ReadableBytes
  <2>8. \A i \in 1..(b.w - b.r) : e.mem[e.r + i] = b.mem[b.r + i]
    <3>. HIDE DEF e
    <3>. SUFFICES ASSUME NEW i \in 1..(b.w - b.r) PROVE e.mem[e.r + i] = b.mem[b.r + i]
      OBVIOUS
    <3>1. b.r + i \in 1..Len(b.mem) /\ b.r + i \in 1..(b.w + len)
      BY ONLY <1>0, len \in Nat, i \in 1..(b.w - b.r), Positions
    <3>. QED
      BY <2>4, <3>1 DEF Resize
  <2>9. Content(e) = Content(b)
    <3>1. Content(b) \in Seq(Bytes) /\ Len(Content(b)) = e.w - e.r
      BY <2>4, ContentIs
    <3>2. \A i \in 1..Len(Content(b)) : e.mem[e.r + i] = Content(b)[i]
      BY <2>4, <2>8, <3>1, ContentIs
    <3>. QED
      BY <2>6, <3>1, <3>2, ContentByBytes
  <2>10. MakeSpaceAsserts(b, len)
    BY <1>1 DEF MakeSpaceAsserts
  <2>. QED
    BY <2>1, <2>6, <2>7, <2>9, <2>10
<1>2. CASE ~MustGrow(b, len)
  <2>. DEFINE m == Copy(b.mem, Content(b), kCheapPrepend)
              n == b.w - b.r
              e == [mem |-> m, r |-> kCheapPrepend, w |-> kCheapPrepend + n]
  <2>1. MakeSpace(b, len) = e
    BY <1>2 DEF MakeSpace, ReadableBytes
  <2>2. m \in Seq(Bytes) /\ Len(m) = Len(b.mem)
    BY <1>0, ContentIs, CopyType
  <2>3. kCheapPrepend + len <= Len(b.mem) - b.w + b.r
    BY <1>0, <1>2 DEF MustGrow, WritableBytes, PrependableBytes
  <2>4. kCheapPrepend < b.r
    BY <1>0, <2>3 DEF WritableBytes
  <2>5. e \in Buffers
    BY <1>0, <2>2, <2>3 DEF Buffers
  <2>6. WritableBytes(e) >= len /\ ReadableBytes(e) = ReadableBytes(b)
    BY <1>0, <2>2, <2>3 DEF WritableBytes, ReadableBytes
  <2>7. \A i \in 1..n : m[kCheapPrepend + i] = Content(b)[i]
    <3>1. n \in Nat /\ n + kCheapPrepend <= Len(b.mem)
      BY <1>0, <2>3
    <3>2. Len(Content(b)) = n
      BY ContentIs
    <3>3. \A j \in 1..Len(b.mem) : j > kCheapPrepend /\ j <= kCheapPrepend + n => m[j] = Content(b)[j - kCheapPrepend]
      BY <3>2 DEF Copy
    <3>. QED
      BY <3>1, <3>3
  <2>8. Content(e) = Content(b)
    <3>1. Content(b) \in Seq(Bytes) /\ Len(Content(b)) = e.w - e.r /\ Len(Content(b)) = n
      BY <1>0, ContentIs
    <3>2. \A i \in 1..Len(Content(b)) : e.mem[e.r + i] = Content(b)[i]
      BY <2>7, <3>1
    <3>. QED
      BY <2>5, <3>1, <3>2, ContentByBytes
  <2>. QED
    BY <2>1, <2>4, <2>5, <2>6, <2>8 DEF MakeSpaceAsserts
<1>. QED
  BY <1>1, <1>2

\* ensureWritableBytes gives the room, its asserts hold, the content is the same.
LEMMA EnsureIs ==
    ASSUME NEW b \in Buffers, NEW len \in Nat
    PROVE  LET e == EnsureWritableBytes(b, len) IN
           /\ e \in Buffers /\ WritableBytes(e) >= len /\ EnsureAsserts(b, len)
           /\ ReadableBytes(e) = ReadableBytes(b) /\ Content(e) = Content(b)
<1>1. CASE WritableBytes(b) < len
  <2>1. EnsureWritableBytes(b, len) = MakeSpace(b, len)
    BY <1>1 DEF EnsureWritableBytes
  <2>. QED
    BY <1>1, <2>1, MakeSpaceIs DEF EnsureAsserts
<1>2. CASE ~(WritableBytes(b) < len)
  <2>1. EnsureWritableBytes(b, len) = b
    BY <1>2 DEF EnsureWritableBytes
  <2>2. WritableBytes(b) \in Int
    BY DEF WritableBytes, Buffers
  <2>. QED
    BY <1>2, <2>1, <2>2 DEF EnsureAsserts
<1>. QED
  BY <1>1, <1>2

\* Bytes copied behind the content, where there is room, are added to it.
LEMMA CopiedBehind ==
    ASSUME NEW b \in Buffers, NEW data \in Seq(Bytes), Len(data) <= WritableBytes(b)
    PROVE  LET e == [b EXCEPT !.mem = Copy(b.mem, data, b.w), !.w = b.w + Len(data)] IN
           e \in Buffers /\ Content(e) = Content(b) \o data
<1>. DEFINE m == Copy(b.mem, data, b.w)
            e == [b EXCEPT !.mem = m, !.w = b.w + Len(data)]
<1>0. b.mem \in Seq(Bytes) /\ b.r \in Nat /\ b.w \in Nat /\ b.r <= b.w /\ b.w <= Len(b.mem)
      /\ kCheapPrepend <= Len(b.mem) /\ Len(b.mem) \in Nat /\ b.w + Len(data) <= Len(b.mem)
      /\ b \in [mem : Seq(Bytes), r : Nat, w : Nat] /\ Len(data) \in Nat
  BY DEF Buffers, WritableBytes
<1>1. m \in Seq(Bytes) /\ Len(m) = Len(b.mem)
  BY <1>0, CopyType
<1>2. e.mem = m /\ e.r = b.r /\ e.w = b.w + Len(data) /\ e \in [mem : Seq(Bytes), r : Nat, w : Nat]
  <2>. DEFINE n == b.w + Len(data)
  <2>1. n \in Nat
    BY <1>0
  <2>. HIDE DEF m, n
  <2>2. [b EXCEPT !.mem = m, !.w = n] \in [mem : Seq(Bytes), r : Nat, w : Nat]
    BY <1>0, <1>1, <2>1
  <2>3. [b EXCEPT !.mem = m, !.w = n].mem = m /\ [b EXCEPT !.mem = m, !.w = n].r = b.r
        /\ [b EXCEPT !.mem = m, !.w = n].w = n
    BY <1>0
  <2>. QED
    BY <2>2, <2>3 DEF n
<1>3. e \in Buffers
  <2>1. e.r <= e.w /\ e.w <= Len(e.mem) /\ kCheapPrepend <= Len(e.mem)
    BY <1>0, <1>1, <1>2
  <2>. QED
    BY <1>2, <2>1 DEF Buffers
<1>. DEFINE c == Content(b)
            s == c \o data
<1>4. c \in Seq(Bytes) /\ Len(c) = b.w - b.r /\ \A i \in 1..(b.w - b.r) : c[i] = b.mem[b.r + i]
  BY ContentIs
<1>5. Shows(s, m, b.r, b.w + Len(data))
  <2>1. Shows(c, b.mem, b.r, b.w)
    <3>. HIDE DEF c
    <3>. QED
      BY <1>4 DEF Shows
  <2>. HIDE DEF c
  <2>. QED
    BY <1>0, <2>1, BytesBehind
<1>6. s \in Seq(Bytes) /\ Len(s) = e.w - e.r /\ \A i \in 1..Len(s) : e.mem[e.r + i] = s[i]
  <2>. HIDE DEF e, s, m
  <2>1. Shows(s, e.mem, e.r, e.w)
    BY <1>2, <1>5
  <2>. QED
    BY <2>1 DEF Shows
<1>7. Content(e) = s
  <2>. HIDE DEF e, s
  <2>. QED
    BY <1>3, <1>6, ContentByBytes
<1>. QED
  BY <1>3, <1>7

\* append adds the data behind the content.
LEMMA AppendIs ==
    ASSUME NEW b \in Buffers, NEW data \in Seq(Bytes)
    PROVE  /\ AppendBytes(b, data) \in Buffers
           /\ Content(AppendBytes(b, data)) = Content(b) \o data
           /\ EnsureAsserts(b, Len(data))
<1>. DEFINE e == EnsureWritableBytes(b, Len(data))
<1>1. Len(data) \in Nat
  OBVIOUS
<1>2. e \in Buffers /\ WritableBytes(e) >= Len(data) /\ Content(e) = Content(b) /\ EnsureAsserts(b, Len(data))
  BY <1>1, EnsureIs
<1>. DEFINE a == [e EXCEPT !.mem = Copy(e.mem, data, e.w), !.w = e.w + Len(data)]
<1>3. AppendBytes(b, data) = a
  BY DEF AppendBytes
<1>4. Len(data) <= WritableBytes(e)
  <2>1. WritableBytes(e) \in Int
    <3>. HIDE DEF e
    <3>. QED
      BY <1>2 DEF Buffers, WritableBytes
  <2>. QED
    BY <1>1, <1>2, <2>1
<1>5. a \in Buffers /\ Content(a) = Content(e) \o data
  <2>. HIDE DEF e
  <2>. QED
    BY ONLY <1>2, <1>4, data \in Seq(Bytes), CopiedBehind, Zenon
<1>. QED
  BY <1>2, <1>3, <1>5

-----------------------------------------------------------------------------
\* The buffer's variables, as a value.
LEMMA BufInOrder == BufTypeOK => Buf \in Buffers
BY DEF BufTypeOK, Buf, Buffers

\* What a step makes of the buffer: in order again, with the new content.
LEMMA BecomeIs ==
    ASSUME BufTypeOK, NEW b \in Buffers, NEW ok, ok, Become(b, ok)
    PROVE  BufTypeOK' /\ Content(Buf)' = Content(b)
<1>1. b.mem \in Seq(Bytes) /\ b.r \in Nat /\ b.w \in Nat /\ b.r <= b.w /\ b.w <= Len(b.mem)
      /\ kCheapPrepend <= Len(b.mem)
  BY DEF Buffers
<1>2. mem' = b.mem /\ readerIndex' = b.r /\ writerIndex' = b.w /\ asserts'
  BY DEF Become, BufTypeOK
<1>3. BufTypeOK'
  BY <1>1, <1>2 DEF BufTypeOK
<1>4. Content(Buf)' = SubSeq(mem', readerIndex' + 1, writerIndex')
  BY DEF Content, Buf
<1>5. Content(b) = SubSeq(b.mem, b.r + 1, b.w)
  BY DEF Content
<1>. QED
  BY <1>2, <1>3, <1>4, <1>5

\* The content, as the variables have it.
LEMMA BufContent ==
    ASSUME BufTypeOK
    PROVE  /\ Content(Buf) \in Seq(Bytes)
           /\ Len(Content(Buf)) = writerIndex - readerIndex
           /\ ReadableBytes(Buf) = writerIndex - readerIndex
           /\ \A i \in 1..(writerIndex - readerIndex) : Content(Buf)[i] = mem[readerIndex + i]
<1>1. Buf \in Buffers
  BY BufInOrder
<1>2. Buf.r = readerIndex /\ Buf.w = writerIndex /\ Buf.mem = mem
  BY DEF Buf
<1>3. /\ Content(Buf) \in Seq(Bytes)
      /\ Len(Content(Buf)) = Buf.w - Buf.r
      /\ \A i \in 1..(Buf.w - Buf.r) : Content(Buf)[i] = Buf.mem[Buf.r + i]
  BY <1>1, ContentIs
<1>. QED
  BY <1>2, <1>3 DEF ReadableBytes

\* Data that may be written is a sequence of bytes, integers in network order too.
LEMMA DatasAreBytes == \A data \in Datas : data \in Seq(Bytes) /\ Len(data) \in Nat
BY DEF Datas

LEMMA IntsAreDatas ==
    ASSUME NEW n \in 1..MaxData, NEW x \in Ints(n)
    PROVE  HostToNetwork(x, n) \in Datas
<1>1. x \in Int
  BY DEF Ints
<1>2. \A i \in 1..n : (x \div Base ^ (n - i)) % Base \in Bytes
  BY <1>1 DEF Bytes
<1>3. HostToNetwork(x, n) \in [1..n -> Bytes]
  BY <1>2 DEF HostToNetwork
<1>4. n \in 0..MaxData
  OBVIOUS
<1>. QED
  BY <1>3, <1>4 DEF Datas

-----------------------------------------------------------------------------
\* append pushes.
LEMMA AppendStep ==
    ASSUME BufTypeOK, NEW data \in Datas, BufAppend(data)
    PROVE  BufTypeOK' /\ Queue!Push(data)
<1>1. data \in Seq(Bytes) /\ Buf \in Buffers
  BY DatasAreBytes, BufInOrder
<1>2. AppendBytes(Buf, data) \in Buffers /\ Content(AppendBytes(Buf, data)) = Content(Buf) \o data
      /\ EnsureAsserts(Buf, Len(data))
  BY <1>1, AppendIs
<1>3. Become(AppendBytes(Buf, data), EnsureAsserts(Buf, Len(data)))
  BY DEF BufAppend
<1>4. BufTypeOK' /\ Content(Buf)' = Content(AppendBytes(Buf, data))
  BY <1>2, <1>3, BecomeIs
<1>. QED
  BY <1>2, <1>4 DEF Queue!Push

\* retrieve pops; when all is taken, both indexes go back to the front.
LEMMA RetrieveStep ==
    ASSUME BufTypeOK, NEW len \in Nat, BufRetrieve(len)
    PROVE  BufTypeOK' /\ Queue!Pop(len) /\ len \in 0..Len(Content(Buf))
<1>0. /\ mem \in Seq(Bytes) /\ readerIndex \in Nat /\ writerIndex \in Nat
      /\ readerIndex <= writerIndex /\ writerIndex <= Len(mem) /\ kCheapPrepend <= Len(mem)
  BY DEF BufTypeOK
<1>1. len <= writerIndex - readerIndex /\ len \in 0..Len(Content(Buf))
  BY <1>0, BufContent DEF BufRetrieve
<1>. DEFINE b == Retrieve(Buf, len)
            c == Content(Buf)
            s == SubSeq(c, len + 1, Len(c))
<1>2. c \in Seq(Bytes) /\ Len(c) = writerIndex - readerIndex
      /\ \A i \in 1..Len(c) : c[i] = mem[readerIndex + i]
  BY BufContent
<1>3. s \in Seq(Bytes) /\ Len(s) = Len(c) - len /\ \A i \in 1..Len(s) : s[i] = c[len + i]
  <2>. HIDE DEF c
  <2>1. Len(c) \in Nat /\ len <= Len(c)
    BY <1>0, <1>1, <1>2
  <2>2. s \in Seq(Bytes)
    BY <1>2, <2>1, SubSeqIs
  <2>3. Len(s) = Len(c) - len
    BY <1>2, <2>1, SubSeqIs
  <2>4. \A i \in 1..(Len(c) - len) : s[i] = c[len + i]
    BY <1>2, <2>1, SubSeqIs
  <2>. QED
    BY <2>2, <2>3, <2>4
<1>4. b \in Buffers /\ Content(b) = s
  <2>1. CASE len < writerIndex - readerIndex
    <3>1. b = [mem |-> mem, r |-> readerIndex + len, w |-> writerIndex]
      BY <2>1, BufContent DEF Retrieve, Buf
    <3>2. b \in Buffers
      BY <1>0, <2>1, <3>1 DEF Buffers
    <3>3. Len(s) = b.w - b.r /\ b.r = readerIndex + len /\ b.mem = mem
      BY <1>0, <1>2, <1>3, <3>1
    <3>4. \A i \in 1..Len(s) : b.mem[b.r + i] = s[i]
      <4>. SUFFICES ASSUME NEW i \in 1..Len(s) PROVE mem[readerIndex + len + i] = s[i]
        BY <3>3
      <4>1. len + i \in 1..Len(c) /\ readerIndex + (len + i) = readerIndex + len + i
        BY <1>0, <1>1, <1>2, <1>3
      <4>. QED
        BY <1>2, <1>3, <4>1
    <3>5. s \in Seq(Bytes)
      BY <1>3
    <3>. HIDE DEF b, s
    <3>. QED
      BY <3>2, <3>3, <3>4, <3>5, ContentByBytes
  <2>2. CASE ~(len < writerIndex - readerIndex)
    <3>1. b = [mem |-> mem, r |-> kCheapPrepend, w |-> kCheapPrepend]
      BY <2>2, BufContent DEF Retrieve, RetrieveAll, Buf
    <3>2. b \in Buffers
      BY <1>0, <3>1 DEF Buffers
    <3>3. Len(s) = 0
      BY <1>0, <1>1, <1>2, <1>3, <2>2
    <3>4. Len(s) = b.w - b.r
      BY <3>1, <3>3
    <3>5. \A i \in 1..Len(s) : b.mem[b.r + i] = s[i]
      BY <3>3
    <3>6. s \in Seq(Bytes)
      BY <1>3
    <3>. HIDE DEF b, s
    <3>. QED
      BY <3>2, <3>4, <3>5, <3>6, ContentByBytes
  <2>. QED
    BY <2>1, <2>2
<1>5. Become(b, TRUE)
  BY DEF BufRetrieve
<1>6. BufTypeOK' /\ Content(Buf)' = Content(b)
  <2>. HIDE DEF b
  <2>. QED
    BY <1>4, <1>5, BecomeIs
<1>. QED
  BY <1>1, <1>4, <1>6 DEF Queue!Pop

\* unwrite takes bytes from the back.
LEMMA UnwriteStep ==
    ASSUME BufTypeOK, NEW len \in Nat, BufUnwrite(len)
    PROVE  BufTypeOK' /\ Queue!Unpush(len) /\ len \in 0..Len(Content(Buf))
<1>0. /\ mem \in Seq(Bytes) /\ readerIndex \in Nat /\ writerIndex \in Nat
      /\ readerIndex <= writerIndex /\ writerIndex <= Len(mem) /\ kCheapPrepend <= Len(mem)
  BY DEF BufTypeOK
<1>1. len <= writerIndex - readerIndex /\ len \in 0..Len(Content(Buf))
  BY <1>0, BufContent DEF BufUnwrite
<1>. DEFINE b == [Buf EXCEPT !.w = Buf.w - len]
            c == Content(Buf)
            s == SubSeq(c, 1, Len(c) - len)
<1>2. c \in Seq(Bytes) /\ Len(c) = writerIndex - readerIndex
      /\ \A i \in 1..Len(c) : c[i] = mem[readerIndex + i]
  BY BufContent
<1>3. s \in Seq(Bytes) /\ Len(s) = Len(c) - len /\ \A i \in 1..Len(s) : s[i] = c[i]
  <2>. HIDE DEF c
  <2>. DEFINE n == Len(c) - len
  <2>1. n \in Nat /\ n <= Len(c)
    BY <1>0, <1>1, <1>2
  <2>. HIDE DEF n
  <2>2. SubSeq(c, 0 + 1, n) \in Seq(Bytes) /\ Len(SubSeq(c, 0 + 1, n)) = n - 0
    BY <1>2, <2>1, SubSeqIs
  <2>3. \A i \in 1..(n - 0) : SubSeq(c, 0 + 1, n)[i] = c[0 + i]
    BY <1>2, <2>1, SubSeqIs
  <2>. QED
    BY <2>1, <2>2, <2>3 DEF n
<1>4. b = [mem |-> mem, r |-> readerIndex, w |-> writerIndex - len]
  BY DEF Buf
<1>5. b \in Buffers
  BY <1>0, <1>1, <1>4 DEF Buffers
<1>6. Len(s) = b.w - b.r /\ b.r = readerIndex /\ b.mem = mem
  <2>1. b.w = writerIndex - len /\ b.r = readerIndex /\ b.mem = mem
    BY <1>4
  <2>2. Len(s) = (writerIndex - readerIndex) - len
    BY <1>2, <1>3
  <2>. HIDE DEF b, s
  <2>. QED
    BY <1>0, <2>1, <2>2
<1>7. \A i \in 1..Len(s) : b.mem[b.r + i] = s[i]
  <2>. SUFFICES ASSUME NEW i \in 1..Len(s) PROVE mem[readerIndex + i] = s[i]
    BY <1>6
  <2>1. i \in 1..Len(c)
    BY <1>0, <1>1, <1>2, <1>3
  <2>. QED
    BY <1>2, <1>3, <2>1
<1>8. Become(b, TRUE)
  BY DEF BufUnwrite
<1>9. Content(b) = s
  <2>. HIDE DEF b, s
  <2>. QED
    BY <1>3, <1>5, <1>6, <1>7, ContentByBytes
<1>10. BufTypeOK' /\ Content(Buf)' = Content(b)
  <2>. HIDE DEF b
  <2>. QED
    BY <1>5, <1>8, BecomeIs
<1>. QED
  BY <1>1, <1>9, <1>10 DEF Queue!Unpush

\* prepend puts bytes in front of the content, where there is room.
LEMMA PrependStep ==
    ASSUME BufTypeOK, NEW data \in Datas, BufPrepend(data)
    PROVE  BufTypeOK' /\ Queue!PushFront(data)
<1>0. /\ mem \in Seq(Bytes) /\ readerIndex \in Nat /\ writerIndex \in Nat /\ Len(mem) \in Nat
      /\ readerIndex <= writerIndex /\ writerIndex <= Len(mem) /\ kCheapPrepend <= Len(mem)
      /\ data \in Seq(Bytes) /\ Len(data) \in Nat /\ Len(data) <= readerIndex
  BY DatasAreBytes DEF BufTypeOK, BufPrepend, PrependableBytes, Buf
<1>. DEFINE r == readerIndex - Len(data)
            m == Copy(mem, data, r)
            b == [Buf EXCEPT !.r = r, !.mem = m]
            c == Content(Buf)
            s == data \o c
<1>1. r \in Nat
  BY <1>0
<1>2. m \in Seq(Bytes) /\ Len(m) = Len(mem)
  <2>. HIDE DEF r
  <2>. QED
    BY <1>0, <1>1, CopyType
<1>3. b \in [mem : Seq(Bytes), r : Nat, w : Nat] /\ b.mem = m /\ b.r = r /\ b.w = writerIndex
  <2>. DEFINE a == Buf
  <2>1. a \in [mem : Seq(Bytes), r : Nat, w : Nat] /\ a.w = writerIndex
    BY <1>0 DEF Buf
  <2>. HIDE DEF m, r, a
  <2>2. [a EXCEPT !.r = r, !.mem = m] \in [mem : Seq(Bytes), r : Nat, w : Nat]
    BY <1>1, <1>2, <2>1
  <2>3. [a EXCEPT !.r = r, !.mem = m].mem = m /\ [a EXCEPT !.r = r, !.mem = m].r = r
        /\ [a EXCEPT !.r = r, !.mem = m].w = a.w
    BY <2>1
  <2>. QED
    BY <2>1, <2>2, <2>3 DEF a
<1>4. b \in Buffers
  <2>1. r <= writerIndex /\ writerIndex <= Len(m) /\ kCheapPrepend <= Len(m)
    BY <1>0, <1>2
  <2>. HIDE DEF b, m, r
  <2>. QED
    BY <1>3, <2>1 DEF Buffers
<1>5. c \in Seq(Bytes) /\ Len(c) = writerIndex - readerIndex
      /\ \A i \in 1..Len(c) : c[i] = mem[readerIndex + i]
  BY BufContent
<1>6. /\ s \in Seq(Bytes) /\ Len(s) = Len(data) + Len(c)
      /\ \A i \in 1..Len(data) : s[i] = data[i]
      /\ \A i \in 1..Len(c) : s[Len(data) + i] = c[i]
  BY <1>0, <1>5, ConcatIs
<1>7. Len(s) = b.w - b.r /\ b.r = r /\ b.mem = m
  <2>1. Len(s) = writerIndex - r
    BY <1>0, <1>5, <1>6
  <2>. HIDE DEF b, m, r
  <2>. QED
    BY <1>3, <2>1
<1>8. \A i \in 1..Len(s) : b.mem[b.r + i] = s[i]
  <2>. SUFFICES ASSUME NEW i \in 1..Len(s) PROVE m[r + i] = s[i]
    BY <1>7
  <2>0. r + i \in 1..Len(mem)
    BY <1>0, <1>1, <1>5, <1>6
  <2>1. CASE i <= Len(data)
    <3>2. r + i - r = i /\ i \in 1..Len(data)
      BY <1>0, <1>1, <2>1
    <3>3. r + i > r /\ r + i <= r + Len(data)
      BY <1>0, <1>1, <2>1
    <3>. HIDE DEF r
    <3>1. m[r + i] = data[r + i - r]
      BY <1>0, <1>1, <2>0, <3>3 DEF Copy
    <3>. QED
      BY <1>6, <3>1, <3>2
  <2>2. CASE ~(i <= Len(data))
    <3>. DEFINE j == i - Len(data)
    <3>1. j \in 1..Len(c) /\ Len(data) + j = i /\ readerIndex + j = r + i
      BY <1>0, <1>5, <1>6, <2>2
    <3>2. m[r + i] = mem[r + i]
      BY <1>0, <1>1, <2>0, <2>2 DEF Copy
    <3>3. s[Len(data) + j] = c[j] /\ c[j] = mem[readerIndex + j]
      BY <1>5, <1>6, <3>1
    <3>. QED
      BY <3>1, <3>2, <3>3
  <2>. QED
    BY <2>1, <2>2
<1>9. Become(b, TRUE)
  BY DEF BufPrepend
<1>10. Content(b) = s
  <2>. HIDE DEF b, s
  <2>. QED
    BY <1>4, <1>6, <1>7, <1>8, ContentByBytes
<1>11. BufTypeOK' /\ Content(Buf)' = Content(b)
  <2>. HIDE DEF b
  <2>. QED
    BY <1>4, <1>9, BecomeIs
<1>. QED
  BY <1>10, <1>11 DEF Queue!PushFront

\* shrink copies the content into a buffer of its own and leaves it as it is.
LEMMA ShrinkStep ==
    ASSUME BufTypeOK, NEW reserve \in Nat, BufShrink(reserve)
    PROVE  BufTypeOK' /\ UNCHANGED Content(Buf)
<1>. DEFINE n == ReadableBytes(Buf) + reserve
            other == EnsureWritableBytes(NewBuffer, n)
            c == Content(Buf)
            b == AppendBytes(other, c)
<1>1. c \in Seq(Bytes) /\ Len(c) = ReadableBytes(Buf) /\ n \in Nat
  <2>1. writerIndex - readerIndex \in Nat
    BY DEF BufTypeOK
  <2>. QED
    BY <2>1, BufContent
<1>2. other \in Buffers /\ Content(other) = Content(NewBuffer) /\ EnsureAsserts(NewBuffer, n)
  <2>. HIDE DEF n
  <2>. QED
    BY <1>1, NewBufferIs, EnsureIs
<1>3. b \in Buffers /\ Content(b) = Content(other) \o c /\ EnsureAsserts(other, Len(c))
  <2>. HIDE DEF other, c
  <2>. QED
    BY <1>1, <1>2, AppendIs
<1>4. Content(other) \o c = c
  <2>1. Content(other) = <<>>
    BY <1>2, NewBufferIs
  <2>. HIDE DEF other, c
  <2>. QED
    BY <1>1, <2>1
<1>5. Become(b, EnsureAsserts(NewBuffer, n) /\ EnsureAsserts(other, ReadableBytes(Buf)))
  BY DEF BufShrink
<1>6. EnsureAsserts(NewBuffer, n) /\ EnsureAsserts(other, ReadableBytes(Buf))
  BY <1>1, <1>2, <1>3
<1>7. BufTypeOK' /\ Content(Buf)' = Content(b)
  <2>. HIDE DEF b, n, other
  <2>. QED
    BY <1>3, <1>5, <1>6, BecomeIs
<1>. QED
  BY <1>3, <1>4, <1>7

\* readFd pushes what it read, in one or in two parts.
LEMMA ReadFdStep ==
    ASSUME BufTypeOK, NEW data \in Datas, BufReadFd(data)
    PROVE  BufTypeOK' /\ Queue!Push(data)
<1>. DEFINE room == WritableBytes(Buf)
            n == IF Len(data) <= room THEN Len(data) ELSE room
            front == SubSeq(data, 1, n)
            rest == SubSeq(data, n + 1, Len(data))
            filled == [Buf EXCEPT !.mem = Copy(mem, front, writerIndex), !.w = Buf.w + n]
<1>0. data \in Seq(Bytes) /\ Len(data) \in Nat /\ Buf \in Buffers /\ Buf.mem = mem /\ Buf.w = writerIndex
  BY DatasAreBytes, BufInOrder DEF Buf
<1>1. room \in Nat
  BY DEF BufTypeOK, WritableBytes, Buf
<1>2. n \in Nat /\ n <= Len(data) /\ n <= room
  <2>. HIDE DEF room
  <2>. QED
    BY <1>0, <1>1
<1>3. front \in Seq(Bytes) /\ Len(front) = n /\ \A i \in 1..n : front[i] = data[i]
  <2>. HIDE DEF n
  <2>1. SubSeq(data, 0 + 1, n) \in Seq(Bytes) /\ Len(SubSeq(data, 0 + 1, n)) = n - 0
    BY <1>0, <1>2, SubSeqIs
  <2>2. \A i \in 1..(n - 0) : SubSeq(data, 0 + 1, n)[i] = data[0 + i]
    BY <1>0, <1>2, SubSeqIs
  <2>. QED
    BY <1>2, <2>1, <2>2
<1>4. rest \in Seq(Bytes) /\ Len(rest) = Len(data) - n /\ \A i \in 1..(Len(data) - n) : rest[i] = data[n + i]
  <2>. HIDE DEF n
  <2>1. rest \in Seq(Bytes)
    BY <1>0, <1>2, SubSeqIs
  <2>2. Len(rest) = Len(data) - n
    BY <1>0, <1>2, SubSeqIs
  <2>3. \A i \in 1..(Len(data) - n) : rest[i] = data[n + i]
    BY <1>0, <1>2, SubSeqIs
  <2>. QED
    BY <2>1, <2>2, <2>3
<1>5. data = front \o rest
  <2>. DEFINE s == front \o rest
  <2>. HIDE DEF n, front, rest
  <2>1. s \in Seq(Bytes) /\ Len(s) = n + (Len(data) - n)
        /\ (\A i \in 1..n : s[i] = front[i]) /\ (\A i \in 1..(Len(data) - n) : s[n + i] = rest[i])
    <3>0. front \in Seq(Bytes) /\ rest \in Seq(Bytes) /\ Len(front) = n /\ Len(rest) = Len(data) - n
      BY <1>3, <1>4
    <3>1. s \in Seq(Bytes)
      BY <3>0, ConcatIs
    <3>2. Len(s) = Len(front) + Len(rest)
      BY <3>0, ConcatIs
    <3>3. \A i \in 1..Len(front) : s[i] = front[i]
      BY <3>0, ConcatIs
    <3>4. \A i \in 1..Len(rest) : s[Len(front) + i] = rest[i]
      BY <3>0, ConcatIs
    <3>. HIDE DEF s
    <3>. QED
      BY <3>0, <3>1, <3>2, <3>3, <3>4
  <2>2. \A i \in 1..Len(data) : s[i] = data[i]
    <3>. SUFFICES ASSUME NEW i \in 1..Len(data) PROVE s[i] = data[i]
      OBVIOUS
    <3>1. CASE i <= n
      BY <1>2, <1>3, <2>1, <3>1
    <3>2. CASE ~(i <= n)
      <4>1. i - n \in 1..(Len(data) - n) /\ n + (i - n) = i
        BY <1>0, <1>2, <3>2
      <4>. QED
        BY <1>4, <2>1, <4>1
    <3>. QED
      BY <3>1, <3>2
  <2>3. Len(s) = Len(data)
    BY <1>0, <1>2, <2>1
  <2>. HIDE DEF s
  <2>4. s = data
    BY <1>0, <2>1, <2>2, <2>3
  <2>. QED
    BY <2>4 DEF s
<1>6. filled \in Buffers /\ Content(filled) = Content(Buf) \o front
  <2>. DEFINE b == Buf
  <2>1. b \in Buffers /\ Len(front) <= WritableBytes(b)
    BY <1>0, <1>2, <1>3
  <2>. HIDE DEF b, front, n
  <2>2. [b EXCEPT !.mem = Copy(b.mem, front, b.w), !.w = b.w + Len(front)] \in Buffers
        /\ Content([b EXCEPT !.mem = Copy(b.mem, front, b.w), !.w = b.w + Len(front)]) = Content(b) \o front
    BY <1>3, <2>1, CopiedBehind
  <2>3. filled = [b EXCEPT !.mem = Copy(b.mem, front, b.w), !.w = b.w + Len(front)]
    BY <1>0, <1>3 DEF b
  <2>. QED
    BY <2>2, <2>3 DEF b
<1>7. CASE rest = <<>>
  <2>1. Become(filled, TRUE)
    BY <1>7 DEF BufReadFd
  <2>2. BufTypeOK' /\ Content(Buf)' = Content(filled)
    <3>. HIDE DEF filled
    <3>. QED
      BY <1>6, <2>1, BecomeIs
  <2>3. front = data
    <3>. HIDE DEF front, rest
    <3>. QED
      BY <1>3, <1>5, <1>7
  <2>. QED
    BY <1>6, <2>2, <2>3 DEF Queue!Push
<1>8. CASE rest # <<>>
  <2>1. Become(AppendBytes(filled, rest), EnsureAsserts(filled, Len(rest)))
    BY <1>8 DEF BufReadFd
  <2>2. AppendBytes(filled, rest) \in Buffers /\ Content(AppendBytes(filled, rest)) = Content(filled) \o rest
        /\ EnsureAsserts(filled, Len(rest))
    <3>. HIDE DEF filled, rest
    <3>. QED
      BY <1>4, <1>6, AppendIs
  <2>3. BufTypeOK' /\ Content(Buf)' = Content(filled) \o rest
    <3>. HIDE DEF filled, rest
    <3>. QED
      BY <2>1, <2>2, BecomeIs
  <2>4. (Content(Buf) \o front) \o rest = Content(Buf) \o (front \o rest)
    <3>. HIDE DEF front, rest
    <3>1. Content(Buf) \in Seq(Bytes) /\ front \in Seq(Bytes) /\ rest \in Seq(Bytes)
      BY <1>3, <1>4, BufContent
    <3>. QED
      BY <3>1, ConcatAssoc
  <2>. QED
    BY <1>5, <1>6, <2>3, <2>4 DEF Queue!Push
<1>. QED
  BY <1>7, <1>8

-----------------------------------------------------------------------------
\* A new buffer is in order, and empty.
LEMMA InitInOrder == BufInit => BufTypeOK /\ Content(Buf) = <<>>
<1>. SUFFICES ASSUME BufInit PROVE BufTypeOK /\ Content(Buf) = <<>>
  OBVIOUS
<1>1. NewBuffer \in Buffers /\ Content(NewBuffer) = <<>>
  BY NewBufferIs
<1>2. mem = NewBuffer.mem /\ readerIndex = NewBuffer.r /\ writerIndex = NewBuffer.w /\ asserts = TRUE
  BY DEF BufInit
<1>3. BufTypeOK
  BY <1>1, <1>2 DEF Buffers, BufTypeOK
<1>4. Content(Buf) = Content(NewBuffer)
  BY <1>2 DEF Content, Buf
<1>. QED
  BY <1>1, <1>3, <1>4

\* Every operation keeps the buffer in order and is an operation of the queue,
\* or leaves the queue alone.
LEMMA StepInOrder ==
    ASSUME BufTypeOK, BufNext
    PROVE  BufTypeOK' /\ (Queue!QueueNext \/ UNCHANGED Content(Buf))
<1>. DEFINE Goal == BufTypeOK' /\ (Queue!QueueNext \/ UNCHANGED Content(Buf))
<1>1. ASSUME NEW data \in Datas, BufAppend(data) \/ BufReadFd(data) PROVE Goal
  <2>1. BufTypeOK' /\ Queue!Push(data)
    BY <1>1, AppendStep, ReadFdStep
  <2>. QED
    BY <2>1 DEF Queue!QueueNext
<1>2. ASSUME NEW data \in Datas, BufPrepend(data) PROVE Goal
  <2>1. BufTypeOK' /\ Queue!PushFront(data)
    BY <1>2, PrependStep
  <2>. QED
    BY <2>1 DEF Queue!QueueNext
<1>3. ASSUME NEW n \in 1..MaxData, NEW x \in Ints(n), BufAppendInt(x, n) \/ BufPrependInt(x, n) PROVE Goal
  <2>. DEFINE data == HostToNetwork(x, n)
  <2>1. data \in Datas
    BY IntsAreDatas
  <2>2. BufAppend(data) \/ BufPrepend(data)
    BY <1>3 DEF BufAppendInt, BufPrependInt
  <2>. HIDE DEF data, Goal
  <2>. QED
    BY <1>1, <1>2, <2>1, <2>2
<1>4. ASSUME NEW n \in 0..MaxBytes, BufRetrieve(n) PROVE Goal
  <2>0. n \in Nat
    BY Sizes
  <2>1. BufTypeOK' /\ Queue!Pop(n) /\ n \in 0..Len(Content(Buf))
    BY <1>4, <2>0, RetrieveStep
  <2>. QED
    BY <2>1 DEF Queue!QueueNext
<1>5. ASSUME NEW n \in 0..MaxBytes, BufUnwrite(n) PROVE Goal
  <2>0. n \in Nat
    BY Sizes
  <2>1. BufTypeOK' /\ Queue!Unpush(n) /\ n \in 0..Len(Content(Buf))
    BY <1>5, <2>0, UnwriteStep
  <2>. QED
    BY <2>1 DEF Queue!QueueNext
<1>6. ASSUME NEW n \in 0..MaxData, BufShrink(n) PROVE Goal
  <2>0. n \in Nat
    BY Sizes
  <2>. QED
    BY <1>6, <2>0, ShrinkStep
<1>. HIDE DEF Goal
<1>7. Goal
  BY <1>1, <1>2, <1>3, <1>4, <1>5, <1>6 DEF BufNext
<1>. QED
  BY <1>7 DEF Goal

\* A step that changes nothing keeps order and content.
LEMMA IdleInOrder ==
    ASSUME BufTypeOK, UNCHANGED bufVars
    PROVE  BufTypeOK' /\ UNCHANGED Content(Buf)
<1>1. mem' = mem /\ readerIndex' = readerIndex /\ writerIndex' = writerIndex /\ asserts' = asserts
  BY DEF bufVars
<1>2. BufTypeOK'
  BY <1>1 DEF BufTypeOK
<1>. QED
  BY <1>1, <1>2 DEF Content, Buf

\* For every size of the cheap prepend, of a new buffer and of readFd's second
\* buffer: reads and writes stay inside the vector (buffer.h's picture), and the
\* asserts of append, makeSpace and shrink hold.
THEOREM BufferInOrder == BufSpec => []BufTypeOK
<1>1. BufInit => BufTypeOK
  BY InitInOrder
<1>2. BufTypeOK /\ [BufNext]_bufVars => BufTypeOK'
  BY StepInOrder, IdleInOrder
<1>. QED
  BY <1>1, <1>2, PTL DEF BufSpec

\* net::Buffer implements a queue of bytes: whatever is appended, prepended or
\* read from a socket is retrieved once and in order.
THEOREM BufferIsQueue == BufSpec => Queue!QueueSpec
<1>1. BufInit => Queue!QueueInit
  BY InitInOrder DEF Queue!QueueInit
<1>2. BufTypeOK /\ [BufNext]_bufVars => [Queue!QueueNext]_(Content(Buf))
  BY StepInOrder, IdleInOrder
<1>. QED
  BY <1>1, <1>2, BufferInOrder, PTL DEF BufSpec, Queue!QueueSpec

\* Each operation of net::Buffer is the operation of the queue it stands for.
THEOREM BufferOps == BufSpec => OpsOfQueue
<1>. DEFINE Ops ==
        /\ \A data \in Datas :
              /\ BufAppend(data) \/ BufReadFd(data) => Queue!Push(data)
              /\ BufPrepend(data) => Queue!PushFront(data)
        /\ \A n \in 0..MaxBytes :
              /\ BufRetrieve(n) => Queue!Pop(n)
              /\ BufUnwrite(n) => Queue!Unpush(n)
        /\ \A n \in 0..MaxData : BufShrink(n) => UNCHANGED Content(Buf)
<1>1. BufTypeOK => Ops
  <2>. SUFFICES ASSUME BufTypeOK PROVE Ops
    OBVIOUS
  <2>1. \A data \in Datas :
            /\ BufAppend(data) \/ BufReadFd(data) => Queue!Push(data)
            /\ BufPrepend(data) => Queue!PushFront(data)
    BY AppendStep, ReadFdStep, PrependStep
  <2>2. \A n \in 0..MaxBytes : n \in Nat
    BY Sizes
  <2>3. \A n \in 0..MaxData : n \in Nat
    BY Sizes
  <2>4. \A n \in 0..MaxBytes : (BufRetrieve(n) => Queue!Pop(n)) /\ (BufUnwrite(n) => Queue!Unpush(n))
    BY <2>2, RetrieveStep, UnwriteStep
  <2>5. \A n \in 0..MaxData : BufShrink(n) => UNCHANGED Content(Buf)
    BY <2>3, ShrinkStep
  <2>. QED
    BY <2>1, <2>4, <2>5
<1>2. BufTypeOK /\ [BufNext]_bufVars => [Ops]_bufVars
  BY <1>1
<1>. QED
  BY <1>1, BufferInOrder, PTL DEF BufSpec, OpsOfQueue
=============================================================================
