----------------------------- MODULE NetBuffer ------------------------------
(***************************************************************************)
(* net::Buffer: a vector of bytes of which the part from readerIndex_ to   *)
(* writerIndex_ is the content.  Indexes are those of the code, so byte i  *)
(* of buffer_ is mem[i + 1].  The asserts on the arguments of an operation *)
(* are its guard; the others are kept in `asserts`.                        *)
(***************************************************************************)
EXTENDS Integers, Sequences

CONSTANTS
    Base,           \* number of values of a byte
    kCheapPrepend,  \* room kept in front
    kInitialSize,   \* room a new buffer has
    ExtraSize,      \* size of the extrabuf of readFd
    MaxBytes,       \* bound: bytes in the buffer
    MaxData         \* bound: bytes of one operation

ASSUME NetBufferAssumption ==
    /\ Base \in Nat \ {0}
    /\ {kCheapPrepend, kInitialSize, ExtraSize, MaxBytes, MaxData} \subseteq Nat

Bytes == 0..(Base - 1)

VARIABLES
    mem,          \* buffer_
    readerIndex,  \* readerIndex_
    writerIndex,  \* writerIndex_
    asserts       \* ghost: every assert so far held

bufVars == <<mem, readerIndex, writerIndex, asserts>>

\* A Buffer as a value, for the operations that several others use.
Buf == [mem |-> mem, r |-> readerIndex, w |-> writerIndex]

ReadableBytes(b) == b.w - b.r
WritableBytes(b) == Len(b.mem) - b.w
PrependableBytes(b) == b.r

\* peek and toStringPiece.
Content(b) == SubSeq(b.mem, b.r + 1, b.w)

NewBuffer ==
    [mem |-> [i \in 1..(kCheapPrepend + kInitialSize) |-> 0], r |-> kCheapPrepend, w |-> kCheapPrepend]

BufInit ==
    /\ mem = NewBuffer.mem
    /\ readerIndex = NewBuffer.r
    /\ writerIndex = NewBuffer.w
    /\ asserts = TRUE

\* std::copy of data to begin() + at.
Copy(m, data, at) ==
    [i \in 1..Len(m) |-> IF i > at /\ i <= at + Len(data) THEN data[i - at] ELSE m[i]]

\* vector::resize to a larger size.
Resize(m, n) == [i \in 1..n |-> IF i <= Len(m) THEN m[i] ELSE 0]

\* Mutant: the vector grows by one byte too few.
MakeSpace_OffByOne(b, len) ==
    IF WritableBytes(b) + PrependableBytes(b) < len + kCheapPrepend
    THEN [b EXCEPT !.mem = Resize(b.mem, b.w + len - 1)]
    ELSE [mem |-> Copy(b.mem, Content(b), kCheapPrepend),
          r |-> kCheapPrepend, w |-> kCheapPrepend + ReadableBytes(b)]

\* makeSpace moves the content to the front when that gives enough room.
MustGrow(b, len) == WritableBytes(b) + PrependableBytes(b) < len + kCheapPrepend
MakeSpace(b, len) ==
    IF MustGrow(b, len)
    THEN [b EXCEPT !.mem = Resize(b.mem, b.w + len)]
    ELSE [mem |-> Copy(b.mem, Content(b), kCheapPrepend),
          r |-> kCheapPrepend, w |-> kCheapPrepend + ReadableBytes(b)]
MakeSpaceAsserts(b, len) == MustGrow(b, len) \/ kCheapPrepend < b.r

EnsureWritableBytes(b, len) == IF WritableBytes(b) < len THEN MakeSpace(b, len) ELSE b
EnsureAsserts(b, len) ==
    /\ WritableBytes(b) < len => MakeSpaceAsserts(b, len)
    /\ WritableBytes(EnsureWritableBytes(b, len)) >= len

\* Mutant: the bytes are copied before there is room for them.
AppendBytes_Early(b, data) ==
    LET e == EnsureWritableBytes([b EXCEPT !.mem = Copy(b.mem, data, b.w)], Len(data)) IN
    [e EXCEPT !.w = @ + Len(data)]

\* append: ensureWritableBytes, copy, hasWritten.
AppendBytes(b, data) ==
    LET e == EnsureWritableBytes(b, Len(data)) IN
    [e EXCEPT !.mem = Copy(e.mem, data, e.w), !.w = @ + Len(data)]

RetrieveAll(b) == [b EXCEPT !.r = kCheapPrepend, !.w = kCheapPrepend]
Retrieve(b, len) == IF len < ReadableBytes(b) THEN [b EXCEPT !.r = @ + len] ELSE RetrieveAll(b)

\* An integer of n bytes in network byte order, and back (peekInt*).
HostToNetwork(x, n) == [i \in 1..n |-> (x \div Base ^ (n - i)) % Base]
NetworkToHost(be) ==
    LET value[i \in 0..Len(be)] == IF i = 0 THEN 0 ELSE value[i - 1] * Base + be[i]
    IN  value[Len(be)]
PeekInt(b, n) == NetworkToHost(SubSeq(Content(b), 1, n))
Ints(n) == 0..(Base ^ n - 1)

-----------------------------------------------------------------------------
Become(b, ok) ==
    /\ mem' = b.mem
    /\ readerIndex' = b.r
    /\ writerIndex' = b.w
    /\ asserts' = (asserts /\ ok)

Datas == UNION {[1..n -> Bytes] : n \in 0..MaxData}
Fits(n) == ReadableBytes(Buf) + n <= MaxBytes

BufAppend(data) ==
    /\ Fits(Len(data))
    /\ Become(AppendBytes(Buf, data), EnsureAsserts(Buf, Len(data)))

\* retrieve, retrieveUntil, retrieveAsString, retrieveAll and retrieveInt*.
BufRetrieve(len) ==
    /\ len <= ReadableBytes(Buf)
    /\ Become(Retrieve(Buf, len), TRUE)

BufUnwrite(len) ==
    /\ len <= ReadableBytes(Buf)
    /\ Become([Buf EXCEPT !.w = @ - len], TRUE)

\* prepend.
BufPrepend(data) ==
    LET r == readerIndex - Len(data) IN
    /\ Fits(Len(data))
    /\ Len(data) <= PrependableBytes(Buf)
    /\ Become([Buf EXCEPT !.r = r, !.mem = Copy(mem, data, r)], TRUE)

\* appendInt* and prependInt*.
BufAppendInt(x, n) == BufAppend(HostToNetwork(x, n))
BufPrependInt(x, n) == BufPrepend(HostToNetwork(x, n))

\* shrink copies the content into a new buffer and swaps.
BufShrink(reserve) ==
    LET other == EnsureWritableBytes(NewBuffer, ReadableBytes(Buf) + reserve) IN
    Become(AppendBytes(other, Content(Buf)),
           /\ EnsureAsserts(NewBuffer, ReadableBytes(Buf) + reserve)
           /\ EnsureAsserts(other, ReadableBytes(Buf)))

\* readFd: what does not fit behind the content goes to extrabuf and is appended.
BufReadFd(data) ==
    LET room == WritableBytes(Buf)
        n == IF Len(data) <= room THEN Len(data) ELSE room
        filled == [Buf EXCEPT !.mem = Copy(mem, SubSeq(data, 1, n), writerIndex), !.w = @ + n]
        rest == SubSeq(data, n + 1, Len(data))
    IN  /\ Fits(Len(data))
        /\ Len(data) <= room + (IF room < ExtraSize THEN ExtraSize ELSE 0)
        /\ IF rest = <<>> THEN Become(filled, TRUE)
           ELSE Become(AppendBytes(filled, rest), EnsureAsserts(filled, Len(rest)))

BufNext ==
    \/ \E data \in Datas : BufAppend(data) \/ BufPrepend(data) \/ BufReadFd(data)
    \/ \E n \in 1..MaxData : \E x \in Ints(n) : BufAppendInt(x, n) \/ BufPrependInt(x, n)
    \/ \E n \in 0..MaxBytes : BufRetrieve(n) \/ BufUnwrite(n)
    \/ \E n \in 0..MaxData : BufShrink(n)

BufSpec == BufInit /\ [][BufNext]_bufVars

-----------------------------------------------------------------------------
\* The picture in buffer.h: 0 <= readerIndex <= writerIndex <= size; and the
\* asserts inside append, makeSpace, shrink and readFd hold: there is room for
\* what is written, and content is only ever moved to the front.
BufTypeOK ==
    /\ mem \in Seq(Bytes)
    /\ readerIndex \in Nat /\ writerIndex \in Nat
    /\ readerIndex <= writerIndex /\ writerIndex <= Len(mem)
    /\ kCheapPrepend <= Len(mem)
    /\ asserts

\* The buffer is a queue of bytes: growing, moving the content, the cheap
\* prepend, an integer's bytes and the second part of a scattered read lose and
\* reorder none.
Queue == INSTANCE ByteQueue WITH queue <- Content(Buf)
OpsOfQueue ==
    [][/\ \A data \in Datas :
             /\ BufAppend(data) \/ BufReadFd(data) => Queue!Push(data)
             /\ BufPrepend(data) => Queue!PushFront(data)
       /\ \A n \in 0..MaxBytes :
             /\ BufRetrieve(n) => Queue!Pop(n)
             /\ BufUnwrite(n) => Queue!Unpush(n)
       /\ \A n \in 0..MaxData : BufShrink(n) => UNCHANGED Content(Buf)]_bufVars

\* An integer is read as it was written.
IntsReadBack == \A n \in 0..MaxData : \A x \in Ints(n) : NetworkToHost(HostToNetwork(x, n)) = x
=============================================================================
