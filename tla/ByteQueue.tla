----------------------------- MODULE ByteQueue ------------------------------
(***************************************************************************)
(* What net::Buffer promises: a sequence of bytes that is written at the   *)
(* back, also unwritten there, and read or prepended to at the front.      *)
(***************************************************************************)
EXTENDS Integers, Sequences

CONSTANT Datas    \* what may be written at once
VARIABLE queue

QueueInit == queue = <<>>

Push(data) == queue' = queue \o data
PushFront(data) == queue' = data \o queue
Pop(n) == queue' = SubSeq(queue, n + 1, Len(queue))
Unpush(n) == queue' = SubSeq(queue, 1, Len(queue) - n)

QueueNext ==
    \/ \E data \in Datas : Push(data) \/ PushFront(data)
    \/ \E n \in 0..Len(queue) : Pop(n) \/ Unpush(n)

QueueSpec == QueueInit /\ [][QueueNext]_queue
=============================================================================
