-------------------------- MODULE TCPReceiveBuffer --------------------------
(***************************************************************************)
(* tcp/tcp_receivebuffer: the receive buffer with the sliding window       *)
(* aspect (TCP_ReceiveBuffer_SlidingWindow.ah), as operators on its state. *)
(*                                                                         *)
(* The linked list of TCP_RecvElements is a sequence; recv_continuous is   *)
(* the index of the last element that continues the stream without a gap,  *)
(* 0 for the null pointer.  An element with n bytes left holds the bytes   *)
(* data .. data + n - 1 of the sender's stream.                            *)
(***************************************************************************)
EXTENDS TCP, Sequences, SequencesExt

CONSTANT TCP_RECEIVEBUFFER_MAX_PACKETS   \* elements of the free list

ASSUME ReceiveBufferAssumption == TCP_RECEIVEBUFFER_MAX_PACKETS \in Nat \ {0}

EmptyReceiveBuffer ==
    [list |-> <<>>, recv_continuous |-> 0, recv_bytes |-> 0,
     read_firstSeqNum |-> 0, pushFlag |-> FALSE]

\* setFirstSeqNum() touches nothing else, in particular not the list.
setFirstSeqNum(rb, seqNum) == [rb EXCEPT !.read_firstSeqNum = seqNum]

getNextSeqNum(e) == SeqAdd(e.seqNum, e.len)

getAckNum(rb) ==
    IF rb.recv_continuous = 0 THEN rb.read_firstSeqNum
    ELSE getNextSeqNum(rb.list[rb.recv_continuous])

getRecvBytes(rb) == rb.recv_bytes

Bytes(list) ==
    LET sum[k \in 0 .. Len(list)] == IF k = 0 THEN 0 ELSE sum[k - 1] + list[k].len
    IN  sum[Len(list)]

\* Mutant of EndOfRun: gaps are not noticed.
EndOfRunOverGaps(list, from) == Len(list)

\* The last element of the gapless run of elements that starts at from.
EndOfRun(list, from) ==
    CHOOSE k \in from .. Len(list) :
        /\ \A i \in from .. k - 1 :
              getNextSeqNum(list[i]) = list[i + 1].seqNum
        /\ k < Len(list) => getNextSeqNum(list[k]) /= list[k + 1].seqNum

\* Mutant of updateContinuous: the bytes behind the new segment that it
\* joins to the stream are not counted.
updateContinuousOneOnly(rb) ==
    LET headStarts == /\ rb.list /= <<>>
                      /\ rb.read_firstSeqNum = rb.list[1].seqNum
        start == IF rb.recv_continuous = 0 THEN 1 ELSE rb.recv_continuous
        bytes == IF rb.recv_continuous = 0 THEN rb.list[1].len
                                           ELSE rb.recv_bytes
    IN  IF rb.recv_continuous = 0 /\ ~headStarts THEN rb
        ELSE [rb EXCEPT !.recv_continuous = EndOfRun(rb.list, start),
                        !.recv_bytes = bytes]

\* Mutant of updateContinuous: the head is not compared with the reading
\* position.
updateContinuousAnyHead(rb) ==
    LET start == IF rb.recv_continuous = 0 THEN 1 ELSE rb.recv_continuous
        bytes == IF rb.recv_continuous = 0 THEN rb.list[1].len
                                           ELSE rb.recv_bytes
        end   == EndOfRun(rb.list, start)
    IN  [rb EXCEPT
            !.recv_continuous = end,
            !.recv_bytes = bytes + Bytes(SubSeq(rb.list, start + 1, end))]

updateContinuous(rb) ==
    LET headStarts == /\ rb.list /= <<>>
                      /\ rb.read_firstSeqNum = rb.list[1].seqNum
        start == IF rb.recv_continuous = 0 THEN 1 ELSE rb.recv_continuous
        bytes == IF rb.recv_continuous = 0 THEN rb.list[1].len
                                           ELSE rb.recv_bytes
        end   == EndOfRun(rb.list, start)
    IN  IF rb.recv_continuous = 0 /\ ~headStarts THEN rb
        ELSE [rb EXCEPT
                !.recv_continuous = end,
                !.recv_bytes = bytes + Bytes(SubSeq(rb.list, start + 1, end))]

\* Mutant of InsertPosition: off by one at the end of an element.
InsertPositionInclusive(rb, seqnum) ==
    LET first == IF rb.recv_continuous = 0 THEN 1 ELSE rb.recv_continuous
        beyond == {i \in first .. Len(rb.list) :
                      SEQ_LEQ(seqnum, getNextSeqNum(rb.list[i]))}
    IN  IF beyond = {} THEN Len(rb.list) + 1 ELSE Min(beyond)

\* The index before which insert() puts a segment that starts at seqnum:
\* the first element, from recv_continuous on, that does not end before it.
InsertPosition(rb, seqnum) ==
    LET first == IF rb.recv_continuous = 0 THEN 1 ELSE rb.recv_continuous
        beyond == {i \in first .. Len(rb.list) :
                      SEQ_LT(seqnum, getNextSeqNum(rb.list[i]))}
    IN  IF beyond = {} THEN Len(rb.list) + 1 ELSE Min(beyond)

\* Mutant of CanInsert: the free list is not tested.
CanInsertUnbounded(rb, seqnum) ==
    LET pos == InsertPosition(rb, seqnum)
    IN  /\ ~SEQ_LT(seqnum, rb.read_firstSeqNum)
        /\ pos <= Len(rb.list) =>
              /\ ~SEQ_GEQ(seqnum, rb.list[pos].seqNum)
              /\ pos /= rb.recv_continuous
\* Mutant of CanInsert: off by one at the reading position.
CanInsertBehindFirst(rb, seqnum) ==
    LET pos == InsertPosition(rb, seqnum)
    IN  /\ Len(rb.list) < TCP_RECEIVEBUFFER_MAX_PACKETS
        /\ ~SEQ_LEQ(seqnum, rb.read_firstSeqNum)
        /\ pos <= Len(rb.list) =>
              /\ ~SEQ_GEQ(seqnum, rb.list[pos].seqNum)
              /\ pos /= rb.recv_continuous

\* The conditions under which insert() returns true.
CanInsert(rb, seqnum) ==
    LET pos == InsertPosition(rb, seqnum)
    IN  /\ Len(rb.list) < TCP_RECEIVEBUFFER_MAX_PACKETS
        /\ ~SEQ_LT(seqnum, rb.read_firstSeqNum)
        /\ pos <= Len(rb.list) =>
              /\ ~SEQ_GEQ(seqnum, rb.list[pos].seqNum)
              /\ pos /= rb.recv_continuous

\* insert() of a segment it accepts.
insert(rb, seg, seqnum, len) ==
    LET element == [seqNum |-> seqnum, len |-> len, data |-> seg.data]
        linked  == [rb EXCEPT !.list =
                      InsertAt(@, InsertPosition(rb, seqnum), element)]
    IN  [updateContinuous(linked) EXCEPT
            !.pushFlag = @ \/ has(seg, "PSH")]

\* copyData(): how many elements a read of len bytes consumes completely,
\* and how many bytes it takes from the element after them.
Consumed(rb, len) ==
    CHOOSE k \in 0 .. Len(rb.list) :
        /\ Bytes(SubSeq(rb.list, 1, k)) <= len
        /\ k < Len(rb.list) => Bytes(SubSeq(rb.list, 1, k + 1)) > len
Remainder(rb, len) == len - Bytes(SubSeq(rb.list, 1, Consumed(rb, len)))

\* Mutant of increment: the data pointer is not moved.
incrementSeqOnly(e, inc) ==
    [seqNum |-> SeqAdd(e.seqNum, inc), len |-> e.len - inc, data |-> e.data]

increment(e, inc) ==
    [seqNum |-> SeqAdd(e.seqNum, inc), len |-> e.len - inc,
     data |-> e.data + inc]

copyData(rb, len) ==
    LET k    == Consumed(rb, len)
        rest == SubSeq(rb.list, k + 1, Len(rb.list))
        part == Remainder(rb, len)
    IN  [list |-> IF part > 0 /\ rest /= <<>>
                  THEN [rest EXCEPT ![1] = increment(@, part)] ELSE rest,
         recv_continuous |-> IF rb.recv_continuous <= k THEN 0
                             ELSE rb.recv_continuous - k,
         recv_bytes |-> rb.recv_bytes - len,
         read_firstSeqNum |-> SeqAdd(rb.read_firstSeqNum, len),
         pushFlag |-> rb.pushFlag /\ ~(k > 0 /\ rest = <<>>)]

\* The bytes of the stream that copyData() writes to its destination.
BytesOf(e, n) == [i \in 1 .. n |-> e.data + i - 1]
copiedBytes(rb, len) ==
    LET k     == Consumed(rb, len)
        whole == [i \in 1 .. k |-> BytesOf(rb.list[i], rb.list[i].len)]
        part  == IF k < Len(rb.list)
                 THEN BytesOf(rb.list[k + 1], Remainder(rb, len)) ELSE <<>>
    IN  FlattenSeq(whole) \o part

-----------------------------------------------------------------------------
(* TCP_ReceiveBuffer without the aspect: one element, the head.            *)

getAckNumSingle(rb) == IF rb.list = <<>> THEN rb.read_firstSeqNum ELSE getNextSeqNum(rb.list[1])

getRecvBytesSingle(rb) == IF rb.list = <<>> THEN 0 ELSE rb.list[1].len

CanInsertSingle(rb, seqnum) == seqnum = rb.read_firstSeqNum /\ rb.list = <<>>

insertSingle(rb, seg, seqnum, len) ==
    [rb EXCEPT !.list = <<[seqNum |-> seqnum, len |-> len, data |-> seg.data]>>,
               !.pushFlag = @ \/ has(seg, "PSH")]

copyDataSingle(rb, len) ==
    LET whole == rb.list[1].len = len
    IN  [rb EXCEPT !.read_firstSeqNum = SeqAdd(@, len),
                   !.list = IF whole THEN <<>> ELSE <<increment(@[1], len)>>,
                   !.pushFlag = @ /\ ~whole]
=============================================================================
