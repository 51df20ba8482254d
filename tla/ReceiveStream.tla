---------------------------- MODULE ReceiveStream ----------------------------
(***************************************************************************)
(* The receive buffer of TCPReceiveBuffer.tla between its two users inside *)
(* TCP_Socket: handleData() inserts the segments of one connection, in the *)
(* order the network delivers them; established() copies the continuous    *)
(* bytes to the application.  How the peer cuts its stream into segments   *)
(* is open: this stack retransmits a segment as it was sent, other stacks  *)
(* may cut the stream differently when they retransmit.  A build has the   *)
(* buffer with the sliding window aspect or the one with a single element. *)
(***************************************************************************)
EXTENDS TCPReceiveBuffer

CONSTANTS
    ISN,        \* the sequence number of the first byte of the stream
    StreamLen,  \* bytes the peer sends on this connection
    Cuttings    \* the sets of segments <<first byte, length>> of a peer

ASSUME StreamAssumption ==
    /\ ISN \in SeqNum
    /\ StreamLen \in Nat /\ StreamLen < SEQMOD \div 2
    /\ Cuttings \subseteq SUBSET ((0 .. StreamLen - 1) \X (1 .. StreamLen))
    /\ \A cuts \in Cuttings : \A c \in cuts : c[1] + c[2] <= StreamLen

VARIABLES
    sliding,    \* is the sliding window aspect woven?
    cuts,       \* the segments this peer sends
    rb,         \* receiveBuffer
    delivered,  \* the bytes copied to the application so far
    rejected    \* the last segment insert() refused as a duplicate

vars == <<sliding, cuts, rb, delivered, rejected>>

None == <<0, 0>>

Init ==
    /\ sliding \in BOOLEAN
    /\ cuts \in Cuttings
    /\ rb = setFirstSeqNum(EmptyReceiveBuffer, ISN)
    /\ delivered = <<>>
    /\ rejected = None

SegmentOf(cut, flags) ==
    Segment(flags, SeqAdd(ISN, cut[1]), 0, 0, cut[2], cut[1])

\* The buffer's interface in either build.
Room == IF sliding THEN TCP_RECEIVEBUFFER_MAX_PACKETS ELSE 1
Acceptable(seqnum) == IF sliding THEN CanInsert(rb, seqnum) ELSE CanInsertSingle(rb, seqnum)
AckNum == IF sliding THEN getAckNum(rb) ELSE getAckNumSingle(rb)
RecvBytes == IF sliding THEN getRecvBytes(rb) ELSE getRecvBytesSingle(rb)

\* TCP_Socket::handleData(): a refused segment is freed by the caller.
\* Without room in the free list nothing is said about the segment; with
\* room, a refusal means that insert() took it for a duplicate.
handleData(cut, flags) ==
    LET seg == SegmentOf(cut, flags)
    IN  IF Acceptable(seg.seq)
        THEN /\ rb' = IF sliding THEN insert(rb, seg, seg.seq, seg.len)
                                 ELSE insertSingle(rb, seg, seg.seq, seg.len)
             /\ UNCHANGED <<sliding, cuts, delivered, rejected>>
        ELSE /\ rejected' = IF Len(rb.list) = Room THEN None ELSE cut
             /\ UNCHANGED <<sliding, cuts, rb, delivered>>

\* The read of established(): it never asks for more than getRecvBytes().
Read(len) ==
    /\ len <= RecvBytes
    /\ rb' = IF sliding THEN copyData(rb, len) ELSE copyDataSingle(rb, len)
    /\ delivered' = delivered \o copiedBytes(rb, len)
    /\ rejected' = None
    /\ UNCHANGED <<sliding, cuts>>

Next ==
    \/ \E cut \in cuts, flags \in {{}, {"PSH"}} : handleData(cut, flags)
    \/ \E len \in 1 .. StreamLen : Read(len)

Spec == Init /\ [][Next]_vars

-----------------------------------------------------------------------------
Continuous == IF sliding THEN SubSeq(rb.list, 1, rb.recv_continuous) ELSE rb.list

TypeOK ==
    /\ \A i \in DOMAIN rb.list :
          /\ rb.list[i].seqNum \in SeqNum
          /\ rb.list[i].len \in 1 .. StreamLen
          /\ rb.list[i].data \in 0 .. StreamLen - 1
    /\ sliding \in BOOLEAN /\ Len(rb.list) <= Room
    /\ rb.recv_continuous \in 0 .. Len(rb.list)
    /\ rb.recv_bytes \in 0 .. StreamLen
    /\ rb.read_firstSeqNum \in SeqNum
    /\ rb.pushFlag \in BOOLEAN
    /\ rejected \in cuts \cup {None}

\* The application reads the peer's stream: every byte once, in order,
\* whatever the order, the duplicates and the cuts in which it arrived and
\* whatever the sizes of the reads.
StreamInOrder == \A i \in DOMAIN delivered : delivered[i] = i - 1

\* getRecvBytes(), with the aspect the incrementally kept recv_bytes, is what
\* the two ends of the continuous data say: the advertised window and the
\* length of the next read both come from it.
RecvBytesExact ==
    /\ RecvBytes = Bytes(Continuous)
    /\ RecvBytes = SeqDiff(AckNum, rb.read_firstSeqNum)

\* Acknowledged bytes are there: the bytes from the reading position up to
\* getAckNum() are in the buffer, in order and without a hole.
AckedBytesBuffered ==
    /\ FlattenSeq([i \in DOMAIN Continuous |->
                      BytesOf(Continuous[i], Continuous[i].len)])
         = [i \in 1 .. RecvBytes |-> Len(delivered) + i - 1]
    /\ rb.read_firstSeqNum = SeqAdd(ISN, Len(delivered))

\* The peer retransmits its segments as it sent them: no two overlap.
Unchanged == \A c, d \in cuts : c = d \/ c[1] + c[2] <= d[1] \/ d[1] + d[2] <= c[1]

\* Against such a peer the stream cannot stall for ever behind data that is
\* buffered: the segment that starts at the acknowledged position is
\* acceptable while a list element is free.  (With overlapping segments it
\* can: once [2,4) and then [0,3) are buffered, byte 3 is never continuous.)
NextSegmentAcceptable ==
    Unchanged /\ Len(rb.list) < Room => Acceptable(AckNum)

\* insert() calls what it refuses a duplicate ("retransmission ->
\* duplicate -> ACK lost?"): against such a peer it is one, each of its
\* bytes is already buffered or read.  The single element buffer also refuses what
\* comes too early.
RefusedIsDuplicate ==
    Unchanged /\ rejected /= None /\ (sliding \/ rejected[1] <= Len(delivered)) =>
        \A b \in rejected[1] .. rejected[1] + rejected[2] - 1 :
            \/ b < Len(delivered)
            \/ \E i \in DOMAIN rb.list :
                  b \in rb.list[i].data .. rb.list[i].data + rb.list[i].len - 1
=============================================================================
