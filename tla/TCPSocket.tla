----------------------------- MODULE TCPSocket -----------------------------
(***************************************************************************)
(* tcp/TCP_Socket.cpp and tcp/statemachine: the TCP socket and its state   *)
(* machine with the sliding window aspects, as operators on the socket.    *)
(*                                                                         *)
(* An operator named after a method takes the socket s and returns what    *)
(* the method makes of it.  s.out collects the segments handed to the      *)
(* interface, s.read the bytes copied to the application, s.buf is the     *)
(* position of application_buf in the stream the application writes.  The  *)
(* mempool is the number of its free blocks: a segment waiting in          *)
(* packetbuffer, an element of receiveBuffer and a record of history hold  *)
(* one block each.                                                         *)
(*                                                                         *)
(* What the environment decides during one call of input() is in env:      *)
(*   env.sent      the interface has finished the transmission of the      *)
(*                 segments in history (Interface::hasBeenSent),           *)
(*   env.timedOut  the records whose retransmission timeout has passed,    *)
(*   env.elapsed   the time input() asks about without a record is over.   *)
(***************************************************************************)
EXTENDS TCPReceiveBuffer, FiniteSets

CONSTANTS
    MSS,                      \* mss
    maxReceiveWindow_MSS,     \* the receive window in units of mss
    UNSIGNED_MAX,             \* the largest unsigned of the machine
    DEFAULT_MSS,
    WINDOW_MAX,               \* 0xFFFF, the largest window a segment can tell
    TCP_HISTORY_MAX_PACKETS,
    PACKET_LIMIT,             \* slots of the ring buffer packetbuffer
    COUNT,                    \* blocks of the mempool
    RetransmissionCounter,    \* is the aspect TCP_RetransmissionCounter woven?
    TCP_MAX_RETRANSMISSIONS

ASSUME SocketAssumption ==
    /\ {MSS, maxReceiveWindow_MSS, UNSIGNED_MAX, DEFAULT_MSS, WINDOW_MAX} \subseteq Nat \ {0}
    /\ {TCP_HISTORY_MAX_PACKETS, PACKET_LIMIT, COUNT} \subseteq Nat \ {0}
    /\ DEFAULT_MSS <= WINDOW_MAX
    /\ RetransmissionCounter \in BOOLEAN
    /\ TCP_MAX_RETRANSMISSIONS \in Nat

States == {"CLOSED", "LISTEN", "SYNSENT", "SYNRCVD", "ESTABLISHED", "FINWAIT1",
           "FINWAIT2", "CLOSEWAIT", "LASTACK", "CLOSING", "TIMEWAIT"}

\* The constructed socket, with its memory attached.
NewSocket ==
    [state |-> "CLOSED", receiving |-> FALSE, waiting |-> FALSE,
     FIN_received |-> FALSE, FIN_seqnum |-> 0, ACK_triggered |-> FALSE,
     buflen |-> 0, recv_len |-> 0, buf |-> 0, read |-> <<>>,
     seqnum_unacked |-> 0, seqnum_next |-> 0, history |-> <<>>,
     sendWindow |-> 0, lwseq |-> 0, lwack |-> 0,
     receiveBuffer |-> EmptyReceiveBuffer,
     packetbuffer |-> <<>>, mempool |-> COUNT, out |-> {}]

resetSocketState(s) ==
    [s EXCEPT !.state = "CLOSED", !.receiving = FALSE, !.waiting = FALSE,
              !.FIN_received = FALSE, !.ACK_triggered = FALSE, !.buflen = 0]

\* A record of history; timed: it has a retransmission timeout.
Record(seg, timed) == [seg |-> seg, timed |-> timed, counter |-> 0]

freeReceivedSegment(s) == [s EXCEPT !.mempool = @ + 1]

send(s, seg) == [s EXCEPT !.out = @ \cup {seg}]

-----------------------------------------------------------------------------
(* The history of sent segments: the newest record is the head of the list. *)

clearHistory(s) ==
    [s EXCEPT !.mempool = @ + Len(s.history), !.history = <<>>]

\* Mutant of abort: the records are forgotten, their blocks are not freed.
abortLeaking(s) ==
    resetSocketState([s EXCEPT !.history = <<>>, !.packetbuffer = <<>>,
                               !.mempool = @ + Len(s.packetbuffer)])

\* The records in receiveBuffer are not touched.
abort(s) ==
    LET c == clearHistory(s)
    IN  resetSocketState([c EXCEPT !.mempool = @ + Len(s.packetbuffer),
                                   !.packetbuffer = <<>>])

\* Mutant of Obsolete: off by one, the first unacknowledged segment counts
\* as acknowledged.
ObsoleteInclusive(s, record, env) ==
    IF record.timed THEN SEQ_LEQ(record.seg.seq, s.seqnum_unacked)
                    ELSE env.sent

\* A record that updateHistory() removes: it is acknowledged, or it waits
\* for no acknowledgement and has left the interface.
Obsolete(s, record, env) ==
    IF record.timed THEN SEQ_LT(record.seg.seq, s.seqnum_unacked)
                    ELSE env.sent

\* retransmit() with the advice of TCP_RetransmissionCounter: the buffer is
\* sent again as it is, unless it was sent too often.
Exhausted(record) ==
    RetransmissionCounter /\ record.counter > TCP_MAX_RETRANSMISSIONS
retransmit(record) ==
    IF Exhausted(record) \/ ~RetransmissionCounter THEN record
    ELSE [record EXCEPT !.counter = @ + 1]

\* The records that are left, in their order.
Remaining(s, records, env) ==
    LET kept[k \in 0 .. Len(records)] ==
          IF k = 0 THEN <<>>
          ELSE IF Obsolete(s, records[k], env) THEN kept[k - 1]
               ELSE Append(kept[k - 1], records[k])
    IN  kept[Len(records)]

updateHistory(s, do_retransmit, env) ==
    LET again == {i \in DOMAIN s.history :
                    /\ do_retransmit /\ i \in env.timedOut
                    /\ s.history[i].timed /\ ~Obsolete(s, s.history[i], env)}
        kept  == Remaining(s, [i \in DOMAIN s.history |->
                                 IF i \in again THEN retransmit(s.history[i])
                                                ELSE s.history[i]], env)
        killed == \E i \in again : Exhausted(s.history[i])
        updated ==
          [s EXCEPT
             !.history = kept,
             !.mempool = @ + Len(s.history) - Len(kept),
             !.out = @ \cup {s.history[i].seg :
                               i \in {j \in again : ~Exhausted(s.history[j])}},
             !.state = IF killed THEN "CLOSED" ELSE @]
    IN  IF RetransmissionCounter /\ updated.state = "CLOSED"
        THEN abort(updated) ELSE updated

\* getNextTimeout() = 0: the search starts with the newest record, and a
\* record without a timeout is never replaced as the minimum.
NoTimeoutPending(s, env) ==
    \/ s.history = <<>>
    \/ ~Head(s.history).timed
    \/ env.elapsed

\* requestSendBufferTCP(): a full history is cleaned up first.
Reclaim(s, env) ==
    IF Len(s.history) = TCP_HISTORY_MAX_PACKETS
    THEN updateHistory(s, FALSE, env) ELSE s
\* Mutant of requestSendBufferTCP: history.isFull() is not asked again.
requestSendBufferTCPUnchecked(s, env) == Reclaim(s, env).mempool > 0
requestSendBufferTCP(s, env) ==
    LET r == Reclaim(s, env)
    IN  Len(r.history) < TCP_HISTORY_MAX_PACKETS /\ r.mempool > 0

\* A segment written to a requested buffer, sent and added to history.
Transmit(s, env, seg, timed) ==
    LET r == Reclaim(s, env)
    IN  [send(r, seg) EXCEPT
            !.mempool = @ - 1,
            !.history = <<Record(seg, timed)>> \o @]

-----------------------------------------------------------------------------
(* Windows and headers.                                                     *)

\* setMSS() limits the product to what an unsigned holds.
maxReceiveWindow_Bytes == Min({maxReceiveWindow_MSS * MSS, UNSIGNED_MAX})

\* The subtraction is unsigned: more received bytes than the window allows
\* make it a huge number.
getReceiveWindow(s) ==
    IF s.state \in {"SYNSENT", "CLOSED"} THEN DEFAULT_MSS
    ELSE LET wnd == maxReceiveWindow_Bytes - getRecvBytes(s.receiveBuffer)
         IN  IF wnd < 0 \/ wnd > WINDOW_MAX THEN WINDOW_MAX ELSE wnd

initSendWindow(s, seg) ==
    [s EXCEPT !.sendWindow = seg.wnd, !.lwseq = seg.seq, !.lwack = seg.ack]

updateSendWindow(s, seg) ==
    IF \/ SEQ_LT(seg.seq, s.lwseq)
       \/ seg.seq = s.lwseq /\ SEQ_LT(seg.ack, s.lwack)
    THEN s ELSE initSendWindow(s, seg)

writeHeader(s, flags) ==
    Segment(flags, s.seqnum_next, 0, getReceiveWindow(s), 0, 0)
writeHeaderWithAck(s, flags, ack) ==
    Segment(flags \cup {"ACK"}, s.seqnum_next, ack, getReceiveWindow(s), 0, 0)

-----------------------------------------------------------------------------
(* Acknowledgements and the flags of a received segment.                    *)

handleACK(s, acknum) ==
    IF SEQ_LEQ(acknum, s.seqnum_unacked) \/ SEQ_GT(acknum, s.seqnum_next)
    THEN s ELSE [s EXCEPT !.seqnum_unacked = acknum]

\* sendACK(ackNum); without a buffer nothing is sent.
sendACKNum(s, env, ackNum) ==
    IF requestSendBufferTCP(s, env)
    THEN Transmit(s, env, writeHeaderWithAck(s, {}, ackNum), FALSE)
    ELSE Reclaim(s, env)

\* sendACK(): the request is forgotten even if there is no buffer for it.
sendACK(s, env) ==
    sendACKNum([s EXCEPT !.ACK_triggered = FALSE], env,
               getAckNum(s.receiveBuffer))

processACK(s, env) == IF s.ACK_triggered THEN sendACK(s, env) ELSE s

handleFIN(s, seg) ==
    IF has(seg, "FIN") /\ ~s.FIN_received
    THEN [s EXCEPT !.FIN_received = TRUE,
                   !.FIN_seqnum = SeqAdd(seg.seq, seg.len)]
    ELSE s

\* Mutant of handleData: a duplicate is not acknowledged again.
handleDataSilent(s, seg) ==
    IF seg.len = 0 THEN freeReceivedSegment(s)
    ELSE IF CanInsert(s.receiveBuffer, seg.seq)
         THEN [s EXCEPT !.receiveBuffer = insert(@, seg, seg.seq, seg.len),
                        !.ACK_triggered = TRUE]
         ELSE freeReceivedSegment(s)

\* handleData() and the freeing of a segment that was not inserted.
handleData(s, seg) ==
    IF seg.len = 0 THEN freeReceivedSegment(s)
    ELSE IF CanInsert(s.receiveBuffer, seg.seq)
         THEN [s EXCEPT !.receiveBuffer = insert(@, seg, seg.seq, seg.len),
                        !.ACK_triggered = TRUE]
         ELSE [freeReceivedSegment(s) EXCEPT !.ACK_triggered = TRUE]

\* Mutant of FIN_complete: the number alone is compared, which is 0 while
\* no FIN has been received.
FIN_completeByNumber(s) == getAckNum(s.receiveBuffer) = s.FIN_seqnum

FIN_complete(s) ==
    s.FIN_received /\ getAckNum(s.receiveBuffer) = s.FIN_seqnum
AckFIN(s, env) == sendACKNum(s, env, SeqAdd(s.FIN_seqnum, 1))

\* handleRST(): the sequence number of a RST is not looked at.
handleRST(s) == abort(freeReceivedSegment(s))

-----------------------------------------------------------------------------
(* Sending the application's data.                                          *)

\* Mutant of sendSegment: the sequence numbers are not consumed.
sendSegmentUncounted(s, env, len) ==
    IF ~requestSendBufferTCP(s, env) THEN Reclaim(s, env)
    ELSE LET hdr == writeHeaderWithAck(s, {"PSH"}, getAckNum(s.receiveBuffer))
             seg == [hdr EXCEPT !.len = len, !.data = s.buf]
         IN  [Transmit(s, env, seg, TRUE) EXCEPT
                !.buflen = @ - len, !.buf = @ + len,
                !.sendWindow = IF @ = 0 THEN 0 ELSE @ - len]

sendSegment(s, env, len) ==
    IF ~requestSendBufferTCP(s, env) THEN Reclaim(s, env)
    ELSE LET last == s.buflen = len
             hdr  == writeHeaderWithAck(s, IF last THEN {"PSH"} ELSE {},
                                        getAckNum(s.receiveBuffer))
             seg  == [hdr EXCEPT !.len = len, !.data = s.buf]
         IN  [Transmit(s, env, seg, TRUE) EXCEPT
                !.buflen = @ - len, !.buf = @ + len,
                !.seqnum_next = SeqAdd(@, len),
                !.sendWindow = IF @ = 0 THEN 0 ELSE @ - len]

\* One round of the loop of processSendData(), which stops when there is
\* no buffer; a round that cannot send leaves nothing for the next one.
sendNextSegment(s, env) ==
    IF s.buflen > 0 /\ s.sendWindow > 0
    THEN sendSegment(s, env, Min({s.sendWindow, s.buflen, MSS})) ELSE s

processSendData(s, env) ==
    LET rounds[n \in 0 .. s.buflen] ==
          IF n = 0 THEN s ELSE sendNextSegment(rounds[n - 1], env)
    IN  CASE s.buflen = 0 -> s
          [] s.buflen > 0 /\ s.sendWindow = 0 ->
               \* a zero window probe, of one byte of data
               IF NoTimeoutPending(s, env) THEN sendSegment(s, env, 1) ELSE s
          [] OTHER -> rounds[s.buflen]

\* The end of a write(): nothing is left to send and all of it is acked.
FinishSending(s) ==
    IF s.buflen = 0 /\ s.history = <<>> THEN [s EXCEPT !.waiting = FALSE] ELSE s

\* A read of len bytes from receiveBuffer into application_buf.
ReadBytes(s, len) ==
    [s EXCEPT !.receiveBuffer = copyData(@, len),
              !.read = @ \o copiedBytes(s.receiveBuffer, len),
              !.mempool = @ + Consumed(s.receiveBuffer, len),
              !.recv_len = @ + len, !.buflen = @ - len]
=============================================================================
