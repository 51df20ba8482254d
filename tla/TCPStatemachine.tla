--------------------------- MODULE TCPStatemachine ---------------------------
(***************************************************************************)
(* tcp/statemachine: what input() does in each state of the socket.        *)
(*                                                                         *)
(* Each method of the code has a branch for a received segment and one for *)
(* an empty packetbuffer; here the second one is the operator ...Idle.     *)
(* The received segment was taken from packetbuffer: the branch frees its  *)
(* block or leaves it in receiveBuffer.                                    *)
(***************************************************************************)
EXTENDS TCPSocket

closed(s, seg) == [freeReceivedSegment(s) EXCEPT !.waiting = FALSE]
closedIdle(s) == [s EXCEPT !.waiting = FALSE]

\* The SYN flag is not looked at: Demux hands only a SYN to a listening
\* socket.  Without a buffer for the answer the state stays LISTEN.
listen(s, env, seg) ==
    LET r   == freeReceivedSegment(
                 [s EXCEPT !.receiveBuffer =
                             setFirstSeqNum(@, SeqAdd(seg.seq, 1))])
        rcv == [r EXCEPT !.state = "SYNRCVD"]
        ack == writeHeaderWithAck(rcv, {"SYN"}, getAckNum(r.receiveBuffer))
    IN  IF has(seg, "RST") THEN handleRST(s)
        ELSE IF requestSendBufferTCP(r, env)
             THEN [Transmit(rcv, env, ack, TRUE) EXCEPT
                     !.seqnum_next = SeqAdd(@, 1)]
             ELSE Reclaim(r, env)

\* SYN+ACK with the right acknowledgement: the connection is established.
SynsentEstablish(s, env, seg) ==
    LET e == clearHistory(
               [initSendWindow(s, seg) EXCEPT
                  !.state = "ESTABLISHED",
                  !.receiveBuffer = setFirstSeqNum(@, SeqAdd(seg.seq, 1))])
    IN  [sendACK(e, env) EXCEPT !.waiting = @ /\ ~requestSendBufferTCP(e, env)]

\* Any other acknowledgement: a RST with the wrong number as its own.
SynsentReset(s, env, seg) ==
    IF requestSendBufferTCP(s, env)
    THEN Transmit(s, env, [writeHeader(s, {"RST"}) EXCEPT !.seq = seg.ack], FALSE)
    ELSE Reclaim(s, env)

\* A SYN without an acknowledgement: simultaneous open.
SynsentSimultaneous(s, env, seg) ==
    LET c   == clearHistory(
                 [s EXCEPT !.receiveBuffer =
                             setFirstSeqNum(@, SeqAdd(seg.seq, 1))])
        rcv == [c EXCEPT !.state = "SYNRCVD"]
        ack == [writeHeaderWithAck(rcv, {"SYN"}, getAckNum(c.receiveBuffer))
                  EXCEPT !.seq = SeqAdd(@, SEQMOD - 1)]
    IN  IF requestSendBufferTCP(c, env)
        THEN Transmit(rcv, env, ack, TRUE) ELSE Reclaim(c, env)

synsent(s, env, seg) ==
    LET f == freeReceivedSegment(s)
        h == handleACK(f, seg.ack)
    IN  CASE has(seg, "ACK") /\ has(seg, "SYN") ->
               IF h.seqnum_unacked = h.seqnum_next
               THEN SynsentEstablish(h, env, seg)
               ELSE SynsentReset(h, env, seg)
          [] has(seg, "ACK") /\ ~has(seg, "SYN") /\ has(seg, "RST") ->
               IF seg.ack = s.seqnum_next THEN abort(f) ELSE f
          [] has(seg, "ACK") /\ ~has(seg, "SYN") /\ ~has(seg, "RST") ->
               SynsentReset(f, env, seg)
          [] ~has(seg, "ACK") /\ has(seg, "SYN") ->
               SynsentSimultaneous(f, env, seg)
          [] OTHER -> f
synsentIdle(s, env) == updateHistory(s, TRUE, env)

\* A repeated SYN hands the SYN+ACK to send() once more, which refuses a
\* buffer that is not in its writing state: nothing is sent.
synrcvd(s, env, seg) ==
    LET h == handleACK(s, seg.ack)
        e == clearHistory([initSendWindow(h, seg) EXCEPT
                             !.state = "ESTABLISHED", !.waiting = FALSE])
    IN  CASE has(seg, "RST") -> handleRST(s)
          [] ~has(seg, "RST") /\ has(seg, "ACK") /\ seg.ack = s.seqnum_next ->
               freeReceivedSegment(e)
          [] ~has(seg, "RST") /\ has(seg, "ACK") /\ seg.ack /= s.seqnum_next ->
               freeReceivedSegment(h)
          [] OTHER -> freeReceivedSegment(s)
synrcvdIdle(s, env) == updateHistory(s, TRUE, env)

-----------------------------------------------------------------------------
\* handleSYN(): the handshake's last ACK got lost, it is sent again.
handleSYN(s, env) == sendACK(freeReceivedSegment(s), env)
\* handleSYN_final(): the same once the peer's FIN was received.
handleSYN_final(s, env) == AckFIN(freeReceivedSegment(s), env)

ackIf(s, seg) == IF has(seg, "ACK") THEN handleACK(s, seg.ack) ELSE s

established(s, env, seg) ==
    LET d == updateSendWindow(
               handleData(handleFIN(ackIf(s, seg), seg), seg), seg)
        c == IF FIN_complete(d)
             THEN [AckFIN(d, env) EXCEPT !.state = "CLOSEWAIT"] ELSE d
    IN  CASE has(seg, "RST") -> handleRST(s)
          [] ~has(seg, "RST") /\ has(seg, "SYN") -> handleSYN(s, env)
          [] OTHER -> IF getReceiveWindow(c) = 0
                      THEN [c EXCEPT !.ACK_triggered = TRUE] ELSE c

\* receive(): return when the buffer is full or the data was pushed.
EstablishedReceive(s, env) ==
    LET bytes  == getRecvBytes(s.receiveBuffer)
        pushed == s.receiveBuffer.pushFlag
        r      == processACK(ReadBytes(s, Min({bytes, s.buflen})), env)
    IN  IF bytes = 0 THEN processACK(s, env)
        ELSE IF r.buflen = 0 \/ pushed
             THEN [r EXCEPT !.receiving = FALSE, !.waiting = FALSE] ELSE r

establishedIdle(s, env) ==
    LET u == updateHistory(s, TRUE, env)
    IN  CASE u.receiving -> EstablishedReceive(u, env)
          [] ~u.receiving /\ u.waiting ->
               FinishSending(processSendData(processACK(u, env), env))
          [] OTHER -> u

finwait1(s, env, seg) ==
    LET d == handleData(handleFIN(ackIf(s, seg), seg), seg)
        FIN_acked == has(seg, "ACK") /\ seg.ack = s.seqnum_next
    IN  CASE has(seg, "RST") -> handleRST(s)
          [] ~has(seg, "RST") /\ has(seg, "SYN") -> handleSYN(s, env)
          [] OTHER ->
               IF FIN_complete(d)
               THEN [AckFIN(d, env) EXCEPT
                       !.state = IF FIN_acked THEN "TIMEWAIT" ELSE "CLOSING"]
               ELSE d

\* Mutant of finwait1Idle: close() returns as soon as the FIN is acknowledged.
finwait1IdleReturns(s, env) ==
    LET p == processACK(updateHistory(s, TRUE, env), env)
    IN  IF p.history = <<>>
        THEN [p EXCEPT !.state = "FINWAIT2", !.waiting = FALSE] ELSE p

\* An empty history means that the FIN got acknowledged.
finwait1Idle(s, env) ==
    LET p == processACK(updateHistory(s, TRUE, env), env)
    IN  IF p.history = <<>> THEN [p EXCEPT !.state = "FINWAIT2"] ELSE p

finwait2(s, env, seg) ==
    LET d == handleData(handleFIN(s, seg), seg)
    IN  CASE has(seg, "RST") -> handleRST(s)
          [] ~has(seg, "RST") /\ has(seg, "SYN") -> handleSYN(s, env)
          [] OTHER -> IF FIN_complete(d)
                      THEN [AckFIN(d, env) EXCEPT !.state = "TIMEWAIT"] ELSE d
finwait2Idle(s, env) == processACK(updateHistory(s, TRUE, env), env)

closewait(s, env, seg) ==
    LET a == ackIf(s, seg)
        f == IF has(seg, "FIN") THEN AckFIN(a, env) ELSE a
    IN  CASE has(seg, "RST") -> handleRST(s)
          [] ~has(seg, "RST") /\ has(seg, "SYN") -> handleSYN_final(s, env)
          [] OTHER -> freeReceivedSegment(updateSendWindow(f, seg))

\* receive() takes what is left and never blocks; write() still sends.
closewaitIdle(s, env) ==
    LET u == updateHistory(s, TRUE, env)
        n == Min({u.buflen, getRecvBytes(u.receiveBuffer)})
    IN  CASE u.receiving ->
               [ReadBytes([u EXCEPT !.buflen = n], n) EXCEPT
                  !.buflen = n, !.receiving = FALSE, !.waiting = FALSE]
          [] ~u.receiving /\ u.waiting -> FinishSending(processSendData(u, env))
          [] OTHER -> u

lastack(s, env, seg) ==
    CASE has(seg, "RST") -> handleRST(s)
      [] ~has(seg, "RST") /\ has(seg, "SYN") -> handleSYN_final(s, env)
      [] OTHER -> freeReceivedSegment(ackIf(s, seg))
lastackIdle(s, env) ==
    LET u == updateHistory(s, TRUE, env)
    IN  IF u.history = <<>> THEN abort(u) ELSE u

closing(s, env, seg) ==
    LET a == ackIf(s, seg)
        f == IF has(seg, "FIN") THEN AckFIN(a, env) ELSE a
    IN  CASE has(seg, "RST") -> handleRST(s)
          [] ~has(seg, "RST") /\ has(seg, "SYN") -> handleSYN_final(s, env)
          [] OTHER -> freeReceivedSegment(f)
closingIdle(s, env) ==
    LET u == updateHistory(s, TRUE, env)
    IN  IF u.history = <<>> THEN [u EXCEPT !.state = "TIMEWAIT"] ELSE u

timewait(s, env, seg) ==
    LET f == IF has(seg, "FIN") THEN AckFIN(s, env) ELSE s
    IN  CASE has(seg, "RST") -> handleRST(s)
          [] ~has(seg, "RST") /\ has(seg, "SYN") -> handleSYN_final(s, env)
          [] OTHER -> freeReceivedSegment(f)
\* Twice the retransmission timeout without a packet ends the connection.
timewaitIdle(s, env) ==
    LET u == updateHistory(s, TRUE, env)
    IN  IF env.elapsed THEN abort(u) ELSE u

-----------------------------------------------------------------------------
(* input(): the switch, for a segment and for an empty packetbuffer.        *)

input(s, env, seg) ==
    CASE s.state = "CLOSED"      -> closed(s, seg)
      [] s.state = "LISTEN"      -> listen(s, env, seg)
      [] s.state = "SYNSENT"     -> synsent(s, env, seg)
      [] s.state = "SYNRCVD"     -> synrcvd(s, env, seg)
      [] s.state = "ESTABLISHED" -> established(s, env, seg)
      [] s.state = "FINWAIT1"    -> finwait1(s, env, seg)
      [] s.state = "FINWAIT2"    -> finwait2(s, env, seg)
      [] s.state = "CLOSEWAIT"   -> closewait(s, env, seg)
      [] s.state = "LASTACK"     -> lastack(s, env, seg)
      [] s.state = "CLOSING"     -> closing(s, env, seg)
      [] s.state = "TIMEWAIT"    -> timewait(s, env, seg)

inputIdle(s, env) ==
    CASE s.state = "CLOSED"      -> closedIdle(s)
      [] s.state = "LISTEN"      -> s
      [] s.state = "SYNSENT"     -> synsentIdle(s, env)
      [] s.state = "SYNRCVD"     -> synrcvdIdle(s, env)
      [] s.state = "ESTABLISHED" -> establishedIdle(s, env)
      [] s.state = "FINWAIT1"    -> finwait1Idle(s, env)
      [] s.state = "FINWAIT2"    -> finwait2Idle(s, env)
      [] s.state = "CLOSEWAIT"   -> closewaitIdle(s, env)
      [] s.state = "LASTACK"     -> lastackIdle(s, env)
      [] s.state = "CLOSING"     -> closingIdle(s, env)
      [] s.state = "TIMEWAIT"    -> timewaitIdle(s, env)
=============================================================================
