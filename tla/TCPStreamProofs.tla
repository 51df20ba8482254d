--------------------------- MODULE TCPStreamProofs ---------------------------
(***************************************************************************)
(* The two ends of a TCP connection together, for every value of the       *)
(* constants: what one application writes the other one reads, and what    *)
(* either of them reports of it is true.                                   *)
(*                                                                         *)
(* The invariant is GInv.  It says of each node's socket what that socket  *)
(* alone has to keep up (Local, of TCPConnectionProofs), in terms of a     *)
(* view of the rest of the connection that the peer's steps only let grow. *)
(* A step of the socket is therefore proved once, for any such view        *)
(* (Moves), and the connection only has to show that no step of a node     *)
(* takes anything from its peer's view (StepKeepsGInv).                    *)
(***************************************************************************)
EXTENDS TCPConnectionProofs

-----------------------------------------------------------------------------
(* What the application reads.                                              *)

\* A read takes the next bytes of the stream, and no other element is left.
LEMMA NothingCopied ==
  ASSUME NEW b, NEW d, NEW k, k = Consumed(b, 0), k = 0, Remainder(b, 0) = 0
  PROVE  copiedBytes(b, 0) = Run(d, 0)
<1> DEFINE q == b.list
           v(i) == BytesOf(q[i], q[i].len)
           whole == [i \in 1 .. Consumed(b, 0) |-> v(i)]
           last == IF Consumed(b, 0) < Len(q) THEN BytesOf(q[Consumed(b, 0) + 1], Remainder(b, 0)) ELSE <<>>
<1>1. copiedBytes(b, 0) = FlattenSeq(whole) \o last
  BY DEF copiedBytes
<1> HIDE DEF v
<1>2. whole = <<>>
  OBVIOUS
<1>3. last = <<>>
  <2>1. \A x : BytesOf(x, 0) = <<>>
    BY DEF BytesOf
  <2> QED BY <2>1
<1> HIDE DEF whole, last
<1>4. FlattenSeq(whole) = <<>>
  <2>1. <<>> \in Seq(Seq(Nat)) /\ Len(<<>>) = 0
    OBVIOUS
  <2> QED BY <1>2, <2>1 DEF FlattenSeq
<1>5. Run(d, 0) = <<>>
  BY DEF Run
<1>6. <<>> \o <<>> = <<>>
  OBVIOUS
<1> QED BY <1>1, <1>2, <1>3, <1>4, <1>5, <1>6

LEMMA ReadIs ==
  ASSUME NEW isn \in SeqNum, NEW size \in Nat, size < SEQMOD \div 2,
         NEW b, NEW done \in 0 .. size, Consistent(isn, size, b, done),
         NEW len \in Nat, len <= b.recv_bytes, NEW c, c = copyData(b, len)
  PROVE  /\ Consistent(isn, size, c, done + len) /\ copiedBytes(b, len) = Run(done, len)
         /\ c.recv_bytes = b.recv_bytes - len
         /\ \A i \in DOMAIN c.list : \E j \in DOMAIN b.list : End(c.list[i]) = End(b.list[j])
<1> DEFINE q == b.list
           n == b.recv_continuous
           a == Acked(q, n, done)
           k == Consumed(b, len)
           part == Remainder(b, len)
           p == Advance(q, k, part)
           m == n - k
           d == done + len
<1>1. /\ q \in Seq(StreamElement(isn, size)) /\ n \in 0 .. Len(q) /\ Joined(q, n, done) /\ n \in Nat
      /\ b.recv_bytes = a - done /\ b.recv_bytes \in Nat /\ Len(q) \in Nat
      /\ b.read_firstSeqNum = SeqAdd(isn, done) /\ b.pushFlag \in BOOLEAN
  BY DEF Consistent, StreamBuffer
<1>2. a \in done .. size /\ q \in Seq(Element)
  BY <1>1, AckedBounds, ListFacts
<1>3. d <= a /\ d \in 0 .. size
  <2> HIDE DEF a
  <2> QED BY <1>1, <1>2
<1>4. Consuming(q, n, done, len, k, part) /\ copiedBytes(b, len) = Run(done, len)
  <2>1. CASE len > 0
    <3>1. n # 0
      <4> SUFFICES ASSUME n = 0 PROVE FALSE
        OBVIOUS
      <4>1. a = done
        BY DEF Acked
      <4> HIDE DEF a
      <4> QED BY <1>1, <1>3, <2>1, <4>1
    <3>2. n \in 1 .. Len(q)
      <4> HIDE DEF n, q
      <4> QED BY <1>1, <3>1
    <3> QED BY <1>1, <1>3, <2>1, <3>2, ConsumedContinuous
  <2>2. CASE len = 0
    <3> DEFINE B(i) == Bytes(SubSeq(q, 1, i))
    <3>1. k \in 0 .. Len(q) /\ B(k) <= 0
      BY <1>1, <1>2, <2>2, ConsumedIs
    <3>2. \A i \in 0 .. Len(q) : B(i) \in Nat
      BY <1>2, BytesPrefix
    <3>3. \A i \in 1 .. Len(q) : B(i) = B(i - 1) + q[i].len
      BY <1>2, BytesPrefix
    <3>4. \A i \in 1 .. Len(q) : q[i].len \in Nat /\ q[i].len > 0
      <4>1. \A i \in 1 .. Len(q) : q[i].len \in 1 .. size
        BY <1>1, ListFacts
      <4> QED BY <4>1
    <3> HIDE DEF k, q
    <3>5. k = 0
      <4> SUFFICES ASSUME k # 0 PROVE FALSE
        OBVIOUS
      <4>1. k \in 1 .. Len(q) /\ k - 1 \in 0 .. Len(q)
        BY <1>1, <3>1
      <4>2. B(k) = B(k - 1) + q[k].len /\ B(k - 1) \in Nat /\ q[k].len > 0 /\ q[k].len \in Nat
        BY <3>2, <3>3, <3>4, <4>1
      <4> HIDE DEF B
      <4> QED BY <3>1, <4>2
    <3>6. B(0) = 0
      BY <1>2, BytesPrefix
    <3>7. part = 0
      BY <2>2, <3>5, <3>6 DEF Remainder, k, q
    <3>8. Consuming(q, n, done, len, k, part)
      <4>1. CASE n = 0
        BY <1>1, <2>2, <3>5, <3>7, <4>1 DEF Consuming, Acked
      <4>2. CASE n # 0
        <5>1. n > 0 /\ q[1].data = done /\ 1 \in 1 .. Len(q) /\ 0 + 1 = 1
          BY <1>1, <4>2 DEF Joined
        <5> HIDE DEF part, n
        <5> QED BY <1>1, <2>2, <3>4, <3>5, <3>7, <4>2, <5>1 DEF Consuming
      <4> QED BY <4>1, <4>2
    <3>9. copiedBytes(b, len) = Run(done, len)
      <4>1. k = Consumed(b, 0) /\ Remainder(b, 0) = 0
        BY <2>2, <3>7 DEF k
      <4>2. copiedBytes(b, 0) = Run(done, 0)
        BY <3>5, <4>1, NothingCopied
      <4> QED BY <2>2, <4>2
    <3> QED BY <3>8, <3>9
  <2> QED BY <2>1, <2>2
<1> HIDE DEF k, part, n, q
<1>5. /\ p \in Seq(StreamElement(isn, size)) /\ Len(p) = Len(q) - k /\ m \in 0 .. Len(p)
      /\ Joined(p, m, d) /\ Acked(p, m, d) = a
  <2>1. p = Advance(q, k, part) /\ m = n - k /\ d = done + len /\ a = Acked(q, n, done)
    OBVIOUS
  <2> HIDE DEF p, m, d, a
  <2> QED BY <1>1, <1>4, <2>1, AdvanceJoined
<1>6. k \in 0 .. n /\ part \in Nat /\ (part > 0 => k < Len(q) /\ part < q[k + 1].len)
  <2>1. /\ k \in 0 .. n /\ part \in 0 .. len
        /\ k < n => part < q[k + 1].len
        /\ k = n => part = 0
    BY <1>4 DEF Consuming
  <2> QED BY <1>1, <2>1
<1>7. k \in 0 .. Len(q)
  BY <1>1, <1>6
<1>8. \A i \in 1 .. Len(q) - k : End(p[i]) = End(q[k + i])
  <2>1. IsAdvance(isn, size, q, k, part, p)
    BY <1>1, <1>6, <1>7, AdvanceIs
  <2> QED BY <2>1 DEF IsAdvance
<1> HIDE DEF p
<1>9. \A i \in DOMAIN p : \E j \in DOMAIN q : End(p[i]) = End(q[j])
  <2> TAKE i \in DOMAIN p
  <2>1. i \in 1 .. Len(q) - k
    BY <1>5
  <2>2. k + i \in DOMAIN q
    BY <1>1, <1>7, <2>1
  <2> QED BY <1>8, <2>1, <2>2
<1>10. SeqAdd(SeqAdd(isn, done), len) = SeqAdd(isn, d) /\ SeqAdd(isn, d) \in SeqNum
  <2>1. done + len <= size
    BY <1>3
  <2> QED BY <1>3, <2>1, StreamAdd, StreamCompare DEF d
<1>11. /\ c.list = p /\ c.recv_bytes = b.recv_bytes - len
       /\ c.recv_continuous = IF n <= k THEN 0 ELSE m
       /\ c.read_firstSeqNum = SeqAdd(b.read_firstSeqNum, len) /\ c.pushFlag \in BOOLEAN
       /\ c = [list |-> c.list, recv_continuous |-> c.recv_continuous, recv_bytes |-> c.recv_bytes,
               read_firstSeqNum |-> c.read_firstSeqNum, pushFlag |-> c.pushFlag]
  BY <1>1 DEF copyData, p, Advance, k, part, q, n
<1>12. c.recv_continuous = m /\ m \in Nat
  BY <1>1, <1>5, <1>6, <1>11
<1>13. c.recv_bytes = a - d /\ c.recv_bytes \in Nat
  <2> HIDE DEF a
  <2> QED BY <1>1, <1>2, <1>3, <1>11
<1> HIDE DEF a, m, d
<1>14. c \in StreamBuffer(isn, size)
  BY <1>1, <1>5, <1>10, <1>11, <1>12, <1>13 DEF StreamBuffer
<1>15. Consistent(isn, size, c, d)
  BY <1>1, <1>5, <1>10, <1>11, <1>12, <1>13, <1>14 DEF Consistent
<1> QED BY <1>4, <1>9, <1>11, <1>15 DEF d, q

LEMMA ConcatIs ==
  ASSUME NEW p \in Seq(Nat), NEW q \in Seq(Nat), NEW r, r = p \o q
  PROVE  /\ Len(r) = Len(p) + Len(q) /\ DOMAIN r = 1 .. Len(p) + Len(q)
         /\ \A i \in 1 .. Len(p) : r[i] = p[i]
         /\ \A i \in 1 .. Len(p) + Len(q) : i > Len(p) => r[i] = q[i - Len(p)]
OBVIOUS

\* What has been received stays received when it is read.
LEMMA ReadMoves ==
  ASSUME NEW n \in Node, NEW e, NEW s, Local(n, s, e), ~Unsynchronised(e.c, s), NEW len \in Nat,
         len <= s.receiveBuffer.recv_bytes, NEW r, Sound(r), SameNumbers(s, r),
         r.read = s.read \o copiedBytes(s.receiveBuffer, len),
         r.receiveBuffer = copyData(s.receiveBuffer, len),
         r.history = s.history, r.out = s.out, r.packetbuffer = s.packetbuffer,
         r.FIN_received = s.FIN_received, r.FIN_seqnum = s.FIN_seqnum, Tasks(n, r, e)
  PROVE  Moves(n, e, s, r)
<1> DEFINE p == Peer(n)
           isn == At(p, 1)
           size == ToWrite[p]
           done == Len(s.read)
           b == s.receiveBuffer
           c == copyData(b, len)
           x == copiedBytes(b, len)
<1>1. s \in AnySocket /\ Sound(s)
  BY SoundIs DEF Local
<1>2. /\ isn \in SeqNum /\ size \in Nat /\ size < SEQMOD \div 2 /\ Consistent(isn, size, b, done)
      /\ done \in 0 .. size /\ done \in Nat /\ Got(s) \in e.ends
  BY <1>1, StreamIs, SoundIs
<1> HIDE DEF isn, size
<1>3. /\ Consistent(isn, size, c, done + len) /\ x = Run(done, len) /\ c.recv_bytes = b.recv_bytes - len
      /\ \A i \in DOMAIN c.list : \E j \in DOMAIN b.list : End(c.list[i]) = End(b.list[j])
  <2>1. len <= b.recv_bytes
    OBVIOUS
  <2> HIDE DEF done, b
  <2> QED BY <1>2, <2>1, ReadIs
<1> HIDE DEF c, x
<1>4. r.read = s.read \o x /\ r.receiveBuffer = c /\ s.read \in Seq(Nat) /\ b.recv_bytes \in Nat
  BY <1>1, SoundIs DEF c, x
<1> HIDE DEF b
<1>5. x \in Seq(Nat) /\ Len(x) = len /\ \A i \in 1 .. len : x[i] = done + i - 1
  <2> HIDE DEF done
  <2> QED BY <1>2, <1>3 DEF Run
<1>6. /\ Len(r.read) = done + len /\ DOMAIN r.read = 1 .. done + len
      /\ \A i \in 1 .. done : r.read[i] = s.read[i]
      /\ \A i \in 1 .. done + len : i > done => r.read[i] = x[i - done]
  <2> DEFINE y == r.read
             z == s.read
  <2>1. z \in Seq(Nat) /\ x \in Seq(Nat) /\ y = z \o x /\ Len(x) = len
    BY <1>4, <1>5
  <2> HIDE DEF y, z
  <2>2. /\ Len(y) = Len(z) + len /\ DOMAIN y = 1 .. Len(z) + len
        /\ \A i \in 1 .. Len(z) : y[i] = z[i]
        /\ \A i \in 1 .. Len(z) + len : i > Len(z) => y[i] = x[i - Len(z)]
    BY <2>1, ConcatIs, SMTT(30)
  <2> QED BY <2>2 DEF y, z
<1>7. Got(r) = Got(s)
  <2>1. Got(s) = done + b.recv_bytes /\ Got(r) = (done + len) + c.recv_bytes
    BY <1>4, <1>6 DEF Got, b
  <2> HIDE DEF done
  <2> QED BY <1>2, <1>3, <1>4, <2>1
<1>8. /\ Sending(n, s, e) /\ Receiving(n, s, e) /\ Finishing(n, s, e)
      /\ Handshake(n, s, e) /\ ViewOK(n, e) /\ Covered(n, s, e) /\ Sent(n, s, e) /\ Uncut(n, s, e)
  BY DEF Local
<1>9. /\ \A i \in DOMAIN s.read : s.read[i] = i - 1
      /\ \A i \in DOMAIN b.list : End(b.list[i]) \in e.ends
  BY <1>8 DEF Receiving, b
<1>10. ASSUME NEW i \in DOMAIN r.read PROVE r.read[i] = i - 1
  <2>0. done \in Nat
    BY <1>2
  <2>1. i \in 1 .. done + len /\ DOMAIN s.read = 1 .. done
    BY <1>4, <1>6
  <2> HIDE DEF done
  <2>2. CASE i <= done
    <3>1. i \in 1 .. done
      BY <2>0, <2>1, <2>2
    <3> QED BY <1>6, <1>9, <2>1, <3>1
  <2>3. CASE i > done
    <3>0. i - done \in 1 .. len
      BY <2>0, <2>1, <2>3
    <3>1. r.read[i] = x[i - done] /\ i - done \in 1 .. len
      BY <1>6, <2>1, <2>3, <3>0, Zenon
    <3>2. x[i - done] = done + (i - done) - 1
      BY <1>5, <3>1
    <3>3. done + (i - done) - 1 = i - 1
      BY <2>0, <2>1
    <3> QED BY <3>1, <3>2, <3>3
  <2>4. i <= done \/ i > done
    BY <2>0, <2>1
  <2> QED BY <2>2, <2>3, <2>4
<1>11. Segs(r) = Segs(s) /\ Timed(r) = Timed(s) /\ r.buf = s.buf /\ r.state = s.state
  BY SameSegs DEF SameNumbers
<1>0. SameNumbers(s, r)
  OBVIOUS
<1>12. Stage(e.c, r) = Stage(e.c, s) /\ FinSent(n, e.c, r) = FinSent(n, e.c, s)
  BY <1>11 DEF SameNumbers, FinSent, Stage, Nxt
<1>13. Acks(r, e.ends, e.v, e.fin) = Acks(s, e.ends, e.v, e.fin)
  BY <1>7, <1>11 DEF Acks
<1>14. Receiving(n, r, e)
  <2>1. ~Unsynchronised(e.c, r)
    BY <1>11 DEF Unsynchronised
  <2>2. Consistent(At(Peer(n), 1), ToWrite[Peer(n)], r.receiveBuffer, Len(r.read))
    BY <1>3, <1>4, <1>6 DEF isn, size
  <2>3. \A i \in DOMAIN c.list : End(c.list[i]) \in e.ends
    BY <1>3, <1>9
  <2>4. Got(r) \in e.ends
    BY <1>2, <1>7
  <2> QED BY <1>4, <1>10, <2>1, <2>2, <2>3, <2>4 DEF Receiving
<1>15. Finishing(n, r, e)
  BY <1>7, <1>8, <1>11 DEF Finishing
<1>16. Sent(n, r, e)
  BY <1>8, <1>11, <1>12, <1>13 DEF Sent
<1>17. Sending(n, r, e) /\ Covered(n, r, e) /\ Uncut(n, r, e) /\ Handshake(n, r, e)
  BY <1>8, <1>11, <1>12, SameSending, SameCovered, SameUncut, SameHandshake
<1>18. Grows(e, n, s, r)
  <2>1. s.buf <= r.buf /\ Stage(e.c, s) <= Stage(e.c, r)
    <3>1. s.buf \in Nat /\ Stage(e.c, s) \in Nat
      BY <1>1, SoundIs, StageIs
    <3> QED BY <1>11, <1>12, <3>1
  <2> QED BY <1>12, <1>13, <2>1 DEF Grows
<1> QED BY <1>8, <1>14, <1>15, <1>16, <1>17, <1>18 DEF Moves, Local

\* receive() returns.
LEMMA ReceiveReturnMoves ==
  ASSUME NEW n \in Node, NEW e, NEW s, Local(n, s, e), e.c = "receive", s.state \in Opened
  PROVE  Moves(n, e, s, [s EXCEPT !.receiving = FALSE, !.waiting = FALSE])
<1> DEFINE r == [s EXCEPT !.receiving = FALSE, !.waiting = FALSE]
<1>1. s \in AnySocket /\ \E k : Holds(s, k)
  BY SoundIs DEF Local, Sound
<1>2. Sound(r)
  BY <1>1, SetReturn DEF Sound
<1>3. /\ SameNumbers(s, r) /\ SameStream(s, r) /\ r.history = s.history /\ r.out = s.out
      /\ ~r.receiving /\ ~r.waiting /\ r.packetbuffer = s.packetbuffer
      /\ r.FIN_received = s.FIN_received /\ r.FIN_seqnum = s.FIN_seqnum
  BY <1>1 DEF SameNumbers, SameStream, AnySocket
<1> HIDE DEF r
<1>4. /\ Sending(n, s, e) /\ Tasks(n, s, e) /\ Receiving(n, s, e) /\ Finishing(n, s, e)
      /\ Handshake(n, s, e) /\ ViewOK(n, e) /\ Covered(n, s, e) /\ Sent(n, s, e) /\ Uncut(n, s, e)
  BY DEF Local
<1>5. Segs(r) = Segs(s) /\ Timed(r) = Timed(s) /\ r.buf = s.buf /\ r.state = s.state
  BY <1>3, SameSegs DEF SameNumbers
<1>6. Stage(e.c, r) = Stage(e.c, s) /\ FinSent(n, e.c, r) = FinSent(n, e.c, s)
      /\ Acks(r, e.ends, e.v, e.fin) = Acks(s, e.ends, e.v, e.fin)
  BY <1>3, SameFinSent, SameAcks
<1>7. Sent(n, r, e)
  BY <1>4, <1>5, <1>6 DEF Sent
<1>8. Sending(n, r, e) /\ Receiving(n, r, e) /\ Covered(n, r, e) /\ Uncut(n, r, e) /\ Handshake(n, r, e)
      /\ Finishing(n, r, e)
  BY <1>3, <1>4, <1>5, <1>6, SameSending, SameReceiving, SameCovered, SameUncut, SameHandshake, SameFinishing
<1>9. Tasks(n, r, e)
  <2>1. r.state \notin {"LISTEN", "SYNSENT", "SYNRCVD"} /\ r.state \notin Opening
    BY <1>5 DEF Opened, Opening
  <2> QED BY <1>3, <1>4, <1>5, <2>1 DEF Tasks
<1>10. Grows(e, n, s, r)
  BY <1>3, SameGrows
<1> QED BY <1>2, <1>4, <1>7, <1>8, <1>9, <1>10 DEF Moves, Local, r

LEMMA ReadBytesMoves ==
  ASSUME NEW n \in Node, NEW e, NEW s, Local(n, s, e), e.c = "receive", s.state \in Opened,
         NEW len \in Nat, len <= s.receiveBuffer.recv_bytes, len <= s.buflen
  PROVE  LET r == ReadBytes(s, len)
         IN  Moves(n, e, s, r) /\ r.state = s.state
<1> DEFINE r == ReadBytes(s, len)
           b == s.receiveBuffer
<1>1. s \in AnySocket /\ \E k : Holds(s, k)
  BY SoundIs DEF Local, Sound
<1>2. Sound(r)
  BY <1>1, ReadBytesHolds DEF Sound
<1>3. /\ SameNumbers(s, r) /\ r.read = s.read \o copiedBytes(b, len) /\ r.receiveBuffer = copyData(b, len)
      /\ r.history = s.history /\ r.out = s.out /\ r.packetbuffer = s.packetbuffer
      /\ r.FIN_received = s.FIN_received /\ r.FIN_seqnum = s.FIN_seqnum
      /\ r.waiting = s.waiting /\ r.receiving = s.receiving /\ r.state = s.state
  BY <1>1 DEF SameNumbers, AnySocket, ReadBytes
<1> HIDE DEF r
<1>4. Tasks(n, r, e)
  <2>1. r.state \notin {"LISTEN", "SYNSENT", "SYNRCVD"} /\ r.state \notin Opening
    BY <1>3 DEF Opened, Opening
  <2>2. Tasks(n, s, e)
    BY DEF Local
  <2> QED BY <1>3, <2>1, <2>2 DEF Tasks, SameNumbers
<1>5. ~Unsynchronised(e.c, s)
  BY DEF Unsynchronised, Opened
<1>6. Moves(n, e, s, r)
  BY <1>2, <1>3, <1>4, <1>5, ReadMoves
<1> QED BY <1>3, <1>6 DEF r

-----------------------------------------------------------------------------
(* The application's data is sent.                                          *)

LEMMA SendSegmentMoves ==
  ASSUME NEW n \in Node, NEW e, NEW s, Local(n, s, e), e.c = "write", s.state \in Opened, s.waiting,
         NEW env, NEW len \in Nat, 0 < len, len <= s.buflen, s.sendWindow = 0 \/ len <= s.sendWindow
  PROVE  LET r == sendSegment(s, env, len)
         IN  Moves(n, e, s, r) /\ r.state = s.state /\ r.waiting = s.waiting
<1> DEFINE flags == IF s.buflen = len THEN {"PSH"} ELSE {}
           ack == getAckNum(s.receiveBuffer)
           hdr == writeHeaderWithAck(s, flags, ack)
           seg == [hdr EXCEPT !.len = len, !.data = s.buf]
           t == Transmit(s, env, seg, TRUE)
           r == sendSegment(s, env, len)
<1>1. /\ s \in AnySocket /\ Sound(s) /\ s.state \notin {"CLOSED"} \cup Opening
      /\ s.buf \in Nat /\ s.buflen \in Nat /\ s.seqnum_next \in SeqNum
  BY SoundIs DEF Local, Opened, Opening
<1>2. e.c # "new" /\ Stage(e.c, s) = 2 /\ ~Unsynchronised(e.c, s)
  BY <1>1, StageIs DEF Unsynchronised, Opening
<1>3. CASE ~requestSendBufferTCP(s, env)
  <2>1. r = Reclaim(s, env)
    BY <1>3 DEF sendSegment
  <2> DEFINE u == Reclaim(s, env)
  <2>2. Sound(u) /\ Sends(s, u, {})
    BY <1>1, ReclaimSends
  <2> HIDE DEF u, r
  <2>3. \A g \in {} : Empty(n, s, e, g)
    OBVIOUS
  <2>5. Moves(n, e, s, u)
    BY <2>2, <2>3, SendsMoves
  <2>6. u.state = s.state /\ u.waiting = s.waiting
    BY <1>1, <2>2, SendsSame
  <2>4. Moves(n, e, s, u) /\ u.state = s.state /\ u.waiting = s.waiting
    BY <2>5, <2>6
  <2> QED BY <2>1, <2>4 DEF u, r
<1>4. CASE requestSendBufferTCP(s, env)
  <2>1. r = [t EXCEPT !.buflen = @ - len, !.buf = @ + len, !.seqnum_next = SeqAdd(@, len),
                      !.sendWindow = IF @ = 0 THEN 0 ELSE @ - len]
    BY <1>4 DEF sendSegment
  <2>2. Sound(r)
    <3>1. \E k : Holds(s, k)
      BY <1>1 DEF Sound
    <3> QED BY <1>1, <3>1, SendSegmentHolds DEF Sound
  <2>3. /\ ack = At(Peer(n), 1 + Got(s)) /\ ack \in SeqNum
        /\ Pos(Peer(n), ack) \in Acks(s, e.ends, e.v, e.fin)
    BY <1>2, StreamIs
  <2> HIDE DEF ack
  <2>4. hdr \in AnySegment
    <3>1. flags \in SUBSET Flags
      BY DEF Flags
    <3> QED BY <1>1, <2>3, <3>1, HeaderType
  <2>5. hdr.flags = flags \cup {"ACK"} /\ hdr.seq = s.seqnum_next /\ hdr.ack = ack
    BY DEF writeHeaderWithAck, Segment
  <2> HIDE DEF hdr
  <2>6. /\ seg \in AnySegment /\ seg.len = len /\ seg.data = s.buf /\ seg.flags = flags \cup {"ACK"}
        /\ seg.seq = s.seqnum_next /\ seg.ack = ack
    BY <1>1, <2>4, <2>5 DEF AnySegment
  <2>7. End(seg) = s.buf + len
    BY <2>6 DEF End
  <2> HIDE DEF seg
  <2>8. Sound(t) /\ Sends(s, t, {seg}) /\ seg \in Timed(t)
    BY <1>1, <1>4, <2>6, TransmitSends
  <2> HIDE DEF t
  <2>9. /\ t \in AnySocket /\ t.state = s.state /\ t.waiting = s.waiting /\ t.receiving = s.receiving
        /\ t.FIN_received = s.FIN_received /\ t.buflen = s.buflen /\ t.buf = s.buf
        /\ t.FIN_seqnum = s.FIN_seqnum /\ t.seqnum_next = s.seqnum_next
        /\ t.seqnum_unacked = s.seqnum_unacked /\ t.read = s.read
        /\ t.receiveBuffer = s.receiveBuffer /\ t.packetbuffer = s.packetbuffer
    BY <1>1, <2>8, SendsSame, SoundIs
  <2> HIDE DEF r
  <2>10. /\ r.state = s.state /\ r.waiting = s.waiting /\ r.receiving = s.receiving
         /\ r.FIN_received = s.FIN_received /\ r.FIN_seqnum = s.FIN_seqnum
         /\ r.buflen = s.buflen - len /\ r.buf = s.buf + len
         /\ r.seqnum_next = SeqAdd(s.seqnum_next, len) /\ r.seqnum_unacked = s.seqnum_unacked
         /\ r.read = s.read /\ r.receiveBuffer = s.receiveBuffer /\ r.packetbuffer = s.packetbuffer
         /\ r.history = t.history /\ r.out = t.out
    BY <2>1, <2>9 DEF AnySocket
  <2>11. /\ Sending(n, s, e) /\ Tasks(n, s, e) /\ Receiving(n, s, e) /\ Finishing(n, s, e)
         /\ Handshake(n, s, e) /\ ViewOK(n, e) /\ Sent(n, s, e) /\ Uncut(n, s, e)
    BY DEF Local
  <2>12. /\ Una(n, s) \in Nat /\ Nxt(n, s) = s.buf + 1 /\ s.buf + s.buflen = e.w /\ Una(n, s) <= s.buf + 1
         /\ e.w \in Nat /\ e.w + 2 < SEQMOD \div 2 /\ SEQMOD \div 2 \in Nat /\ Una(n, s) >= 1
    BY <1>2, <2>11, NumbersIs, NodeFacts DEF Sending, Tasks
  <2>13. Una(n, r) = Una(n, s) /\ Nxt(n, r) = s.buf + len + 1
    <3>1. Nxt(n, s) + len < SEQMOD \div 2
      BY <1>1, <2>12
    <3>2. Pos(n, SeqAdd(s.seqnum_next, len)) = Nxt(n, s) + len
      BY <1>1, <3>1, PosAdd DEF Nxt
    <3>3. Una(n, r) = Una(n, s) /\ Nxt(n, r) = Nxt(n, s) + len
      BY <2>10, <3>2 DEF Una, Nxt
    <3> QED BY <1>1, <2>12, <3>3
  <2>14. Segs(r) = Segs(t) /\ Timed(r) = Timed(t) /\ seg \in Timed(r) /\ Segs(t) \subseteq Segs(s) \cup {seg}
    BY <2>8, <2>10, SameSegs DEF Sends
  <2>15. Stage(e.c, r) = 2 /\ ~FinSent(n, e.c, r) /\ ~FinSent(n, e.c, s)
    <3>1. Stage(e.c, r) = 2
      BY <1>2, <2>10 DEF Stage
    <3>2. Nxt(n, r) # r.buf + 2 /\ Nxt(n, s) # s.buf + 2
      BY <1>1, <2>10, <2>12, <2>13
    <3> QED BY <3>1, <3>2 DEF FinSent
  <2>16. SameStream(s, r) /\ Acks(r, e.ends, e.v, e.fin) = Acks(s, e.ends, e.v, e.fin)
    BY <2>10, SameAcks DEF SameStream
  <2>17. r.buf \in Nat /\ r.buf <= e.w /\ s.buf <= r.buf /\ r.buf + r.buflen = e.w
         /\ Nxt(n, r) = r.buf + 1 /\ Una(n, r) <= r.buf + 1
    BY <1>1, <2>10, <2>12, <2>13
  <2>18. Sending(n, r, e)
    <3>1. /\ Una(n, s) = 0 \/ Una(n, s) \in e.acks
          /\ e.k <= e.w /\ (e.k = 0 \/ e.k < Una(n, s))
      BY <1>2, <2>11 DEF Sending
    <3>2. r.state # "LISTEN" /\ r.state \notin Ending
      BY <2>10 DEF Opened, Ending
    <3>3. ~(2 < 2) /\ 2 # 1
      OBVIOUS
    <3>4. Una(n, r) <= Nxt(n, r) /\ Una(n, r) >= 1
      BY <2>12, <2>13, <2>17
    <3> QED BY <2>13, <2>15, <2>17, <3>1, <3>2, <3>3, <3>4 DEF Sending
  <2>19. Tasks(n, r, e)
    <3>1. r.state \notin {"LISTEN", "SYNSENT", "SYNRCVD"} /\ r.state \notin Opening
      BY <2>10 DEF Opened, Opening
    <3>2. r.receiving <=> (e.c = "receive" /\ r.waiting)
      BY <2>10, <2>11 DEF Tasks
    <3> QED BY <2>10, <2>17, <3>1, <3>2 DEF Tasks
  <2>20. Receiving(n, r, e) /\ Finishing(n, r, e)
    BY <2>10, <2>11, <2>16, SameReceiving, SameFinishing
  <2>21. Handshake(n, r, e)
    BY <1>2, <2>11, <2>15, SameHandshake
  <2>22. Covered(n, r, e)
    <3>1. SameNumbers(s, t)
      BY <2>9 DEF SameNumbers
    <3>2. \A g \in Timed(s) : g \in Timed(t) \/ SEQ_LT(g.seq, s.seqnum_unacked)
      BY <2>8 DEF Sends
    <3>3. Covered(n, t, e)
      BY <3>1, <3>2, StillCovered
    <3>4. \A k \in 0 .. s.buf - 1 : k + 1 < Una(n, s) \/ \E g \in Timed(r) : g.data <= k /\ k < End(g)
      BY <2>9, <2>14, <3>3 DEF Covered, Una
    <3>5. \A k \in 0 .. r.buf - 1 : k + 1 < Una(n, r) \/ \E g \in Timed(r) : g.data <= k /\ k < End(g)
      <4> TAKE k \in 0 .. r.buf - 1
      <4>1. CASE k < s.buf
        <5>1. k \in 0 .. s.buf - 1
          BY <1>1, <2>17, <4>1
        <5> QED BY <2>13, <3>4, <5>1
      <4>2. CASE ~(k < s.buf)
        <5>1. seg.data <= k /\ k < End(seg)
          BY <1>1, <2>6, <2>7, <2>10, <2>17, <4>2
        <5> QED BY <2>14, <5>1
      <4> QED BY <4>1, <4>2
    <3>6. r.state \notin {"FINWAIT2", "TIMEWAIT"}
      BY <2>10 DEF Opened
    <3> QED BY <2>15, <3>5, <3>6 DEF Covered
  <2>23. SegOK(n, seg, 2, e.w, FALSE, Acks(r, e.ends, e.v, e.fin))
    <3>1. seg.flags \subseteq {"ACK", "PSH", "FIN"} /\ has(seg, "ACK") /\ ~has(seg, "FIN")
      BY <2>6 DEF has
    <3>2. seg.seq = At(n, 1 + seg.data)
      <4>1. s.seqnum_next = At(n, Nxt(n, s))
        BY <1>1, PosIs DEF Nxt
      <4>2. Nxt(n, s) = 1 + s.buf
        BY <1>1, <2>12
      <4> QED BY <2>6, <4>1, <4>2
    <3> QED BY <2>3, <2>6, <2>16, <3>1, <3>2 DEF SegOK
  <2>24. Segs(s) \subseteq AnySegment /\ e.flight \subseteq AnySegment
    BY <1>1, <2>11, SegsType DEF ViewOK
  <2>25. ASSUME NEW g \in e.flight \cup Segs(s)
         PROVE  /\ g.len \in Nat /\ g.data \in Nat /\ End(g) \in Nat
                /\ g.len > 0 => End(g) <= s.buf
                /\ \A k : k \in Nat /\ s.buf <= k => ~Straddles(g, k)
    <3>1. g.len \in Nat /\ g.data \in Nat /\ End(g) \in Nat
      BY <2>24 DEF AnySegment, End
    <3>2. g.len > 0 => End(g) <= s.buf
      BY <2>11 DEF Sent
    <3> QED BY <1>1, <3>1, <3>2 DEF Straddles
  <2>26. \A k : k \in Nat /\ (k <= s.buf \/ k = s.buf + len) => ~Straddles(seg, k)
    BY <1>1, <2>6, <2>7 DEF Straddles
  <2>27. Sent(n, r, e)
    <3>1. ASSUME NEW g \in e.flight \cup Segs(r)
          PROVE  /\ SegOK(n, g, Stage(e.c, r), e.w, FinSent(n, e.c, r), Acks(r, e.ends, e.v, e.fin))
                 /\ g.len > 0 => End(g) <= r.buf
                 /\ g.len > 0 => \A h \in e.flight \cup Segs(r) : ~Straddles(h, End(g))
      <4>1. CASE g \in e.flight \cup Segs(s)
        <5>1. /\ SegOK(n, g, Stage(e.c, s), e.w, FinSent(n, e.c, s), Acks(s, e.ends, e.v, e.fin))
              /\ g.len > 0 => End(g) <= s.buf
              /\ g.len > 0 => \A h \in e.flight \cup Segs(s) : ~Straddles(h, End(g))
          BY <2>11, <4>1 DEF Sent
        <5>2. SegOK(n, g, Stage(e.c, r), e.w, FinSent(n, e.c, r), Acks(r, e.ends, e.v, e.fin))
          <6>1. FinSent(n, e.c, r) = FinSent(n, e.c, s)
            BY <2>15 DEF FinSent
          <6> QED BY <1>2, <2>15, <2>16, <5>1, <6>1
        <5>3. g.len > 0 => End(g) <= r.buf
          BY <1>1, <2>17, <2>25, <4>1
        <5>4. g.len > 0 => ~Straddles(seg, End(g))
          BY <2>25, <2>26, <4>1
        <5> QED BY <2>14, <5>1, <5>2, <5>3, <5>4
      <4>2. CASE g = seg
        <5>1. SegOK(n, g, Stage(e.c, r), e.w, FinSent(n, e.c, r), Acks(r, e.ends, e.v, e.fin))
          <6>1. FinSent(n, e.c, r) = FALSE
            BY <2>15 DEF FinSent
          <6> QED BY <2>15, <2>23, <4>2, <6>1
        <5>2. End(g) = r.buf /\ End(g) \in Nat /\ s.buf <= End(g)
          BY <2>7, <2>10, <2>17, <4>2
        <5>3. \A h \in e.flight \cup Segs(s) : ~Straddles(h, End(g))
          BY <2>25, <5>2
        <5>4. ~Straddles(seg, End(g))
          BY <2>7, <2>26, <4>2, <5>2
        <5>5. End(g) <= r.buf
          BY <2>17, <5>2
        <5> QED BY <2>14, <5>1, <5>3, <5>4, <5>5
      <4> QED BY <2>14, <4>1, <4>2
    <3> QED BY <3>1 DEF Sent
  <2>28. Uncut(n, r, e)
    <3>1. ASSUME NEW k \in e.cuts
          PROVE  k < Nxt(n, r) /\ \A g \in Segs(r) : ~Straddles(g, k)
      <4>1. k \in Nat /\ k < Nxt(n, s) /\ \A g \in Segs(s) : ~Straddles(g, k)
        BY <2>11 DEF Uncut, ViewOK
      <4>2. k <= s.buf /\ k < Nxt(n, r)
        BY <1>1, <2>12, <2>17, <4>1
      <4> QED BY <2>14, <2>26, <4>1, <4>2
    <3> QED BY <3>1 DEF Uncut
  <2>29. Grows(e, n, s, r)
    <3>1. Stage(e.c, s) <= Stage(e.c, r)
      BY <1>2, <2>15
    <3> QED BY <2>10, <2>15, <2>16, <2>17, <3>1 DEF Grows
  <2>30. Moves(n, e, s, r)
    BY <2>2, <2>11, <2>18, <2>19, <2>20, <2>21, <2>22, <2>27, <2>28, <2>29 DEF Moves, Local
  <2> QED BY <2>10, <2>30 DEF r
<1> QED BY <1>3, <1>4

\* Any number of rounds stays in a set that one round does not leave.
LEMMA RoundsStay ==
  ASSUME NEW A, NEW s \in A, NEW env, s.buflen \in Nat, \A x \in A : sendNextSegment(x, env) \in A
  PROVE  \/ processSendData(s, env) \in A
         \/ s.buflen > 0 /\ s.sendWindow = 0 /\ processSendData(s, env) = sendSegment(s, env, 1)
<1> DEFINE m == s.buflen
           Is(f) == f = [k \in 0 .. m |-> IF k = 0 THEN s ELSE sendNextSegment(f[k - 1], env)]
           rounds == CHOOSE f : Is(f)
           step == [x \in (1 .. m) \X A |-> sendNextSegment(x[2], env)]
           r == processSendData(s, env)
<1>1. m \in Nat
  OBVIOUS
<1> HIDE DEF m
<1>4. step \in [(1 .. m) \X A -> A]
  OBVIOUS
<1> HIDE DEF step
<1>5. PICK f : IsRecursive(f, A, s, m, step)
  BY <1>1, <1>4, Recursion, Zenon
<1>6. \A k \in 0 .. m : f[k] \in A /\ f[k] = IF k = 0 THEN s ELSE sendNextSegment(f[k - 1], env)
  <2> TAKE k \in 0 .. m
  <2>1. f[k] \in A
    BY <1>5 DEF IsRecursive
  <2>2. CASE k = 0
    BY <1>5, <2>1, <2>2 DEF IsRecursive
  <2>3. CASE k # 0
    <3>1. k \in 1 .. m /\ k - 1 \in 0 .. m
      BY <1>1, <2>3
    <3>2. f[k - 1] \in A /\ f[k] = step[<<k, f[k - 1]>>]
      BY <1>5, <3>1 DEF IsRecursive
    <3>3. <<k, f[k - 1]>> \in (1 .. m) \X A
      BY <3>1, <3>2
    <3>4. step[<<k, f[k - 1]>>] = sendNextSegment(f[k - 1], env)
      BY <3>3 DEF step
    <3> QED BY <2>1, <2>3, <3>2, <3>4
  <2> QED BY <2>2, <2>3
<1>7. Is(f)
  BY <1>5, <1>6 DEF IsRecursive
<1>8. Is(rounds)
  BY <1>7
<1> HIDE DEF rounds
<1>9. \A k \in 0 .. m : rounds[k] = IF k = 0 THEN s ELSE sendNextSegment(rounds[k - 1], env)
  BY <1>8
<1>10. rounds[m] \in A
  <2> DEFINE S == {k \in 0 .. m : rounds[k] \in A}
  <2>1. 0 \in S
    BY <1>1, <1>9
  <2>2. ASSUME NEW k \in 0 .. m - 1, k \in S PROVE k + 1 \in S
    <3>1. k + 1 \in 0 .. m /\ k + 1 # 0 /\ (k + 1) - 1 = k
      BY <1>1
    <3>2. rounds[k + 1] = sendNextSegment(rounds[k], env)
      BY <1>9, <3>1
    <3> QED BY <2>2, <3>1, <3>2
  <2> HIDE DEF S
  <2>3. \A k \in 0 .. m : k \in S
    BY <1>1, <2>1, <2>2, IntervalInduction
  <2> QED BY <1>1, <2>3 DEF S
<1>11. CASE s.buflen = 0
  BY <1>11 DEF processSendData
<1>12. CASE s.buflen > 0 /\ s.sendWindow = 0
  BY <1>12 DEF processSendData
<1>13. CASE s.buflen # 0 /\ ~(s.buflen > 0 /\ s.sendWindow = 0)
  <2>1. r = rounds[m]
    BY <1>13 DEF processSendData, rounds, m
  <2> QED BY <1>10, <2>1
<1> QED BY <1>11, <1>12, <1>13

LEMMA ProcessSendDataMoves ==
  ASSUME NEW n \in Node, NEW e, NEW s, Local(n, s, e), e.c \in {"write", "connect"}, s.state \in Opened,
         s.waiting, NEW env
  PROVE  LET r == processSendData(s, env)
         IN  Moves(n, e, s, r) /\ r.state = s.state
<1> DEFINE A == {x \in AnySocket : Moves(n, e, s, x) /\ x.state = s.state /\ x.waiting}
           r == processSendData(s, env)
<1>1. s \in AnySocket /\ s.buflen \in Nat
  BY SoundIs DEF Local
<1>2. Moves(n, e, s, s)
  BY GrowsSelf
<1>3. CASE s.buflen = 0
  <2>1. r = s
    BY <1>3 DEF processSendData
  <2> QED BY <1>2, <2>1
<1>4. CASE s.buflen # 0
  <2>1. e.c = "write" /\ s.buflen > 0
    BY <1>1, <1>4 DEF Local, Tasks
  <2>2. ASSUME NEW x \in A, NEW len \in Nat, 0 < len, len <= x.buflen,
               x.sendWindow = 0 \/ len <= x.sendWindow
        PROVE  sendSegment(x, env, len) \in A
    <3> DEFINE y == sendSegment(x, env, len)
    <3>1. Local(n, x, e) /\ x.state = s.state /\ x.waiting /\ Moves(n, e, s, x)
      BY DEF Moves
    <3>2. Moves(n, e, x, y) /\ y.state = x.state /\ y.waiting = x.waiting
      BY <2>1, <2>2, <3>1, SendSegmentMoves
    <3> HIDE DEF y
    <3>3. Moves(n, e, s, y)
      BY <3>1, <3>2, MovesTrans
    <3>4. y \in AnySocket
      BY <3>2, SoundIs DEF Moves, Local
    <3> QED BY <3>1, <3>2, <3>3, <3>4 DEF y
  <2>3. \A x \in A : sendNextSegment(x, env) \in A
    <3> SUFFICES ASSUME NEW x \in A PROVE sendNextSegment(x, env) \in A
      OBVIOUS
    <3> DEFINE len == Min({x.sendWindow, x.buflen, MSS})
    <3>1. x.sendWindow \in Nat /\ x.buflen \in Nat /\ MSS \in Nat /\ MSS > 0
      BY Constants, SocketAssumption DEF AnySocket
    <3>2. CASE x.buflen > 0 /\ x.sendWindow > 0
      <4>1. len \in Nat /\ len <= x.sendWindow /\ len <= x.buflen /\ len > 0
        BY <3>1, <3>2, MinIs
      <4> HIDE DEF A, len
      <4>2. sendSegment(x, env, len) \in A
        BY <2>2, <4>1
      <4> QED BY <3>2, <4>2 DEF sendNextSegment, len
    <3>3. CASE ~(x.buflen > 0 /\ x.sendWindow > 0)
      BY <3>3 DEF sendNextSegment
    <3> QED BY <3>2, <3>3
  <2>4. s \in A
    BY <1>1, <1>2
  <2>5. r \in A \/ (s.buflen > 0 /\ s.sendWindow = 0 /\ r = sendSegment(s, env, 1))
    <3> HIDE DEF A
    <3> QED BY <1>1, <2>3, <2>4, RoundsStay
  <2>6. s.buflen > 0 /\ s.sendWindow = 0 => sendSegment(s, env, 1) \in A
    <3>1. s.buflen > 0 => 1 <= s.buflen
      BY <1>1
    <3> HIDE DEF A
    <3> QED BY <2>2, <2>4, <3>1
  <2> HIDE DEF r
  <2>7. r \in A
    BY <2>5, <2>6
  <2> QED BY <2>7 DEF r
<1> QED BY <1>3, <1>4

\* An empty history of an open connection: all that was sent is acknowledged.
LEMMA NothingUnacked ==
  ASSUME NEW n \in Node, NEW e, NEW s, Local(n, s, e), s.history = <<>>, e.c # "new",
         s.state \in Opened \/ (~RetransmissionCounter /\ s.state \in Ending)
  PROVE  /\ s.state \in Opened => Una(n, s) = s.buf + 1
         /\ s.state \in Ending => Una(n, s) = Nxt(n, s)
<1>1. Timed(s) = {}
  BY DEF Timed, TimedRecords
<1>2. Stage(e.c, s) = 2
  BY StageIs
<1>3. /\ Una(n, s) \in Nat /\ Nxt(n, s) \in Nat /\ s.buf \in Nat /\ Una(n, s) <= Nxt(n, s)
  BY NumbersIs
<1>4. /\ Una(n, s) >= 1
      /\ s.state \in Opened => Nxt(n, s) = s.buf + 1
      /\ s.state \in Ending => Nxt(n, s) = s.buf + 2
  BY <1>2 DEF Local, Sending
<1>5. /\ \A k \in 0 .. s.buf - 1 : k + 1 < Una(n, s)
      /\ FinSent(n, e.c, s) => Una(n, s) = Nxt(n, s)
  BY <1>1 DEF Local, Covered
<1>6. ASSUME s.state \in Opened PROVE Una(n, s) = s.buf + 1
  <2>1. CASE s.buf = 0
    BY <1>3, <1>4, <1>6, <2>1
  <2>2. CASE s.buf # 0
    <3>1. s.buf - 1 \in 0 .. s.buf - 1 /\ (s.buf - 1) + 1 = s.buf
      BY <1>3, <2>2
    <3>2. s.buf < Una(n, s)
      BY <1>5, <3>1
    <3> QED BY <1>3, <1>4, <1>6, <3>2
  <2> QED BY <2>1, <2>2
<1>7. ASSUME s.state \in Ending PROVE Una(n, s) = Nxt(n, s)
  BY <1>2, <1>4, <1>5, <1>7 DEF FinSent
<1> QED BY <1>6, <1>7

LEMMA FinishSendingMoves ==
  ASSUME NEW n \in Node, NEW e, NEW s, Local(n, s, e), e.c \in {"write", "connect"}, s.state \in Opened
  PROVE  LET r == FinishSending(s)
         IN  Moves(n, e, s, r)
<1> DEFINE r == [s EXCEPT !.waiting = FALSE]
<1>1. s \in AnySocket /\ \E k : Holds(s, k)
  BY SoundIs DEF Local, Sound
<1>2. CASE ~(s.buflen = 0 /\ s.history = <<>>)
  BY <1>2, GrowsSelf DEF FinishSending
<1>3. CASE s.buflen = 0 /\ s.history = <<>>
  <2>1. FinishSending(s) = r
    BY <1>3 DEF FinishSending
  <2>2. Sound(r)
    BY <1>1, SetWaiting DEF Sound
  <2>3. /\ SameNumbers(s, r) /\ SameStream(s, r) /\ r.history = s.history /\ r.out = s.out
        /\ r.receiving = s.receiving /\ ~r.waiting /\ r.packetbuffer = s.packetbuffer
        /\ r.FIN_received = s.FIN_received /\ r.FIN_seqnum = s.FIN_seqnum /\ r.buflen = s.buflen
    BY <1>1 DEF SameNumbers, SameStream, AnySocket
  <2> HIDE DEF r
  <2>4. /\ Sending(n, s, e) /\ Tasks(n, s, e) /\ Receiving(n, s, e) /\ Finishing(n, s, e)
        /\ Handshake(n, s, e) /\ ViewOK(n, e) /\ Covered(n, s, e) /\ Sent(n, s, e) /\ Uncut(n, s, e)
    BY DEF Local
  <2>5. Segs(r) = Segs(s) /\ Timed(r) = Timed(s) /\ r.buf = s.buf /\ r.state = s.state
    BY <2>3, SameSegs DEF SameNumbers
  <2>6. Stage(e.c, r) = Stage(e.c, s) /\ FinSent(n, e.c, r) = FinSent(n, e.c, s)
        /\ Acks(r, e.ends, e.v, e.fin) = Acks(s, e.ends, e.v, e.fin)
    BY <2>3, SameFinSent, SameAcks
  <2>7. Sent(n, r, e)
    BY <2>4, <2>5, <2>6 DEF Sent
  <2>8. Sending(n, r, e) /\ Receiving(n, r, e) /\ Covered(n, r, e) /\ Uncut(n, r, e)
        /\ Handshake(n, r, e) /\ Finishing(n, r, e)
    BY <2>3, <2>4, <2>5, <2>6, SameSending, SameReceiving, SameCovered, SameUncut, SameHandshake,
       SameFinishing
  <2>9. Tasks(n, r, e)
    <3>1. r.state \notin {"LISTEN", "SYNSENT", "SYNRCVD"} /\ r.state \notin Opening
      BY <2>5 DEF Opened, Opening
    <3>2. e.c = "write" => s.buf = e.w
      <4>1. s.buf \in Nat /\ e.w \in Nat
        BY <2>4, NumbersIs
      <4>2. e.c = "write" => s.buf + s.buflen = e.w
        BY <2>4 DEF Tasks
      <4> QED BY <1>3, <4>1, <4>2
    <3>3. Una(n, r) = s.buf + 1 /\ s.buf + 1 = 1 + s.buf
      <4>1. s.buf \in Nat
        BY <2>4, NumbersIs
      <4>2. Una(n, s) = s.buf + 1
        BY <1>3, NothingUnacked
      <4> QED BY <2>3, <4>1, <4>2 DEF Una, SameNumbers
    <3>4. r.receiving <=> (e.c = "receive" /\ r.waiting)
      BY <2>3, <2>4 DEF Tasks
    <3> QED BY <2>3, <2>4, <2>5, <3>1, <3>2, <3>3, <3>4 DEF Tasks
  <2>10. Grows(e, n, s, r)
    BY <2>3, SameGrows
  <2>11. Moves(n, e, s, r)
    BY <2>2, <2>4, <2>7, <2>8, <2>9, <2>10 DEF Moves, Local
  <2> QED BY <2>1, <2>11 DEF r
<1> QED BY <1>2, <1>3

-----------------------------------------------------------------------------
(* input() with a segment, once the connection is synchronised.             *)

LEMMA ArrivesIs ==
  ASSUME NEW n \in Node, NEW e, NEW g, Arrives(n, e, g)
  PROVE  /\ g \in AnySegment /\ ~has(g, "RST")
         /\ has(g, "SYN") => /\ g.len = 0 /\ g.seq = At(Peer(n), 0) /\ ~has(g, "FIN")
                             /\ has(g, "ACK") <=> n = Client
         /\ ~has(g, "SYN") => has(g, "ACK") /\ e.stage = 2
         /\ has(g, "ACK") => Pos(n, g.ack) \in e.acks
<1>1. g \in AnySegment /\ SegOK(Peer(n), g, e.stage, e.v, e.fin, e.acks)
  BY DEF Arrives
<1>2. Peer(n) = Client <=> n # Client
  BY ConnectionAssumption DEF Peer, Node
<1>3. CASE g.flags \subseteq {"ACK", "PSH", "FIN"} /\ has(g, "ACK") /\ e.stage = 2
  <2>1. ~has(g, "RST") /\ ~has(g, "SYN")
    BY <1>3 DEF has
  <2>2. Pos(Peer(Peer(n)), g.ack) \in e.acks
    BY <1>1, <1>3 DEF SegOK
  <2> QED BY <1>1, <1>3, <2>1, <2>2, NodeFacts
<1>4. CASE /\ g.flags = IF Peer(n) = Client THEN {"SYN"} ELSE {"SYN", "ACK"}
           /\ g.len = 0 /\ g.seq = At(Peer(n), 0)
  <2>1. ~has(g, "RST") /\ has(g, "SYN") /\ ~has(g, "FIN") /\ (has(g, "ACK") <=> n = Client)
    BY <1>2, <1>4 DEF has
  <2>2. has(g, "ACK") => Pos(Peer(Peer(n)), g.ack) \in e.acks
    BY <1>1 DEF SegOK
  <2> QED BY <1>1, <1>4, <2>1, <2>2, NodeFacts
<1> QED BY <1>1, <1>3, <1>4 DEF SegOK

\* handleSYN(): an answer to a SYN that comes again.
LEMMA HandleSYNMoves ==
  ASSUME NEW n \in Node, NEW e, NEW s, Local(n, s, e), Stage(e.c, s) = 2, s.state # "CLOSED", NEW env
  PROVE  Moves(n, e, s, handleSYN(s, env))
<1> DEFINE f == freeReceivedSegment(s)
           r == sendACK(f, env)
<1>1. Moves(n, e, s, f) /\ Alike(s, f)
  BY FreeMoves
<1> HIDE DEF f
<1>2. Local(n, f, e) /\ f.state # "CLOSED" /\ Stage(e.c, f) = 2
  BY <1>1, SameFinSent DEF Moves, Alike, SameNumbers
<1>3. Moves(n, e, f, r)
  BY <1>2, SendACKMoves
<1> HIDE DEF r
<1>4. Moves(n, e, s, r)
  BY <1>1, <1>3, MovesTrans
<1> QED BY <1>4 DEF handleSYN, r, f

LEMMA HandleSYNFinalMoves ==
  ASSUME NEW n \in Node, NEW e, NEW s, Local(n, s, e), s.state \in AtEnd, NEW env
  PROVE  Moves(n, e, s, handleSYN_final(s, env))
<1> DEFINE f == freeReceivedSegment(s)
           r == AckFIN(f, env)
<1>1. Moves(n, e, s, f) /\ Alike(s, f)
  BY FreeMoves
<1> HIDE DEF f
<1>2. Local(n, f, e) /\ f.state \in AtEnd
  BY <1>1 DEF Moves, Alike, SameNumbers
<1>3. Moves(n, e, f, r)
  BY <1>2, AckFINMoves
<1> HIDE DEF r
<1>4. Moves(n, e, s, r)
  BY <1>1, <1>3, MovesTrans
<1> QED BY <1>4 DEF handleSYN_final, r, f

LEMMA EstablishedMoves ==
  ASSUME NEW n \in Node, NEW e, NEW s, Local(n, s, e), s.state = "ESTABLISHED", e.c # "listen",
         NEW env, NEW g, Arrives(n, e, g)
  PROVE  Moves(n, e, s, established(s, env, g))
<1>1. e.c # "new" /\ Stage(e.c, s) = 2 /\ g \in AnySegment /\ ~has(g, "RST")
  BY StatesOf, StageIs, ArrivesIs DEF Opening
<1>2. CASE has(g, "SYN")
  <2>1. established(s, env, g) = handleSYN(s, env)
    BY <1>1, <1>2 DEF established
  <2> QED BY <1>1, <2>1, HandleSYNMoves
<1>3. CASE ~has(g, "SYN")
  <2> DEFINE t == ackIf(s, g)
             h == handleData(handleFIN(t, g), g)
             d == updateSendWindow(h, g)
             a == [AckFIN(d, env) EXCEPT !.state = "CLOSEWAIT"]
             c == IF FIN_complete(d) THEN a ELSE d
             z == [c EXCEPT !.ACK_triggered = TRUE]
  <2>1. established(s, env, g) = IF getReceiveWindow(c) = 0 THEN z ELSE c
    BY <1>1, <1>3 DEF established
  <2>2. Moves(n, e, s, h) /\ h.state = s.state
    <3>1. t \in {s, ackIf(s, g)}
      OBVIOUS
    <3> HIDE DEF t
    <3> QED BY <3>1, SegmentMoves
  <2> HIDE DEF h
  <2>3. Local(n, h, e)
    BY <2>2 DEF Moves
  <2>4. Moves(n, e, h, d) /\ d.state = s.state
    BY <1>1, <2>2, <2>3, SendWindowMoves DEF Alike, SameNumbers
  <2> HIDE DEF d
  <2>5. Moves(n, e, s, d) /\ Local(n, d, e)
    BY <2>2, <2>4, MovesTrans DEF Moves
  <2>6. FIN_complete(d) => Moves(n, e, d, a)
    BY <2>4, <2>5, AckAndFinish
  <2> HIDE DEF a
  <2>7. Moves(n, e, s, c) /\ Local(n, c, e)
    <3>1. FIN_complete(d) => Moves(n, e, s, a) /\ Local(n, a, e)
      BY <2>5, <2>6, MovesTrans DEF Moves
    <3> QED BY <2>5, <3>1
  <2> HIDE DEF c
  <2>8. Moves(n, e, c, z)
    BY <2>7, SetTriggeredMoves
  <2> HIDE DEF z
  <2>9. Moves(n, e, s, z)
    BY <2>7, <2>8, MovesTrans
  <2> QED BY <2>1, <2>7, <2>9
<1> QED BY <1>2, <1>3

\* What is acknowledged is so in the sequence numbers and in their positions.
LEMMA AllAcked ==
  ASSUME NEW n \in Node, NEW e, NEW s, Local(n, s, e)
  PROVE  Una(n, s) = Nxt(n, s) <=> s.seqnum_unacked = s.seqnum_next
<1>1. s.seqnum_unacked \in SeqNum /\ s.seqnum_next \in SeqNum
  BY SoundIs DEF Local
<1>2. At(n, Una(n, s)) = s.seqnum_unacked /\ At(n, Nxt(n, s)) = s.seqnum_next
  BY <1>1, PosIs DEF Una, Nxt
<1> QED BY <1>2 DEF Una, Nxt

LEMMA FinwaitMoves ==
  ASSUME NEW n \in Node, NEW e, NEW s, Local(n, s, e), s.state \in {"FINWAIT1", "FINWAIT2"},
         NEW env, NEW g, Arrives(n, e, g)
  PROVE  /\ s.state = "FINWAIT1" => Moves(n, e, s, finwait1(s, env, g))
         /\ s.state = "FINWAIT2" => Moves(n, e, s, finwait2(s, env, g))
<1>1. e.c # "new" /\ e.c # "listen" /\ Stage(e.c, s) = 2 /\ g \in AnySegment /\ ~has(g, "RST")
  BY StatesOf, StageIs, ArrivesIs DEF Opening, Ending, Quiet
<1>2. CASE has(g, "SYN")
  <2>1. finwait1(s, env, g) = handleSYN(s, env) /\ finwait2(s, env, g) = handleSYN(s, env)
    BY <1>1, <1>2 DEF finwait1, finwait2
  <2>2. Moves(n, e, s, handleSYN(s, env))
    BY <1>1, HandleSYNMoves
  <2> QED BY <2>1, <2>2
<1>3. CASE ~has(g, "SYN") /\ s.state = "FINWAIT1"
  <2> DEFINE acked == has(g, "ACK") /\ g.ack = s.seqnum_next
             st == IF acked THEN "TIMEWAIT" ELSE "CLOSING"
             t == ackIf(s, g)
             d == handleData(handleFIN(t, g), g)
             a == [AckFIN(d, env) EXCEPT !.state = st]
  <2>1. finwait1(s, env, g) = IF FIN_complete(d) THEN a ELSE d
    BY <1>1, <1>3 DEF finwait1
  <2>2. Moves(n, e, s, d) /\ d.state = s.state /\ (acked => d.seqnum_unacked = d.seqnum_next)
    <3>1. t \in {s, ackIf(s, g)} /\ t = ackIf(s, g)
      OBVIOUS
    <3> HIDE DEF t
    <3> QED BY <1>3, <3>1, SegmentMoves
  <2> HIDE DEF d
  <2>3. Local(n, d, e)
    BY <2>2 DEF Moves
  <2>4. ASSUME FIN_complete(d) PROVE Moves(n, e, s, a)
    <3>1. \/ d.state = "FINWAIT1" /\ st = "CLOSING"
          \/ d.state \in {"FINWAIT1", "FINWAIT2"} /\ st = "TIMEWAIT"
               /\ (RetransmissionCounter \/ d.seqnum_unacked = d.seqnum_next)
      BY <1>3, <2>2
    <3> HIDE DEF st
    <3>2. Moves(n, e, d, a)
      BY <1>1, <2>3, <2>4, <3>1, AckAndFinish
    <3> HIDE DEF a
    <3> QED BY <2>2, <3>2, MovesTrans
  <2> HIDE DEF a
  <2> QED BY <1>3, <2>1, <2>2, <2>4
<1>4. CASE ~has(g, "SYN") /\ s.state = "FINWAIT2"
  <2> DEFINE d == handleData(handleFIN(s, g), g)
             a == [AckFIN(d, env) EXCEPT !.state = "TIMEWAIT"]
  <2>1. finwait2(s, env, g) = IF FIN_complete(d) THEN a ELSE d
    BY <1>1, <1>4 DEF finwait2
  <2>2. Moves(n, e, s, d) /\ d.state = s.state
    BY <1>4, SegmentMoves
  <2> HIDE DEF d
  <2>3. Local(n, d, e)
    BY <2>2 DEF Moves
  <2>4. RetransmissionCounter \/ d.seqnum_unacked = d.seqnum_next
    <3>1. RetransmissionCounter \/ Una(n, d) = Nxt(n, d)
      BY <1>4, <2>2, <2>3 DEF Local, Covered, Ending
    <3> QED BY <2>3, <3>1, AllAcked
  <2>5. ASSUME FIN_complete(d) PROVE Moves(n, e, s, a)
    <3>1. Moves(n, e, d, a)
      BY <1>1, <1>4, <2>2, <2>3, <2>4, <2>5, AckAndFinish
    <3> HIDE DEF a
    <3> QED BY <2>2, <3>1, MovesTrans
  <2> HIDE DEF a
  <2> QED BY <1>4, <2>1, <2>2, <2>5
<1> QED BY <1>2, <1>3, <1>4

\* The states behind the peer's FIN.
LEMMA FinalMoves ==
  ASSUME NEW n \in Node, NEW e, NEW s, Local(n, s, e), s.state \in AtEnd,
         NEW env, NEW g, Arrives(n, e, g)
  PROVE  /\ Moves(n, e, s, closewait(s, env, g)) /\ Moves(n, e, s, lastack(s, env, g))
         /\ Moves(n, e, s, closing(s, env, g)) /\ Moves(n, e, s, timewait(s, env, g))
<1>1. e.c # "new" /\ g \in AnySegment /\ ~has(g, "RST")
  BY StatesOf, ArrivesIs DEF AtEnd
<1>2. CASE has(g, "SYN")
  <2>1. /\ closewait(s, env, g) = handleSYN_final(s, env) /\ lastack(s, env, g) = handleSYN_final(s, env)
        /\ closing(s, env, g) = handleSYN_final(s, env) /\ timewait(s, env, g) = handleSYN_final(s, env)
    BY <1>1, <1>2 DEF closewait, lastack, closing, timewait
  <2>2. Moves(n, e, s, handleSYN_final(s, env))
    BY HandleSYNFinalMoves
  <2> QED BY <2>1, <2>2
<1>3. CASE ~has(g, "SYN")
  <2> DEFINE Answer(x) == IF has(g, "FIN") THEN AckFIN(x, env) ELSE x
             t == ackIf(s, g)
  <2>1. /\ closewait(s, env, g) = freeReceivedSegment(updateSendWindow(Answer(t), g))
        /\ lastack(s, env, g) = freeReceivedSegment(t)
        /\ closing(s, env, g) = freeReceivedSegment(Answer(t))
        /\ timewait(s, env, g) = freeReceivedSegment(Answer(s))
    BY <1>1, <1>3 DEF closewait, lastack, closing, timewait
  <2>2. Moves(n, e, s, t) /\ t.state = s.state
    BY <1>1, AckIfMoves DEF SameStream
  <2>3. Moves(n, e, s, s)
    BY GrowsSelf
  <2>4. ASSUME NEW x, Moves(n, e, s, x), x.state = s.state
        PROVE  Moves(n, e, s, Answer(x)) /\ Answer(x).state = s.state
    <3>1. Local(n, x, e)
      BY <2>4 DEF Moves
    <3>2. Moves(n, e, x, AckFIN(x, env)) /\ AckFIN(x, env).state = x.state
      BY <2>4, <3>1, AckFINMoves DEF SameNumbers
    <3>3. Moves(n, e, s, AckFIN(x, env))
      BY <2>4, <3>2, MovesTrans
    <3> QED BY <2>4, <3>2, <3>3
  <2>5. ASSUME NEW x, Moves(n, e, s, x)
        PROVE  Moves(n, e, s, freeReceivedSegment(x)) /\ Moves(n, e, s, updateSendWindow(x, g))
    <3>1. Local(n, x, e)
      BY <2>5 DEF Moves
    <3>2. Moves(n, e, x, freeReceivedSegment(x)) /\ Moves(n, e, x, updateSendWindow(x, g))
      BY <1>1, <3>1, FreeMoves, SendWindowMoves
    <3> QED BY <2>5, <3>2, MovesTrans
  <2> HIDE DEF Answer, t
  <2>6. Moves(n, e, s, Answer(t)) /\ Moves(n, e, s, Answer(s))
    BY <2>2, <2>3, <2>4
  <2> QED BY <2>1, <2>2, <2>5, <2>6
<1> QED BY <1>2, <1>3

\* A step that concerns the call only.
LEMMA CallMoves ==
  ASSUME NEW n \in Node, NEW e, NEW s, Local(n, s, e), NEW r, Sound(r),
         SameNumbers(s, r), SameStream(s, r), r.history = s.history, r.out = s.out,
         r.packetbuffer \in {s.packetbuffer, <<>>}, r.FIN_received = s.FIN_received,
         r.FIN_seqnum = s.FIN_seqnum, Tasks(n, r, e)
  PROVE  Moves(n, e, s, r)
<1>4. /\ Sending(n, s, e) /\ Receiving(n, s, e) /\ Finishing(n, s, e)
      /\ Handshake(n, s, e) /\ ViewOK(n, e) /\ Covered(n, s, e) /\ Sent(n, s, e) /\ Uncut(n, s, e)
  BY DEF Local
<1>5. Segs(r) = Segs(s) /\ Timed(r) = Timed(s) /\ r.buf = s.buf
  BY SameSegs DEF SameNumbers
<1>6. Stage(e.c, r) = Stage(e.c, s) /\ FinSent(n, e.c, r) = FinSent(n, e.c, s)
      /\ Acks(r, e.ends, e.v, e.fin) = Acks(s, e.ends, e.v, e.fin)
  <2>1. FinSent(n, e.c, r) = FinSent(n, e.c, s) /\ Stage(e.c, r) = Stage(e.c, s)
    BY DEF SameNumbers, FinSent, Stage, Nxt
  <2> QED BY <2>1, SameAcks
<1>7. Sent(n, r, e)
  BY <1>4, <1>5, <1>6 DEF Sent
<1>8. Sending(n, r, e) /\ Receiving(n, r, e) /\ Covered(n, r, e) /\ Uncut(n, r, e)
      /\ Handshake(n, r, e) /\ Finishing(n, r, e)
  BY <1>4, <1>5, <1>6, SameSending, SameReceiving, SameCovered, SameUncut, SameHandshake,
     SameFinishing
<1>10. Grows(e, n, s, r)
  BY SameGrows
<1> QED BY <1>4, <1>7, <1>8, <1>10 DEF Moves, Local

\* A call on a CLOSED socket returns.
LEMMA ClosedMoves ==
  ASSUME NEW n \in Node, NEW e, NEW s, Local(n, s, e), s.state = "CLOSED"
  PROVE  Moves(n, e, s, [s EXCEPT !.waiting = FALSE])
<1> DEFINE r == [s EXCEPT !.waiting = FALSE]
<1>1. s \in AnySocket /\ \E k : Holds(s, k)
  BY SoundIs DEF Local, Sound
<1>2. Sound(r)
  BY <1>1, SetWaiting DEF Sound
<1>3. /\ SameNumbers(s, r) /\ SameStream(s, r) /\ r.history = s.history /\ r.out = s.out
      /\ r.packetbuffer = s.packetbuffer /\ r.state = s.state
      /\ r.FIN_received = s.FIN_received /\ r.FIN_seqnum = s.FIN_seqnum
      /\ r.buflen = s.buflen /\ r.receiving = s.receiving
  BY <1>1 DEF SameNumbers, SameStream, AnySocket
<1> HIDE DEF r
<1>9. Tasks(n, r, e)
  <2>1. r.state \notin {"LISTEN", "SYNSENT", "SYNRCVD"} /\ r.state \notin Opening /\ r.state \notin Opened
    BY <1>3 DEF Opened, Opening
  <2>2. Tasks(n, s, e)
    BY DEF Local
  <2> QED BY <1>3, <2>1, <2>2 DEF Tasks
<1>10. Moves(n, e, s, r)
  BY <1>2, <1>3, <1>9, CallMoves
<1> QED BY <1>10 DEF r

-----------------------------------------------------------------------------
(* input() with a segment during the handshake.                             *)

\* The handshake is over.
LEMMA EstablishMoves ==
  ASSUME NEW n \in Node, NEW e, NEW s, Local(n, s, e), s.state \in {"SYNSENT", "SYNRCVD"},
         s.seqnum_unacked = s.seqnum_next, e.stage >= 1, n = Server => e.stage = 2,
         NEW r, Sound(r), r.state = "ESTABLISHED", e.c = "listen" => ~r.waiting,
         r.buf = s.buf, r.seqnum_unacked = s.seqnum_unacked, r.seqnum_next = s.seqnum_next,
         r.buflen = s.buflen, r.receiving = s.receiving, r.FIN_received = s.FIN_received,
         r.packetbuffer = s.packetbuffer, Segs(r) \subseteq Segs(s), Got(r) = Got(s),
         Receiving(n, r, e)
  PROVE  Moves(n, e, s, r)
<1>1. /\ Sending(n, s, e) /\ Tasks(n, s, e) /\ Finishing(n, s, e) /\ Sound(s)
      /\ Handshake(n, s, e) /\ ViewOK(n, e) /\ Sent(n, s, e) /\ Uncut(n, s, e)
  BY DEF Local
<1>2. /\ e.c \in {"connect", "listen"} /\ s.buflen = 0 /\ ~s.receiving /\ ~s.FIN_received
      /\ ~RetransmissionCounter
  BY <1>1 DEF Tasks, Finishing, Opening
<1>3. Stage(e.c, s) = 1 /\ Stage(e.c, r) = 2
  BY <1>2 DEF Stage
<1>4. s.buf = 0 /\ e.w = 0 /\ Nxt(n, s) = 1 /\ Una(n, s) = 1
  <2>1. s.buf = 0 /\ e.w = 0 /\ Nxt(n, s) = 1
    BY <1>1, <1>3 DEF Sending
  <2> QED BY <2>1 DEF Una, Nxt
<1>5. r.buf = 0 /\ Nxt(n, r) = 1 /\ Una(n, r) = 1
  BY <1>4 DEF Una, Nxt
<1>6. ~FinSent(n, e.c, r) /\ ~FinSent(n, e.c, s)
  BY <1>3, <1>5 DEF FinSent
<1>7. Sending(n, r, e)
  <2>1. e.k = 0 /\ (Una(n, s) = 0 \/ Una(n, s) \in e.acks)
    BY <1>1, <1>2, <1>4 DEF Sending, ViewOK
  <2> QED BY <1>1, <1>3, <1>4, <1>5, <1>6, <2>1 DEF Sending, Ending
<1>8. Tasks(n, r, e)
  BY <1>2, <1>4, <1>5 DEF Tasks, Opening, Opened
<1>9. Finishing(n, r, e)
  BY <1>2 DEF Finishing, AtEnd
<1>10. Covered(n, r, e)
  BY <1>5, <1>6 DEF Covered
<1>11. Acks(s, e.ends, e.v, e.fin) = Acks(r, e.ends, e.v, e.fin)
  BY DEF Acks, AtEnd
<1>12. Sent(n, r, e)
  <2>1. \A g : SegOK(n, g, Stage(e.c, s), e.w, FinSent(n, e.c, s), Acks(s, e.ends, e.v, e.fin))
               => SegOK(n, g, Stage(e.c, r), e.w, FinSent(n, e.c, r), Acks(r, e.ends, e.v, e.fin))
    BY <1>3, <1>6, <1>11, SegOKLater
  <2> QED BY <1>1, <2>1 DEF Sent
<1>13. Uncut(n, r, e)
  BY <1>1, <1>4, <1>5 DEF Uncut
<1>14. Handshake(n, r, e)
  <2>1. n \in {Client, Server} /\ e.stage \in 0 .. 2
    BY <1>1 DEF Node, ViewOK
  <2> QED BY <1>3, <2>1 DEF Handshake
<1>15. Grows(e, n, s, r)
  BY <1>3, <1>4, <1>5, <1>6, <1>11 DEF Grows
<1> QED BY <1>1, <1>7, <1>8, <1>9, <1>10, <1>12, <1>13, <1>14, <1>15 DEF Moves, Local

\* An empty buffer that has learnt the peer's first number.
LEMMA FreshStream ==
  ASSUME NEW n \in Node, NEW b \in AnyBuffer, b.list = <<>>, b.recv_continuous = 0, b.recv_bytes = 0,
         NEW q, q = setFirstSeqNum(b, At(Peer(n), 1))
  PROVE  /\ q.list = <<>> /\ q.recv_bytes = 0
         /\ Consistent(At(Peer(n), 1), ToWrite[Peer(n)], q, 0)
<1>1. /\ ISN[Peer(n)] \in SeqNum /\ ToWrite[Peer(n)] \in Nat /\ 1 < SEQMOD /\ At(Peer(n), 1) \in SeqNum
  <2>1. 1 < SEQMOD
    BY Constants
  <2> QED BY <2>1, NodeFacts, PosAt
<1>2. /\ q.list = <<>> /\ q.recv_continuous = 0 /\ q.recv_bytes = 0
      /\ q.read_firstSeqNum = At(Peer(n), 1) /\ q \in AnyBuffer
  BY <1>1 DEF setFirstSeqNum, AnyBuffer
<1>3. q \in StreamBuffer(At(Peer(n), 1), ToWrite[Peer(n)])
  <2>1. <<>> \in Seq(StreamElement(At(Peer(n), 1), ToWrite[Peer(n)]))
    OBVIOUS
  <2> QED BY <1>2, <2>1 DEF StreamBuffer, AnyBuffer
<1>4. SeqAdd(At(Peer(n), 1), 0) = At(Peer(n), 1)
  <2>1. At(Peer(n), 1) \in 0 .. SEQMOD - 1 /\ SEQMOD \in Nat
    BY <1>1, SeqModAssumption DEF SeqNum
  <2> HIDE DEF At
  <2> QED BY <2>1 DEF SeqAdd
<1>5. Joined(q.list, q.recv_continuous, 0) /\ Acked(q.list, q.recv_continuous, 0) = 0
  BY <1>2 DEF Joined, Acked
<1>6. Len(q.list) = 0
  BY <1>2
<1> QED BY <1>2, <1>3, <1>4, <1>5, <1>6 DEF Consistent

\* The stream of a socket that has just learnt the peer's first number.
LEMMA StreamStarts ==
  ASSUME NEW n \in Node, NEW e, NEW s, Local(n, s, e), Unsynchronised(e.c, s), e.stage >= 1,
         NEW r, Sound(r), ~Unsynchronised(e.c, r), r.read = s.read,
         r.receiveBuffer = setFirstSeqNum(s.receiveBuffer, At(Peer(n), 1))
  PROVE  Receiving(n, r, e) /\ Got(s) = 0 /\ Got(r) = 0 /\ 0 \in e.ends
<1> DEFINE b == s.receiveBuffer
           q == r.receiveBuffer
<1>1. /\ s.read = <<>> /\ b.list = <<>> /\ b.recv_continuous = 0 /\ b.recv_bytes = 0 /\ 0 \in e.ends
  BY DEF Local, Receiving, ViewOK
<1>2. b \in AnyBuffer
  BY SoundIs DEF Local
<1>3. q = setFirstSeqNum(b, At(Peer(n), 1))
  OBVIOUS
<1> HIDE DEF q, b
<1>4. q.list = <<>> /\ q.recv_bytes = 0 /\ Consistent(At(Peer(n), 1), ToWrite[Peer(n)], q, 0)
  BY <1>1, <1>2, <1>3, FreshStream
<1>5. r.receiveBuffer = q /\ r.read = <<>> /\ Len(r.read) = 0 /\ Len(s.read) = 0
  BY <1>1 DEF q
<1>6. Got(s) = 0 /\ Got(r) = 0
  BY <1>1, <1>4, <1>5 DEF Got, b
<1> QED BY <1>1, <1>4, <1>5, <1>6 DEF Receiving

\* The number behind the SYN.
LEMMA BehindSYN ==
  ASSUME NEW n \in Node
  PROVE  /\ SeqAdd(At(n, 0), 1) = At(n, 1) /\ At(n, 1) \in SeqNum /\ Pos(n, At(n, 1)) = 1
         /\ At(n, 0) = ISN[n] /\ ISN[n] \in SeqNum /\ Pos(n, ISN[n]) = 0
<1>1. ISN[n] \in SeqNum /\ 1 < SEQMOD /\ 0 < SEQMOD
  BY NodeFacts, Constants
<1>2. At(n, 1) \in SeqNum /\ Pos(n, At(n, 1)) = 1 /\ Pos(n, At(n, 0)) = 0
  BY <1>1, PosAt
<1>3. 0 + 1 < SEQMOD \div 2
  <2>1. ToWrite[n] \in Nat /\ ToWrite[n] + 2 < SEQMOD \div 2 /\ SEQMOD \div 2 \in Nat
    BY NodeFacts
  <2> QED BY <2>1
<1>4. SeqAdd(At(n, 0), 1) = SeqAdd(ISN[n], 0 + 1)
  BY <1>1, <1>3, SeqAddAdd DEF At
<1>5. At(n, 0) = ISN[n]
  <2>1. ISN[n] \in 0 .. SEQMOD - 1 /\ SEQMOD \in Nat
    BY <1>1, SeqModAssumption DEF SeqNum
  <2> QED BY <2>1 DEF At, SeqAdd
<1> QED BY <1>1, <1>2, <1>4, <1>5 DEF At

\* A SYN reaches the listening socket: it is answered if there is a buffer.
LEMMA ListenMoves ==
  ASSUME NEW n \in Node, NEW e, NEW s, Local(n, s, e), s.state = "LISTEN",
         NEW env, NEW g, Arrives(n, e, g)
  PROVE  Moves(n, e, s, listen(s, env, g))
<1> DEFINE x  == SeqAdd(g.seq, 1)
           t  == [s EXCEPT !.receiveBuffer = setFirstSeqNum(s.receiveBuffer, x)]
           f  == freeReceivedSegment(t)
           rcv == [f EXCEPT !.state = "SYNRCVD"]
           ack == writeHeaderWithAck(rcv, {"SYN"}, getAckNum(f.receiveBuffer))
           u  == Transmit(rcv, env, ack, TRUE)
           r  == [u EXCEPT !.seqnum_next = SeqAdd(u.seqnum_next, 1)]
<1>1. /\ Sending(n, s, e) /\ Tasks(n, s, e) /\ Finishing(n, s, e) /\ Sound(s) /\ Receiving(n, s, e)
      /\ Handshake(n, s, e) /\ ViewOK(n, e) /\ Sent(n, s, e) /\ Uncut(n, s, e) /\ s \in AnySocket
  BY SoundIs DEF Local
<1>2. n = Server /\ e.c = "listen" /\ s.waiting /\ s.buflen = 0 /\ ~s.receiving /\ ~s.FIN_received
      /\ ~RetransmissionCounter /\ Client # Server
  BY <1>1, ConnectionAssumption DEF Tasks, Finishing, Opening
<1>3. Stage(e.c, s) = 0
  BY DEF Stage
<1>4. e.stage # 2
  BY <1>1, <1>2, <1>3 DEF Handshake
<1>5. has(g, "SYN") /\ ~has(g, "RST") /\ x = At(Peer(n), 1) /\ x \in SeqNum /\ g \in AnySegment
  <2>1. has(g, "SYN") /\ g.seq = At(Peer(n), 0) /\ g \in AnySegment /\ ~has(g, "RST")
    BY <1>4, ArrivesIs
  <2> QED BY <2>1, NodeFacts, BehindSYN
<1>6. e.stage >= 1
  BY <1>1, <1>5 DEF Arrives, SegOK, has, ViewOK
<1> HIDE DEF x
<1>7. Sound(t) /\ t.state = "LISTEN"
  <2>1. \E k : Holds(s, k)
    BY <1>1 DEF Sound
  <2> QED BY <1>1, <1>5, <2>1, SetFirst DEF Sound, AnySocket
<1>8. /\ t.read = s.read /\ t.receiveBuffer = setFirstSeqNum(s.receiveBuffer, x)
      /\ SameNumbers(s, t) /\ SameRest(s, t) /\ t.history = s.history /\ t.out = s.out
      /\ t.packetbuffer = s.packetbuffer
  BY <1>1 DEF SameNumbers, SameRest, AnySocket
<1>9. t.receiveBuffer.list = s.receiveBuffer.list /\ t.receiveBuffer.recv_bytes = s.receiveBuffer.recv_bytes
      /\ t.receiveBuffer.recv_continuous = s.receiveBuffer.recv_continuous
      /\ getAckNum(t.receiveBuffer) = x
  <2>1. s.receiveBuffer \in AnyBuffer /\ s.receiveBuffer.recv_continuous = 0
    BY <1>1, SoundIs DEF Receiving, Unsynchronised
  <2> QED BY <1>8, <2>1 DEF setFirstSeqNum, AnyBuffer, getAckNum
<1> HIDE DEF t
<1>10. Moves(n, e, s, t)
  <2>1. Acks(t, e.ends, e.v, e.fin) = Acks(s, e.ends, e.v, e.fin)
    BY <1>8, <1>9 DEF Acks, Got, SameNumbers
  <2>2. Segs(t) = Segs(s) /\ Timed(t) = Timed(s) /\ Stage(e.c, t) = Stage(e.c, s)
        /\ FinSent(n, e.c, t) = FinSent(n, e.c, s)
    BY <1>8, SameSegs DEF SameNumbers, Stage, FinSent, Nxt
  <2>3. Sending(n, t, e) /\ Tasks(n, t, e)
    BY <1>1, <1>8, SameSending, SameTasks DEF SameRest
  <2>4. Receiving(n, t, e)
    BY <1>1, <1>7, <1>8, <1>9 DEF Receiving, Unsynchronised
  <2>5. Finishing(n, t, e) /\ Covered(n, t, e)
    BY <1>2, <1>7, <1>8 DEF Finishing, Covered, SameRest, AtEnd, Opened, Ending
  <2>6. Uncut(n, t, e) /\ Handshake(n, t, e)
    BY <1>1, <1>8, <2>2, SameUncut, SameHandshake
  <2>7. Sent(n, t, e)
    BY <1>1, <1>8, <2>1, <2>2 DEF Sent, SameNumbers
  <2>8. Grows(e, n, s, t)
    <3>1. t.buf <= t.buf /\ t.buf = s.buf
      BY <1>7, <1>8, SoundIs DEF SameNumbers
    <3>2. Stage(e.c, s) <= Stage(e.c, t)
      BY <1>3, <2>2
    <3> QED BY <1>8, <2>1, <2>2, <3>1, <3>2 DEF Grows
  <2> QED BY <1>1, <1>7, <2>3, <2>4, <2>5, <2>6, <2>7, <2>8 DEF Moves, Local
<1>11. Moves(n, e, t, f) /\ Alike(t, f)
  BY <1>10, FreeMoves DEF Moves
<1>12. /\ f.state = "LISTEN" /\ f.receiveBuffer = t.receiveBuffer /\ f.read = t.read
       /\ f.history = t.history /\ f.out = t.out /\ f.packetbuffer = t.packetbuffer
       /\ f.waiting = s.waiting /\ f.buflen = s.buflen /\ f.receiving = s.receiving
       /\ f.FIN_received = s.FIN_received /\ f.seqnum_next = s.seqnum_next /\ f.buf = s.buf
       /\ f.seqnum_unacked = s.seqnum_unacked
  BY <1>7, <1>8, SoundIs DEF freeReceivedSegment, AnySocket, SameNumbers, SameRest
<1> HIDE DEF f
<1>13. Local(n, f, e) /\ Moves(n, e, s, f) /\ Sound(f)
  BY <1>10, <1>11, MovesTrans DEF Moves, Local
<1>14. CASE ~requestSendBufferTCP(f, env)
  <2>1. listen(s, env, g) = Reclaim(f, env)
    BY <1>5, <1>14 DEF listen, f, t, x
  <2>2. Sound(Reclaim(f, env)) /\ Sends(f, Reclaim(f, env), {})
    BY <1>12, <1>13, ReclaimSends
  <2>3. \A h \in {} : Empty(n, f, e, h)
    OBVIOUS
  <2>4. Moves(n, e, f, Reclaim(f, env))
    BY <1>13, <2>2, <2>3, SendsMoves
  <2>5. Moves(n, e, s, Reclaim(f, env))
    BY <1>13, <2>4, MovesTrans
  <2> QED BY <2>1, <2>5
<1>15. CASE requestSendBufferTCP(f, env)
  <2>1. listen(s, env, g) = r
    BY <1>5, <1>15 DEF listen, f, t, x
  <2>2. PICK k : Holds(f, k)
    BY <1>13 DEF Sound
  <2>3. Holds(rcv, k) /\ requestSendBufferTCP(rcv, env) /\ ack \in AnySegment
    <3>1. 0 \in SeqNum /\ f.state \in Opening
      BY <1>12, Constants DEF Opening
    <3> QED BY <1>15, <2>2, <3>1, AnswerSYN
  <2>4. Sound(rcv) /\ rcv.state = "SYNRCVD"
    BY <2>2, <2>3, HoldsIs DEF Sound, AnySocket
  <2>5. /\ rcv.receiveBuffer = f.receiveBuffer /\ rcv.read = f.read /\ rcv.history = f.history
        /\ rcv.out = f.out /\ rcv.packetbuffer = f.packetbuffer /\ rcv.waiting = f.waiting
        /\ rcv.buflen = f.buflen /\ rcv.receiving = f.receiving /\ rcv.FIN_received = f.FIN_received
        /\ rcv.seqnum_next = f.seqnum_next /\ rcv.buf = f.buf /\ rcv.seqnum_unacked = f.seqnum_unacked
    BY <1>13, SoundIs DEF AnySocket
  <2>6. ack.flags = {"SYN", "ACK"} /\ ack.len = 0 /\ ack.seq = s.seqnum_next /\ ack.ack = x
    BY <1>9, <1>12, <2>5 DEF writeHeaderWithAck, Segment
  <2> HIDE DEF ack
  <2>7. Sound(u) /\ Sends(rcv, u, {ack})
    BY <2>3, <2>4, TransmitSends
  <2> HIDE DEF rcv
  <2>8. /\ u.state = "SYNRCVD" /\ u.waiting = s.waiting /\ u.receiving = s.receiving
        /\ u.FIN_received = s.FIN_received /\ u.buflen = s.buflen /\ u.buf = s.buf
        /\ u.seqnum_next = s.seqnum_next /\ u.seqnum_unacked = s.seqnum_unacked
        /\ u.read = s.read /\ u.receiveBuffer = t.receiveBuffer /\ u.packetbuffer = s.packetbuffer
    <3>1. /\ u.state = rcv.state /\ u.waiting = rcv.waiting /\ u.receiving = rcv.receiving
          /\ u.FIN_received = rcv.FIN_received /\ u.buflen = rcv.buflen /\ u.buf = rcv.buf
          /\ u.seqnum_next = rcv.seqnum_next /\ u.seqnum_unacked = rcv.seqnum_unacked
          /\ u.read = rcv.read /\ u.receiveBuffer = rcv.receiveBuffer /\ u.packetbuffer = rcv.packetbuffer
      BY <2>4, <2>7, SendsSame, ZenonT(30)
    <3> HIDE DEF u
    <3> QED BY <1>8, <1>12, <2>4, <2>5, <3>1
  <2>9. Segs(u) \subseteq Segs(s) \cup {ack}
    <3>1. Segs(rcv) = Segs(s)
      BY <1>8, <1>12, <2>5 DEF Segs
    <3> QED BY <2>7, <3>1 DEF Sends
  <2> HIDE DEF u
  <2>10. Sound(r)
    <3>1. \E j : Holds(u, j)
      BY <2>7 DEF Sound
    <3> QED BY <3>1, SetNext DEF Sound
  <2>11. /\ r.state = "SYNRCVD" /\ r.waiting = s.waiting /\ r.receiving = s.receiving
         /\ r.FIN_received = s.FIN_received /\ r.buflen = s.buflen /\ r.buf = s.buf
         /\ r.seqnum_next = SeqAdd(s.seqnum_next, 1) /\ r.seqnum_unacked = s.seqnum_unacked
         /\ r.read = s.read /\ r.receiveBuffer = t.receiveBuffer /\ r.packetbuffer = s.packetbuffer
         /\ Segs(r) = Segs(u)
    BY <2>7, <2>8, SoundIs DEF AnySocket, Segs
  <2> HIDE DEF r
  <2>12. Stage(e.c, r) = 1 /\ ~Unsynchronised(e.c, r) /\ Unsynchronised(e.c, s)
    BY <1>2, <2>11 DEF Stage, Unsynchronised
  <2>13. s.buf = 0 /\ e.w = 0 /\ Nxt(n, s) = 0 /\ Una(n, s) = 0 /\ e.k = 0
    <3>1. s.buf = 0 /\ e.w = 0 /\ Nxt(n, s) = 0 /\ Una(n, s) <= Nxt(n, s) /\ e.k <= e.w
      BY <1>1, <1>2, <1>3 DEF Sending
    <3>2. Una(n, s) \in Nat
      BY <1>1, SoundIs, PosIs DEF Una
    <3>3. e.k \in Nat
      BY <1>1 DEF ViewOK
    <3> QED BY <3>1, <3>2, <3>3
  <2>14. s.seqnum_next = At(n, 0) /\ Nxt(n, r) = 1 /\ Una(n, r) = 0
    <3>1. s.seqnum_next = At(n, 0)
      BY <1>1, <2>13, SoundIs, PosIs DEF Nxt
    <3>2. Nxt(n, s) + 1 < SEQMOD \div 2
      BY <1>1, <2>13, NodeFacts
    <3>3. s.seqnum_next \in SeqNum /\ 1 \in Nat
      BY <1>1, SoundIs
    <3>4. Nxt(n, r) = Nxt(n, s) + 1
      BY <2>11, <3>2, <3>3, PosAdd DEF Nxt
    <3> QED BY <2>11, <2>13, <3>1, <3>4 DEF Una
  <2>15. Sending(n, r, e)
    BY <2>11, <2>12, <2>13, <2>14 DEF Sending, Opened, Ending, FinSent
  <2>16. Tasks(n, r, e)
    BY <1>2, <2>11 DEF Tasks, Opened, Opening
  <2>17. Receiving(n, r, e) /\ Got(s) = 0 /\ Got(r) = 0 /\ 0 \in e.ends
    BY <1>5, <1>6, <1>8, <2>10, <2>11, <2>12, StreamStarts
  <2>18. Finishing(n, r, e) /\ Covered(n, r, e)
    BY <1>2, <2>11 DEF Finishing, Covered, AtEnd, Opened, Ending
  <2>19. Handshake(n, r, e)
    BY <1>2, <1>4, <2>12 DEF Handshake
  <2>20. Acks(r, e.ends, e.v, e.fin) = Acks(s, e.ends, e.v, e.fin) /\ 1 \in Acks(r, e.ends, e.v, e.fin)
    <3>1. Acks(r, e.ends, e.v, e.fin) = Acks(s, e.ends, e.v, e.fin)
      BY <2>11, <2>17 DEF Acks, AtEnd
    <3>2. 0 + 1 = 1 /\ 0 <= 0
      OBVIOUS
    <3>3. 0 + 1 \in {j + 1 : j \in {y \in e.ends : y <= Got(r)}}
      BY <2>17, <3>2
    <3> QED BY <3>1, <3>2, <3>3 DEF Acks
  <2>21. ~FinSent(n, e.c, r) /\ ~FinSent(n, e.c, s)
    BY <1>3, <2>12 DEF FinSent
  <2>22. Empty(n, r, e, ack)
    <3>1. Pos(Peer(n), ack.ack) = 1
      <4>1. 1 < SEQMOD
        BY Constants
      <4> QED BY <1>5, <2>6, <4>1, NodeFacts, PosAt
    <3> QED BY <1>2, <2>3, <2>6, <2>12, <2>14, <2>20, <3>1 DEF Empty, SegOK, has
  <2>23. Sent(n, r, e) /\ Uncut(n, r, e)
    <3>1. Segs(s) \subseteq AnySegment /\ e.flight \subseteq AnySegment
      BY <1>1, SegsType DEF ViewOK
    <3>2. \A h \in e.flight \cup Segs(s) :
            SegOK(n, h, Stage(e.c, r), e.w, FinSent(n, e.c, r), Acks(r, e.ends, e.v, e.fin))
      <4>1. \A h : SegOK(n, h, Stage(e.c, s), e.w, FinSent(n, e.c, s), Acks(s, e.ends, e.v, e.fin))
                => SegOK(n, h, Stage(e.c, r), e.w, FinSent(n, e.c, r), Acks(r, e.ends, e.v, e.fin))
        BY <1>3, <2>12, <2>20, <2>21, SegOKLater
      <4> QED BY <1>1, <4>1 DEF Sent
    <3>3. \A j \in e.cuts : j < Nxt(n, r)
      BY <1>1, <2>13, <2>14 DEF Uncut, ViewOK
    <3>4. Segs(r) \subseteq Segs(s) \cup {ack} /\ s.buf <= r.buf /\ s.buf \in Nat /\ r.buf \in Nat
      BY <2>9, <2>11, <2>13
    <3>5. \A h \in {ack} : Empty(n, r, e, h)
      BY <2>22
    <3> QED BY <1>1, <3>1, <3>2, <3>3, <3>4, <3>5, EmptySent
  <2>24. Grows(e, n, s, r)
    BY <1>3, <2>11, <2>12, <2>13, <2>20, <2>21 DEF Grows
  <2>25. Moves(n, e, s, r)
    BY <1>1, <2>10, <2>15, <2>16, <2>17, <2>18, <2>19, <2>23, <2>24 DEF Moves, Local
  <2> QED BY <2>1, <2>25
<1> QED BY <1>14, <1>15

\* An acknowledgement in the handshake acknowledges the SYN.
LEMMA OpeningACK ==
  ASSUME NEW n \in Node, NEW e, NEW s, Local(n, s, e), s.state \in {"SYNSENT", "SYNRCVD"},
         NEW g, Arrives(n, e, g)
  PROVE  /\ has(g, "ACK") => g.ack = s.seqnum_next
         /\ s.state = "SYNSENT" => has(g, "ACK") /\ has(g, "SYN") /\ e.stage >= 1 /\ n = Client
         /\ s.state = "SYNRCVD" => n = Server /\ (has(g, "ACK") => ~has(g, "SYN") /\ e.stage = 2)
<1>1. /\ Sending(n, s, e) /\ Tasks(n, s, e) /\ Sound(s)
      /\ Handshake(n, s, e) /\ ViewOK(n, e) /\ Uncut(n, s, e)
  BY DEF Local
<1>2. /\ e.c \in {"connect", "listen"} /\ (s.state = "SYNSENT" => n = Client)
      /\ (s.state = "SYNRCVD" => n = Server) /\ Client # Server
  BY <1>1, ConnectionAssumption DEF Tasks
<1>3. Stage(e.c, s) = 1 /\ Nxt(n, s) = 1
  BY <1>1, <1>2 DEF Stage, Sending
<1>4. ASSUME has(g, "ACK") PROVE g.ack = s.seqnum_next
  <2>1. Pos(n, g.ack) \in e.acks /\ g.ack \in SeqNum /\ s.seqnum_next \in SeqNum
    BY <1>1, <1>4, ArrivesIs, SoundIs DEF AnySegment
  <2>2. Pos(n, g.ack) \in Nat /\ Pos(n, g.ack) - 1 \in Nat /\ Pos(n, g.ack) - 1 < 1
    BY <1>1, <1>3, <2>1 DEF ViewOK, Uncut
  <2>3. Pos(n, g.ack) = Nxt(n, s)
    BY <1>3, <2>2
  <2> QED BY <2>1, <2>3, PosIs DEF Nxt
<1>5. CASE s.state = "SYNSENT"
  <2>1. has(g, "SYN")
    BY <1>1, <1>2, <1>3, <1>5, ArrivesIs DEF Handshake
  <2>2. e.stage >= 1
    BY <1>1, <2>1 DEF Arrives, SegOK, has, ViewOK
  <2> QED BY <1>2, <1>4, <1>5, <2>1, <2>2, ArrivesIs
<1>6. CASE s.state = "SYNRCVD"
  BY <1>2, <1>4, <1>6, ArrivesIs
<1> QED BY <1>5, <1>6

LEMMA SynrcvdMoves ==
  ASSUME NEW n \in Node, NEW e, NEW s, Local(n, s, e), s.state = "SYNRCVD",
         NEW env, NEW g, Arrives(n, e, g)
  PROVE  Moves(n, e, s, synrcvd(s, env, g))
<1> DEFINE h == handleACK(s, g.ack)
           i == initSendWindow(h, g)
           c == clearHistory([i EXCEPT !.state = "ESTABLISHED", !.waiting = FALSE])
<1>1. ~has(g, "RST") /\ g \in AnySegment /\ g.ack \in SeqNum /\ e.c # "new"
  BY ArrivesIs, StatesOf DEF AnySegment
<1>2. CASE ~has(g, "ACK")
  <2>1. synrcvd(s, env, g) = freeReceivedSegment(s)
    BY <1>1, <1>2 DEF synrcvd
  <2> QED BY <2>1, FreeMoves
<1>3. CASE has(g, "ACK")
  <2>1. g.ack = s.seqnum_next /\ e.stage = 2 /\ e.stage >= 1
    BY <1>3, OpeningACK
  <2>2. synrcvd(s, env, g) = freeReceivedSegment(c)
    BY <1>1, <1>3, <2>1 DEF synrcvd
  <2>3. /\ Moves(n, e, s, h) /\ h.seqnum_unacked = h.seqnum_next /\ h.state = "SYNRCVD"
    BY <1>1, <1>3, <2>1, HandleACKMoves, ArrivesIs DEF SameStream
  <2> HIDE DEF h
  <2>4. Moves(n, e, h, i) /\ Alike(h, i)
    BY <1>1, <2>3, SendWindowMoves DEF Moves
  <2> HIDE DEF i
  <2>5. /\ Local(n, i, e) /\ i.state = "SYNRCVD" /\ i.seqnum_unacked = i.seqnum_next
        /\ Moves(n, e, s, i) /\ Sound(i) /\ i \in AnySocket
    BY <2>3, <2>4, MovesTrans, SoundIs DEF Moves, Alike, SameNumbers, Local
  <2>6. Sound(c)
    <3> DEFINE x == [i EXCEPT !.state = "ESTABLISHED"]
               y == [x EXCEPT !.waiting = FALSE]
    <3>1. PICK k : Holds(i, k)
      BY <2>5 DEF Sound
    <3>2. Holds(x, k)
      BY <3>1, SetState DEF States
    <3> HIDE DEF x
    <3>3. Holds(y, k)
      BY <3>2, SetWaiting
    <3>4. y = [i EXCEPT !.state = "ESTABLISHED", !.waiting = FALSE]
      BY <2>5 DEF x, AnySocket
    <3> HIDE DEF y
    <3> QED BY <3>3, <3>4, ClearHistoryHolds DEF Sound
  <2>7. /\ c.state = "ESTABLISHED" /\ ~c.waiting /\ c.buf = i.buf
        /\ c.seqnum_unacked = i.seqnum_unacked /\ c.seqnum_next = i.seqnum_next
        /\ c.buflen = i.buflen /\ c.receiving = i.receiving /\ c.FIN_received = i.FIN_received
        /\ c.packetbuffer = i.packetbuffer /\ c.read = i.read /\ c.receiveBuffer = i.receiveBuffer
        /\ c.history = <<>> /\ c.out = i.out
    BY <2>5 DEF clearHistory, AnySocket
  <2> HIDE DEF c
  <2>8. Segs(c) \subseteq Segs(i) /\ Got(c) = Got(i)
    BY <2>7 DEF Segs, Got
  <2>9. Receiving(n, c, e)
    <3>1. Receiving(n, i, e) /\ ~Unsynchronised(e.c, i) /\ ~Unsynchronised(e.c, c)
      BY <1>1, <2>5, <2>7 DEF Local, Unsynchronised
    <3> QED BY <2>7, <2>8, <3>1 DEF Receiving
  <2>10. Moves(n, e, i, c)
    BY <2>1, <2>5, <2>6, <2>7, <2>8, <2>9, EstablishMoves
  <2>11. Moves(n, e, s, c) /\ Local(n, c, e)
    BY <2>5, <2>10, MovesTrans DEF Moves
  <2>12. Moves(n, e, c, freeReceivedSegment(c))
    BY <2>11, FreeMoves
  <2> QED BY <2>2, <2>11, <2>12, MovesTrans
<1> QED BY <1>2, <1>3

\* connect() waits on, or does not.
LEMMA ConnectMoves ==
  ASSUME NEW n \in Node, NEW e, NEW s, Local(n, s, e), s.state = "ESTABLISHED", e.c = "connect",
         NEW w \in BOOLEAN
  PROVE  Moves(n, e, s, [s EXCEPT !.waiting = w])
<1> DEFINE r == [s EXCEPT !.waiting = w]
<1>1. s \in AnySocket /\ \E k : Holds(s, k)
  BY SoundIs DEF Local, Sound
<1>2. Sound(r)
  BY <1>1, SetWaiting DEF Sound
<1>3. /\ SameNumbers(s, r) /\ SameStream(s, r) /\ r.history = s.history /\ r.out = s.out
      /\ r.packetbuffer = s.packetbuffer /\ r.state = s.state /\ r.buf = s.buf
      /\ r.FIN_received = s.FIN_received /\ r.FIN_seqnum = s.FIN_seqnum
      /\ r.buflen = s.buflen /\ r.receiving = s.receiving
  BY <1>1 DEF SameNumbers, SameStream, AnySocket
<1> HIDE DEF r
<1>4. Tasks(n, r, e)
  <2>1. Tasks(n, s, e)
    BY DEF Local
  <2> QED BY <1>3, <2>1 DEF Tasks, Opened, Opening
<1>5. Moves(n, e, s, r)
  BY <1>2, <1>3, <1>4, CallMoves
<1> QED BY <1>5 DEF r

LEMMA SynsentMoves ==
  ASSUME NEW n \in Node, NEW e, NEW s, Local(n, s, e), s.state = "SYNSENT",
         NEW env, NEW g, Arrives(n, e, g)
  PROVE  Moves(n, e, s, synsent(s, env, g))
<1> DEFINE f == freeReceivedSegment(s)
           h == handleACK(f, g.ack)
           i == initSendWindow(h, g)
           x == SeqAdd(g.seq, 1)
           c == clearHistory([i EXCEPT !.state = "ESTABLISHED",
                                       !.receiveBuffer = setFirstSeqNum(i.receiveBuffer, x)])
           p == sendACK(c, env)
           r == [p EXCEPT !.waiting = p.waiting /\ ~requestSendBufferTCP(c, env)]
<1>1. /\ ~has(g, "RST") /\ g \in AnySegment /\ g.ack \in SeqNum /\ e.c # "new"
      /\ has(g, "ACK") /\ has(g, "SYN") /\ g.ack = s.seqnum_next /\ e.stage >= 1 /\ n = Client
      /\ g.seq = At(Peer(n), 0) /\ x \in SeqNum
  BY ArrivesIs, StatesOf, OpeningACK, SegmentIs DEF AnySegment
<1>2. x = At(Peer(n), 1)
  BY <1>1, NodeFacts, BehindSYN
<1>3. /\ Moves(n, e, s, f) /\ Alike(s, f) /\ Local(n, f, e) /\ f.seqnum_next = s.seqnum_next
      /\ f.state = "SYNSENT"
  BY FreeMoves DEF Moves, Alike, SameNumbers
<1>4. synsent(s, env, g) = IF h.seqnum_unacked = h.seqnum_next THEN r ELSE SynsentReset(h, env, g)
  BY <1>1 DEF synsent, SynsentEstablish
<1> HIDE DEF f, x
<1>5. /\ Moves(n, e, f, h) /\ h.seqnum_unacked = h.seqnum_next /\ h.state = "SYNSENT"
  BY <1>1, <1>3, HandleACKMoves, ArrivesIs DEF SameStream
<1> HIDE DEF h
<1>6. Moves(n, e, h, i) /\ Alike(h, i)
  BY <1>1, <1>5, SendWindowMoves DEF Moves
<1> HIDE DEF i
<1>7. /\ Local(n, i, e) /\ i.state = "SYNSENT" /\ i.seqnum_unacked = i.seqnum_next
      /\ Moves(n, e, s, i) /\ Sound(i) /\ i \in AnySocket
  <2>1. Moves(n, e, s, h)
    BY <1>3, <1>5, MovesTrans
  <2> QED BY <1>5, <1>6, <2>1, MovesTrans, SoundIs DEF Moves, Alike, SameNumbers, Local
<1>8. e.c = "connect"
  BY <1>7 DEF Local, Tasks
<1>9. Sound(c)
  <2> DEFINE y == [i EXCEPT !.state = "ESTABLISHED"]
             z == [y EXCEPT !.receiveBuffer = setFirstSeqNum(y.receiveBuffer, x)]
  <2>1. PICK k : Holds(i, k)
    BY <1>7 DEF Sound
  <2>2. Holds(y, k)
    BY <2>1, SetState DEF States
  <2>3. z = [i EXCEPT !.state = "ESTABLISHED", !.receiveBuffer = setFirstSeqNum(i.receiveBuffer, x)]
    BY <1>7 DEF AnySocket
  <2> HIDE DEF y
  <2>4. Holds(z, k)
    BY <1>1, <2>2, SetFirst
  <2> HIDE DEF z
  <2> QED BY <2>3, <2>4, ClearHistoryHolds DEF Sound
<1>10. /\ c.state = "ESTABLISHED" /\ c.waiting = i.waiting /\ c.buf = i.buf
       /\ c.seqnum_unacked = i.seqnum_unacked /\ c.seqnum_next = i.seqnum_next
       /\ c.buflen = i.buflen /\ c.receiving = i.receiving /\ c.FIN_received = i.FIN_received
       /\ c.packetbuffer = i.packetbuffer /\ c.read = i.read
       /\ c.receiveBuffer = setFirstSeqNum(i.receiveBuffer, x)
       /\ c.history = <<>> /\ c.out = i.out
  BY <1>7 DEF clearHistory, AnySocket
<1> HIDE DEF c
<1>11. Receiving(n, c, e) /\ Got(c) = Got(i)
  <2>1. Unsynchronised(e.c, i) /\ ~Unsynchronised(e.c, c)
    BY <1>7, <1>8, <1>10 DEF Unsynchronised
  <2> QED BY <1>1, <1>2, <1>7, <1>9, <1>10, <2>1, StreamStarts
<1>12. Segs(c) \subseteq Segs(i)
  BY <1>10 DEF Segs
<1>13. Moves(n, e, i, c)
  <2>1. n # Server
    BY <1>1, ConnectionAssumption
  <2> QED BY <1>1, <1>7, <1>8, <1>9, <1>10, <1>11, <1>12, <2>1, EstablishMoves
<1>14. Moves(n, e, s, c) /\ Local(n, c, e) /\ Stage(e.c, c) = 2
  BY <1>7, <1>8, <1>10, <1>13, MovesTrans DEF Moves, Stage
<1>15. Moves(n, e, c, p) /\ p.state = "ESTABLISHED"
  BY <1>10, <1>14, SendACKMoves DEF SameNumbers
<1> HIDE DEF p
<1>16. Moves(n, e, s, p) /\ Local(n, p, e) /\ p.waiting \in BOOLEAN
  BY <1>14, <1>15, MovesTrans, SoundIs DEF Moves, Local
<1>17. Moves(n, e, p, r)
  <2>1. (p.waiting /\ ~requestSendBufferTCP(c, env)) \in BOOLEAN
    OBVIOUS
  <2> QED BY <1>8, <1>15, <1>16, <2>1, ConnectMoves
<1> HIDE DEF r
<1>18. Moves(n, e, s, r)
  BY <1>16, <1>17, MovesTrans
<1> QED BY <1>4, <1>5, <1>18

LEMMA InputMoves ==
  ASSUME NEW n \in Node, NEW e, NEW s, Local(n, s, e), NEW env, NEW g, Arrives(n, e, g),
         e.c = "poll" \/ s.waiting
  PROVE  Moves(n, e, s, input(s, env, g))
<1>1. s.state \in States /\ Tasks(n, s, e)
  BY SoundIs DEF Local
<1>2. CASE s.state = "CLOSED"
  <2> DEFINE f == freeReceivedSegment(s)
             r == [f EXCEPT !.waiting = FALSE]
  <2>1. Moves(n, e, s, f) /\ f.state = "CLOSED"
    BY <1>2, FreeMoves DEF Alike, SameNumbers
  <2>2. input(s, env, g) = r
    BY <1>2 DEF input, closed
  <2> HIDE DEF f
  <2>3. Moves(n, e, f, r)
    BY <2>1, ClosedMoves DEF Moves
  <2> HIDE DEF r
  <2> QED BY <2>1, <2>2, <2>3, MovesTrans
<1>3. CASE s.state = "LISTEN"
  <2>1. input(s, env, g) = listen(s, env, g)
    BY <1>3 DEF input
  <2> QED BY <1>3, <2>1, ListenMoves
<1>4. CASE s.state = "SYNSENT"
  <2>1. input(s, env, g) = synsent(s, env, g)
    BY <1>4 DEF input
  <2> QED BY <1>4, <2>1, SynsentMoves
<1>5. CASE s.state = "SYNRCVD"
  <2>1. input(s, env, g) = synrcvd(s, env, g)
    BY <1>5 DEF input
  <2> QED BY <1>5, <2>1, SynrcvdMoves
<1>6. CASE s.state = "ESTABLISHED"
  <2>1. input(s, env, g) = established(s, env, g)
    BY <1>6 DEF input
  <2>2. e.c # "listen"
    BY <1>1, <1>6 DEF Tasks, Opened
  <2> QED BY <1>6, <2>1, <2>2, EstablishedMoves
<1>7. CASE s.state \in {"FINWAIT1", "FINWAIT2"}
  <2>1. input(s, env, g) = IF s.state = "FINWAIT1" THEN finwait1(s, env, g) ELSE finwait2(s, env, g)
    BY <1>7 DEF input
  <2> QED BY <1>7, <2>1, FinwaitMoves
<1>8. CASE s.state \in AtEnd
  <2>1. input(s, env, g) \in {closewait(s, env, g), lastack(s, env, g), closing(s, env, g), timewait(s, env, g)}
    BY <1>8 DEF input, AtEnd
  <2> QED BY <1>8, <2>1, FinalMoves
<1> QED BY <1>1, <1>2, <1>3, <1>4, <1>5, <1>6, <1>7, <1>8 DEF States, AtEnd

-----------------------------------------------------------------------------
(* input() with an empty packetbuffer.                                      *)

\* Either the connection goes on after updateHistory(), or it was killed.
LEMMA UpdateIs ==
  ASSUME NEW n \in Node, NEW e, NEW s, Local(n, s, e), s.state \notin Opening \cup {"CLOSED"},
         Quiet(e.c), NEW env
  PROVE  LET u == updateHistory(s, TRUE, env)
         IN  /\ Moves(n, e, s, u) /\ Local(n, u, e) /\ Stage(e.c, u) = 2
             /\ \/ u.state = s.state /\ u.waiting = s.waiting /\ u.receiving = s.receiving
                \/ RetransmissionCounter /\ Resets(s, u) /\ u.state = "CLOSED" /\ ~u.waiting
                     /\ ~u.receiving /\ ~u.ACK_triggered /\ u.history = <<>>
<1> DEFINE u == updateHistory(s, TRUE, env)
<1>1. /\ Moves(n, e, s, u) /\ Sound(s)
      /\ Sends(s, u, {}) \/ (RetransmissionCounter /\ Resets(s, u))
  BY UpdateHistoryMoves
<1> HIDE DEF u
<1>2. Local(n, u, e) /\ s \in AnySocket /\ e.c # "new"
  BY <1>1, SoundIs DEF Moves, Quiet
<1>3. CASE Sends(s, u, {})
  <2>1. u.state = s.state /\ u.waiting = s.waiting /\ u.receiving = s.receiving
    BY <1>1, <1>3, SendsSame
  <2>2. Stage(e.c, u) = 2
    BY <1>2, <2>1 DEF Stage, Opening
  <2> QED BY <1>1, <1>2, <2>1, <2>2 DEF u
<1>4. CASE RetransmissionCounter /\ Resets(s, u)
  <2>1. u.state = "CLOSED" /\ ~u.waiting /\ ~u.receiving /\ u.history = <<>>
    BY <1>2, <1>4, ResetsIs
  <2>2. ~u.ACK_triggered
    BY <1>2, <1>4 DEF Resets, AnySocket
  <2>3. Stage(e.c, u) = 2
    BY <1>2, <2>1 DEF Stage
  <2> QED BY <1>1, <1>2, <1>4, <2>1, <2>2, <2>3 DEF u
<1> QED BY <1>1, <1>3, <1>4

LEMMA EstablishedReceiveMoves ==
  ASSUME NEW n \in Node, NEW e, NEW s, Local(n, s, e), s.state = "ESTABLISHED", e.c = "receive", NEW env
  PROVE  Moves(n, e, s, EstablishedReceive(s, env))
<1> DEFINE bytes == s.receiveBuffer.recv_bytes
           len == Min({bytes, s.buflen})
           q == ReadBytes(s, len)
           p == processACK(q, env)
           r == [p EXCEPT !.receiving = FALSE, !.waiting = FALSE]
<1>1. EstablishedReceive(s, env) \in {processACK(s, env), p, r}
  BY DEF EstablishedReceive, getRecvBytes
<1>2. Stage(e.c, s) = 2 /\ Sound(s)
  BY DEF Stage, Local
<1>3. Moves(n, e, s, processACK(s, env))
  BY <1>2, ProcessACKMoves
<1>4. len \in Nat /\ len <= s.receiveBuffer.recv_bytes /\ len <= s.buflen
  BY <1>2, SoundIs, MinPairIs
<1> HIDE DEF len
<1>5. Moves(n, e, s, q) /\ q.state = s.state
  BY <1>4, ReadBytesMoves DEF Opened
<1> HIDE DEF q
<1>6. Moves(n, e, q, p) /\ p.state = "ESTABLISHED"
  <2>1. Local(n, q, e) /\ Stage(e.c, q) = 2 /\ q.state # "CLOSED"
    BY <1>5 DEF Moves, Stage
  <2> QED BY <1>5, <2>1, ProcessACKMoves DEF SameNumbers
<1> HIDE DEF p
<1>7. Moves(n, e, s, p) /\ Local(n, p, e)
  BY <1>5, <1>6, MovesTrans DEF Moves
<1>8. Moves(n, e, p, r)
  BY <1>6, <1>7, ReceiveReturnMoves DEF Opened
<1> HIDE DEF r
<1>9. Moves(n, e, s, r)
  BY <1>7, <1>8, MovesTrans
<1> QED BY <1>1, <1>3, <1>7, <1>9

\* What a write() does with an empty packetbuffer.
LEMMA SendingMoves ==
  ASSUME NEW n \in Node, NEW e, NEW s, Local(n, s, e), s.state \in Opened, s.waiting,
         e.c \in {"write", "connect"}, NEW env
  PROVE  Moves(n, e, s, FinishSending(processSendData(s, env)))
<1> DEFINE p == processSendData(s, env)
           f == FinishSending(p)
<1>1. Moves(n, e, s, p) /\ p.state = s.state
  BY ProcessSendDataMoves
<1> HIDE DEF p
<1>2. Moves(n, e, p, f)
  BY <1>1, FinishSendingMoves DEF Moves
<1> HIDE DEF f
<1>3. Moves(n, e, s, f)
  BY <1>1, <1>2, MovesTrans
<1> QED BY <1>3 DEF f, p

\* The call in which an open socket waits.
LEMMA OpenedCall ==
  ASSUME NEW n \in Node, NEW e, NEW s, Local(n, s, e), s.state \in Opened, s.waiting, e.c \in Blocking
  PROVE  /\ s.receiving => e.c = "receive"
         /\ ~s.receiving => e.c \in {"write", "connect"}
BY DEF Local, Tasks, Blocking

LEMMA EstablishedIdleMoves ==
  ASSUME NEW n \in Node, NEW e, NEW s, Local(n, s, e), s.state = "ESTABLISHED", s.waiting,
         e.c \in Blocking, NEW env
  PROVE  Moves(n, e, s, establishedIdle(s, env))
<1> DEFINE u == updateHistory(s, TRUE, env)
           q == processACK(u, env)
           w == FinishSending(processSendData(q, env))
<1>1. s.state \in Opened /\ (s.receiving => e.c = "receive")
      /\ (~s.receiving => e.c \in {"write", "connect"})
  BY OpenedCall DEF Opened
<1>2. Quiet(e.c) /\ s.state \notin Opening \cup {"CLOSED"}
  BY <1>1 DEF Quiet, Opening
<1>3. /\ Moves(n, e, s, u) /\ Local(n, u, e) /\ Stage(e.c, u) = 2
      /\ \/ u.state = s.state /\ u.waiting = s.waiting /\ u.receiving = s.receiving
         \/ u.state = "CLOSED" /\ ~u.waiting /\ ~u.receiving
  BY <1>2, UpdateIs
<1>4. establishedIdle(s, env) = IF u.receiving THEN EstablishedReceive(u, env)
                                ELSE IF u.waiting THEN w ELSE u
  <2>1. CASE u.receiving
    BY <2>1 DEF establishedIdle
  <2>2. CASE ~u.receiving /\ u.waiting
    BY <2>2 DEF establishedIdle
  <2>3. CASE ~u.receiving /\ ~u.waiting
    BY <2>3 DEF establishedIdle
  <2> QED BY <2>1, <2>2, <2>3
<1> HIDE DEF u
<1>5. CASE u.receiving
  <2>1. Moves(n, e, u, EstablishedReceive(u, env))
    BY <1>1, <1>3, <1>5, EstablishedReceiveMoves
  <2>2. Moves(n, e, s, EstablishedReceive(u, env))
    BY <1>3, <2>1, MovesTrans
  <2> QED BY <1>4, <1>5, <2>2
<1>6. CASE ~u.receiving /\ u.waiting
  <2>1. u.state = "ESTABLISHED" /\ e.c \in {"write", "connect"}
    BY <1>1, <1>3, <1>6
  <2>2. Moves(n, e, u, q) /\ q.state = "ESTABLISHED" /\ q.waiting
    BY <1>3, <1>6, <2>1, ProcessACKMoves DEF SameNumbers, SameRest
  <2> HIDE DEF q
  <2>3. Moves(n, e, s, q) /\ Local(n, q, e)
    BY <1>3, <2>2, MovesTrans DEF Moves
  <2>4. Moves(n, e, q, w)
    BY <2>1, <2>2, <2>3, SendingMoves DEF Opened
  <2> HIDE DEF w
  <2>5. Moves(n, e, s, w)
    BY <2>3, <2>4, MovesTrans
  <2> QED BY <1>4, <1>6, <2>5
<1>7. CASE ~u.receiving /\ ~u.waiting
  BY <1>3, <1>4, <1>7
<1> QED BY <1>5, <1>6, <1>7

\* receive() behind the peer's FIN returns with what is left.
LEMMA LastReadMoves ==
  ASSUME NEW n \in Node, NEW e, NEW s, Local(n, s, e), s.state = "CLOSEWAIT", e.c = "receive"
  PROVE  LET len == Min({s.buflen, s.receiveBuffer.recv_bytes})
         IN  Moves(n, e, s, [ReadBytes([s EXCEPT !.buflen = len], len) EXCEPT
                               !.buflen = len, !.receiving = FALSE, !.waiting = FALSE])
<1> DEFINE len == Min({s.buflen, s.receiveBuffer.recv_bytes})
           v == [s EXCEPT !.buflen = len]
           b == ReadBytes(v, len)
           r == [b EXCEPT !.buflen = len, !.receiving = FALSE, !.waiting = FALSE]
<1>1. s \in AnySocket /\ s.buflen \in Nat /\ s.receiveBuffer.recv_bytes \in Nat /\ Sound(s)
  BY SoundIs DEF Local
<1>2. len \in Nat /\ len <= s.receiveBuffer.recv_bytes
  BY <1>1, MinPairIs
<1> HIDE DEF len
<1>3. PICK k : Holds(s, k)
  BY <1>1 DEF Sound
<1>4. Holds(v, k) /\ v \in AnySocket
  BY <1>1, <1>2, <1>3, SameHolds DEF AnySocket
<1>5. /\ SameNumbers(s, v) /\ SameStream(s, v) /\ v.history = s.history /\ v.out = s.out
      /\ v.packetbuffer = s.packetbuffer /\ v.FIN_received = s.FIN_received
      /\ v.FIN_seqnum = s.FIN_seqnum /\ v.buflen = len
  BY <1>1 DEF AnySocket, SameNumbers, SameStream
<1> HIDE DEF v
<1>6. Holds(b, k)
  BY <1>2, <1>4, <1>5, ReadBytesHolds DEF SameStream
<1>7. /\ b.read = v.read \o copiedBytes(v.receiveBuffer, len)
      /\ b.receiveBuffer = copyData(v.receiveBuffer, len)
      /\ SameNumbers(v, b) /\ b.history = v.history /\ b.out = v.out
      /\ b.packetbuffer = v.packetbuffer /\ b.FIN_received = v.FIN_received
      /\ b.FIN_seqnum = v.FIN_seqnum
  BY <1>4 DEF ReadBytes, AnySocket, SameNumbers
<1> HIDE DEF b
<1>8. b \in AnySocket
  BY <1>6, HoldsIs
<1>9. /\ Holds(r, k) /\ r.read = b.read /\ r.receiveBuffer = b.receiveBuffer
      /\ SameNumbers(b, r) /\ r.history = b.history /\ r.out = b.out
      /\ r.packetbuffer = b.packetbuffer /\ r.FIN_received = b.FIN_received
      /\ r.FIN_seqnum = b.FIN_seqnum /\ ~r.receiving /\ ~r.waiting
  BY <1>2, <1>6, <1>8, SameHolds DEF AnySocket, SameNumbers
<1> HIDE DEF r
<1>10. /\ Sound(r) /\ SameNumbers(s, r) /\ r.read = s.read \o copiedBytes(s.receiveBuffer, len)
       /\ r.receiveBuffer = copyData(s.receiveBuffer, len) /\ r.history = s.history /\ r.out = s.out
       /\ r.packetbuffer = s.packetbuffer /\ r.FIN_received = s.FIN_received
       /\ r.FIN_seqnum = s.FIN_seqnum
  BY <1>5, <1>7, <1>9 DEF Sound, SameNumbers, SameStream
<1>11. Tasks(n, r, e)
  <2>1. s.buf = e.w
    BY DEF Local, Tasks, Opened
  <2> QED BY <1>9, <1>10, <2>1 DEF Tasks, SameNumbers, Opening, Opened
<1>12. ~Unsynchronised(e.c, s)
  BY DEF Unsynchronised
<1>13. Moves(n, e, s, r)
  BY <1>2, <1>10, <1>11, <1>12, ReadMoves
<1> QED BY <1>13 DEF r, b, v, len

LEMMA ClosewaitIdleMoves ==
  ASSUME NEW n \in Node, NEW e, NEW s, Local(n, s, e), s.state = "CLOSEWAIT", s.waiting,
         e.c \in Blocking, NEW env
  PROVE  Moves(n, e, s, closewaitIdle(s, env))
<1> DEFINE u == updateHistory(s, TRUE, env)
           len == Min({u.buflen, u.receiveBuffer.recv_bytes})
           v == [ReadBytes([u EXCEPT !.buflen = len], len) EXCEPT
                   !.buflen = len, !.receiving = FALSE, !.waiting = FALSE]
           w == FinishSending(processSendData(u, env))
<1>1. s.state \in Opened /\ (s.receiving => e.c = "receive")
      /\ (~s.receiving => e.c \in {"write", "connect"})
  BY OpenedCall DEF Opened
<1>2. Quiet(e.c) /\ s.state \notin Opening \cup {"CLOSED"}
  BY <1>1 DEF Quiet, Opening
<1>3. /\ Moves(n, e, s, u) /\ Local(n, u, e)
      /\ \/ u.state = s.state /\ u.waiting = s.waiting /\ u.receiving = s.receiving
         \/ u.state = "CLOSED" /\ ~u.waiting /\ ~u.receiving
  BY <1>2, UpdateIs
<1>4. closewaitIdle(s, env) = IF u.receiving THEN v ELSE IF u.waiting THEN w ELSE u
  BY DEF closewaitIdle, getRecvBytes
<1> HIDE DEF u
<1>5. u.receiving => Moves(n, e, u, v)
  BY <1>1, <1>3, LastReadMoves
<1>6. ~u.receiving /\ u.waiting => Moves(n, e, u, w)
  BY <1>1, <1>3, SendingMoves
<1> HIDE DEF v, w
<1>7. (u.receiving => Moves(n, e, s, v)) /\ (~u.receiving /\ u.waiting => Moves(n, e, s, w))
  BY <1>3, <1>5, <1>6, MovesTrans
<1> QED BY <1>3, <1>4, <1>7

\* An empty history is taken for the acknowledgement of the FIN; after the
\* retransmission counter has killed the connection it means nothing.
LEMMA EndsMoves ==
  ASSUME NEW n \in Node, NEW e, NEW s, Local(n, s, e), NEW r, Sound(r),
         \/ s.state = "FINWAIT1" /\ r.state = "FINWAIT2"
         \/ s.state = "CLOSING" /\ r.state = "TIMEWAIT",
         RetransmissionCounter \/ s.seqnum_unacked = s.seqnum_next,
         r.buf = s.buf, r.seqnum_unacked = s.seqnum_unacked, r.seqnum_next = s.seqnum_next,
         r.read = s.read, r.receiveBuffer = s.receiveBuffer, r.FIN_seqnum = s.FIN_seqnum,
         r.FIN_received => s.FIN_received, Segs(r) \subseteq Segs(s),
         r.packetbuffer \in {s.packetbuffer, <<>>}
  PROVE  Moves(n, e, s, r)
<1>1. /\ Sending(n, s, e) /\ Receiving(n, s, e) /\ Finishing(n, s, e) /\ Sound(s)
      /\ Handshake(n, s, e) /\ ViewOK(n, e) /\ Sent(n, s, e) /\ Uncut(n, s, e)
  BY DEF Local
<1>2. e.c \notin {"new", "poll", "listen"}
  BY StatesOf DEF Ending, Quiet
<1>3. Stage(e.c, s) = 2 /\ Stage(e.c, r) = 2 /\ ~Unsynchronised(e.c, s) /\ ~Unsynchronised(e.c, r)
  BY <1>2 DEF Stage, Unsynchronised
<1>4. Una(n, r) = Una(n, s) /\ Nxt(n, r) = Nxt(n, s) /\ FinSent(n, e.c, r) = FinSent(n, e.c, s)
      /\ Got(r) = Got(s)
  BY <1>3 DEF Una, Nxt, FinSent, Got
<1>5. Sending(n, r, e)
  <2>1. r.state \in Ending /\ s.state \in Ending /\ r.state \notin Opened /\ r.state # "LISTEN"
    BY DEF Ending, Opened
  <2> QED BY <1>1, <1>3, <1>4, <2>1 DEF Sending
<1>6. Tasks(n, r, e)
  BY <1>2 DEF Tasks, Opening, Opened
<1>7. Receiving(n, r, e)
  BY <1>1, <1>3, <1>4 DEF Receiving
<1>8. Finishing(n, r, e)
  BY <1>1, <1>2, <1>4 DEF Finishing, AtEnd, Opening
<1>9. Covered(n, r, e)
  <2>1. r.state \notin Opened
    BY DEF Opened
  <2>2. ASSUME ~RetransmissionCounter PROVE Una(n, r) = Nxt(n, r) /\ \A k \in 0 .. r.buf - 1 : k + 1 < Una(n, r)
    <3>1. Una(n, s) = Nxt(n, s) /\ s.buf \in Nat /\ Nxt(n, s) = s.buf + 2
      BY <1>1, <2>2, SoundIs DEF Una, Nxt, Sending, Ending
    <3> QED BY <1>4, <3>1
  <2> QED BY <2>1, <2>2 DEF Covered
<1>10. Acks(s, e.ends, e.v, e.fin) = Acks(r, e.ends, e.v, e.fin)
  BY <1>4 DEF Acks, AtEnd
<1>11. Sent(n, r, e)
  BY <1>1, <1>3, <1>4, <1>10 DEF Sent
<1>12. Uncut(n, r, e)
  BY <1>1, <1>4 DEF Uncut
<1>13. Handshake(n, r, e)
  BY <1>1, <1>3, SameHandshake
<1>14. Grows(e, n, s, r)
  <2>1. s.buf <= r.buf /\ Stage(e.c, s) <= Stage(e.c, r)
    BY <1>1, <1>3, SoundIs
  <2> QED BY <1>4, <1>10, <2>1 DEF Grows
<1> QED BY <1>1, <1>5, <1>6, <1>7, <1>8, <1>9, <1>11, <1>12, <1>13, <1>14 DEF Moves, Local

\* The next state after an update of the history that left it empty.
LEMMA EmptyHistoryMoves ==
  ASSUME NEW n \in Node, NEW e, NEW s, Local(n, s, e), s.history = <<>>, NEW st \in States,
         \/ s.state = "FINWAIT1" /\ st = "FINWAIT2"
         \/ s.state = "CLOSING" /\ st = "TIMEWAIT"
  PROVE  Moves(n, e, s, [s EXCEPT !.state = st])
<1> DEFINE r == [s EXCEPT !.state = st]
<1>1. s \in AnySocket /\ \E k : Holds(s, k)
  BY SoundIs DEF Local, Sound
<1>2. Sound(r)
  BY <1>1, SetState DEF Sound
<1>3. /\ r.state = st /\ r.buf = s.buf /\ r.seqnum_unacked = s.seqnum_unacked
      /\ r.seqnum_next = s.seqnum_next
      /\ r.read = s.read /\ r.receiveBuffer = s.receiveBuffer /\ r.FIN_seqnum = s.FIN_seqnum
      /\ r.FIN_received = s.FIN_received /\ r.packetbuffer = s.packetbuffer
      /\ r.history = s.history /\ r.out = s.out
  BY <1>1 DEF AnySocket
<1> HIDE DEF r
<1>4. Segs(r) = Segs(s)
  BY <1>3 DEF Segs
<1>5. RetransmissionCounter \/ s.seqnum_unacked = s.seqnum_next
  <2>1. s.state \in Ending /\ e.c # "new"
    BY StatesOf DEF Ending
  <2>2. RetransmissionCounter \/ Una(n, s) = Nxt(n, s)
    BY <2>1, NothingUnacked
  <2> QED BY <2>2, AllAcked
<1>6. Moves(n, e, s, r)
  BY <1>2, <1>3, <1>4, <1>5, EndsMoves
<1> QED BY <1>6 DEF r

\* The same of a connection that was killed: it looks as if it were closing.
LEMMA RevivedMoves ==
  ASSUME NEW n \in Node, NEW e, NEW s, Local(n, s, e), NEW u, Sound(u), Resets(s, u),
         RetransmissionCounter, NEW st \in States,
         \/ s.state = "FINWAIT1" /\ st = "FINWAIT2"
         \/ s.state = "CLOSING" /\ st = "TIMEWAIT"
  PROVE  Moves(n, e, s, [u EXCEPT !.state = st])
<1> DEFINE r == [u EXCEPT !.state = st]
<1>1. u \in AnySocket /\ (\E k : Holds(u, k)) /\ s \in AnySocket
  BY SoundIs DEF Local, Sound
<1>2. Sound(r)
  BY <1>1, SetState DEF Sound
<1>3. /\ r.state = st /\ r.buf = u.buf /\ r.seqnum_unacked = u.seqnum_unacked
      /\ r.seqnum_next = u.seqnum_next
      /\ r.read = u.read /\ r.receiveBuffer = u.receiveBuffer /\ r.FIN_seqnum = u.FIN_seqnum
      /\ r.FIN_received = u.FIN_received /\ r.packetbuffer = u.packetbuffer
      /\ r.history = u.history /\ r.out = u.out
  BY <1>1 DEF AnySocket
<1> HIDE DEF r
<1>4. Segs(r) = Segs(u)
  BY <1>3 DEF Segs
<1>5. /\ ~u.FIN_received /\ u.buf = s.buf /\ u.read = s.read /\ u.receiveBuffer = s.receiveBuffer
      /\ u.seqnum_next = s.seqnum_next /\ u.seqnum_unacked = s.seqnum_unacked
      /\ u.FIN_seqnum = s.FIN_seqnum /\ u.packetbuffer = <<>> /\ Segs(u) \subseteq Segs(s)
  BY <1>1, ResetsIs
<1>6. Moves(n, e, s, r)
  BY <1>2, <1>3, <1>4, <1>5, EndsMoves
<1> QED BY <1>6 DEF r

\* The end of a connection.
LEMMA AbortMoves ==
  ASSUME NEW n \in Node, NEW e, NEW s, Local(n, s, e), s.state \notin Opening, Quiet(e.c)
  PROVE  Moves(n, e, s, abort(s))
<1>1. PICK k : Holds(s, k)
  BY DEF Local, Sound
<1>2. Sound(abort(s)) /\ s \in AnySocket
  BY <1>1, AbortHolds, HoldsIs DEF Sound
<1>3. Resets(s, abort(s))
  BY <1>2, AbortIs
<1> QED BY <1>2, <1>3, ResetMoves DEF Quiet

LEMMA EndingIdleMoves ==
  ASSUME NEW n \in Node, NEW e, NEW s, Local(n, s, e), s.state \in Ending, NEW env
  PROVE  /\ s.state = "FINWAIT1" => Moves(n, e, s, finwait1Idle(s, env))
         /\ s.state = "CLOSING" => Moves(n, e, s, closingIdle(s, env))
         /\ Moves(n, e, s, finwait2Idle(s, env)) /\ Moves(n, e, s, lastackIdle(s, env))
         /\ Moves(n, e, s, timewaitIdle(s, env))
<1> DEFINE u == updateHistory(s, TRUE, env)
           p == processACK(u, env)
           a == abort(u)
           f(st) == [p EXCEPT !.state = st]
           t(st) == [u EXCEPT !.state = st]
<1>1. Quiet(e.c) /\ s.state \notin Opening \cup {"CLOSED"}
  BY StatesOf DEF Ending, Opening
<1>2. /\ Moves(n, e, s, u) /\ Local(n, u, e) /\ Stage(e.c, u) = 2
      /\ \/ u.state = s.state /\ u.waiting = s.waiting /\ u.receiving = s.receiving
         \/ RetransmissionCounter /\ Resets(s, u) /\ u.state = "CLOSED" /\ ~u.waiting
              /\ ~u.receiving /\ ~u.ACK_triggered /\ u.history = <<>>
  BY <1>1, UpdateIs
<1>3. /\ finwait1Idle(s, env) = IF p.history = <<>> THEN f("FINWAIT2") ELSE p
      /\ closingIdle(s, env) = IF u.history = <<>> THEN t("TIMEWAIT") ELSE u
      /\ finwait2Idle(s, env) = p
      /\ lastackIdle(s, env) = IF u.history = <<>> THEN a ELSE u
      /\ timewaitIdle(s, env) = IF env.elapsed THEN a ELSE u
  BY DEF finwait1Idle, closingIdle, finwait2Idle, lastackIdle, timewaitIdle
<1>4. Moves(n, e, s, a)
  <2>1. u.state \notin Opening
    BY <1>1, <1>2 DEF Opening
  <2>2. Moves(n, e, u, a)
    BY <1>1, <1>2, <2>1, AbortMoves
  <2> QED BY <1>2, <2>2, MovesTrans
<1> HIDE DEF u, a
<1>5. Moves(n, e, s, p) /\ Local(n, p, e) /\ (u.state = s.state => p.state = s.state)
      /\ (u.state # s.state => p = u)
  <2>1. CASE u.state = s.state
    <3>1. Moves(n, e, u, p) /\ p.state = u.state
      BY <1>1, <1>2, <2>1, ProcessACKMoves DEF SameNumbers
    <3> QED BY <1>2, <2>1, <3>1, MovesTrans DEF Moves
  <2>2. CASE u.state # s.state
    BY <1>2, <2>2 DEF processACK
  <2> QED BY <2>1, <2>2
<1> HIDE DEF p
<1>6. ASSUME NEW x \in {u, p}, x.history = <<>>, NEW st \in States,
             \/ s.state = "FINWAIT1" /\ st = "FINWAIT2"
             \/ s.state = "CLOSING" /\ st = "TIMEWAIT"
      PROVE  Moves(n, e, s, [x EXCEPT !.state = st])
  <2>1. Moves(n, e, s, x) /\ Local(n, x, e)
    BY <1>2, <1>5
  <2>2. CASE u.state = s.state
    <3>1. x.state = s.state
      BY <1>5, <2>2
    <3>2. Moves(n, e, x, [x EXCEPT !.state = st])
      BY <1>6, <2>1, <3>1, EmptyHistoryMoves
    <3> QED BY <2>1, <3>2, MovesTrans
  <2>3. CASE u.state # s.state
    <3>1. x = u /\ Sound(u)
      BY <1>2, <1>5, <2>3 DEF Local
    <3> QED BY <1>2, <1>6, <2>3, <3>1, RevivedMoves
  <2> QED BY <2>2, <2>3
<1>7. s.state = "FINWAIT1" /\ p.history = <<>> => Moves(n, e, s, f("FINWAIT2"))
  <2>1. "FINWAIT2" \in States
    BY DEF States
  <2> QED BY <1>6, <2>1
<1>8. s.state = "CLOSING" /\ u.history = <<>> => Moves(n, e, s, t("TIMEWAIT"))
  <2>1. "TIMEWAIT" \in States
    BY DEF States
  <2> QED BY <1>6, <2>1
<1> HIDE DEF f, t
<1> QED BY <1>2, <1>3, <1>4, <1>5, <1>7, <1>8

LEMMA InputIdleMoves ==
  ASSUME NEW n \in Node, NEW e, NEW s, Local(n, s, e), NEW env, e.c \in Blocking, s.waiting
  PROVE  Moves(n, e, s, inputIdle(s, env))
<1>1. s.state \in States /\ Tasks(n, s, e)
  BY SoundIs DEF Local
<1>2. CASE s.state = "CLOSED"
  <2>1. inputIdle(s, env) = [s EXCEPT !.waiting = FALSE]
    BY <1>2 DEF inputIdle, closedIdle
  <2> QED BY <1>2, <2>1, ClosedMoves
<1>3. CASE s.state = "LISTEN"
  <2>1. inputIdle(s, env) = s
    BY <1>3 DEF inputIdle
  <2> QED BY <2>1, GrowsSelf
<1>4. CASE s.state \in {"SYNSENT", "SYNRCVD"}
  <2>1. inputIdle(s, env) = updateHistory(s, TRUE, env)
    BY <1>4 DEF inputIdle, synsentIdle, synrcvdIdle
  <2>2. s.state # "CLOSED" /\ s.state \in Opening
    BY <1>4 DEF Opening
  <2> QED BY <2>1, <2>2, UpdateHistoryMoves
<1>5. CASE s.state = "ESTABLISHED"
  <2>1. inputIdle(s, env) = establishedIdle(s, env)
    BY <1>5 DEF inputIdle
  <2> QED BY <1>5, <2>1, EstablishedIdleMoves
<1>6. CASE s.state = "CLOSEWAIT"
  <2>1. inputIdle(s, env) = closewaitIdle(s, env)
    BY <1>6 DEF inputIdle
  <2> QED BY <1>6, <2>1, ClosewaitIdleMoves
<1>7. CASE s.state \in Ending
  <2>1. /\ s.state = "FINWAIT1" => inputIdle(s, env) = finwait1Idle(s, env)
        /\ s.state = "FINWAIT2" => inputIdle(s, env) = finwait2Idle(s, env)
        /\ s.state = "LASTACK" => inputIdle(s, env) = lastackIdle(s, env)
        /\ s.state = "CLOSING" => inputIdle(s, env) = closingIdle(s, env)
        /\ s.state = "TIMEWAIT" => inputIdle(s, env) = timewaitIdle(s, env)
    BY DEF inputIdle
  <2> QED BY <1>7, <2>1, EndingIdleMoves DEF Ending
<1> QED BY <1>1, <1>2, <1>3, <1>4, <1>5, <1>6, <1>7 DEF States, Ending

-----------------------------------------------------------------------------
(* The connection: what a step of one node changes for both.                *)

\* What holds of a socket still holds when its segments have left it, and
\* when the peer has got further.
LEMMA LocalLater ==
  ASSUME NEW n \in Node, NEW s, NEW e, Local(n, s, e), NEW r, NEW x, r = [s EXCEPT !.out = x],
         Sound(r), NEW f, ViewOK(n, f), f.c = e.c, f.k = e.k, f.w = e.w,
         e.stage <= f.stage, e.fin => f.fin /\ f.v = e.v,
         f.flight \cup Segs(r) \subseteq e.flight \cup Segs(s),
         e.ends \subseteq f.ends, e.acks \subseteq f.acks, Uncut(n, r, f), Handshake(n, r, f)
  PROVE  Local(n, r, f)
<1>1. /\ Sending(n, s, e) /\ Tasks(n, s, e) /\ Receiving(n, s, e) /\ Finishing(n, s, e)
      /\ Covered(n, s, e) /\ Sent(n, s, e) /\ ViewOK(n, e) /\ s \in AnySocket
  BY SoundIs DEF Local
<1>2. /\ SameNumbers(s, r) /\ SameStream(s, r) /\ r.history = s.history
      /\ r.buflen = s.buflen /\ r.waiting = s.waiting /\ r.receiving = s.receiving
      /\ r.FIN_received = s.FIN_received /\ r.FIN_seqnum = s.FIN_seqnum
  BY <1>1 DEF SameNumbers, SameStream, AnySocket
<1>3. Sending(n, r, e) /\ Tasks(n, r, e) /\ Receiving(n, r, e) /\ Finishing(n, r, e)
  BY <1>1, <1>2, SameSending, SameTasks, SameReceiving, SameFinishing
<1>4. Covered(n, r, e)
  <2>1. Timed(r) = Timed(s)
    BY <1>2 DEF Timed, TimedRecords
  <2> QED BY <1>1, <1>2, <2>1, SameCovered
<1>5. FinSent(n, e.c, r) = FinSent(n, e.c, s) /\ Stage(e.c, r) = Stage(e.c, s) /\ r.buf = s.buf
      /\ Stage(e.c, r) \in 0 .. 2
  <2>1. FinSent(n, e.c, r) = FinSent(n, e.c, s) /\ Stage(e.c, r) = Stage(e.c, s) /\ r.buf = s.buf
    BY <1>2 DEF SameNumbers, FinSent, Stage, Nxt
  <2>2. Stage(e.c, r) \in 0 .. 2
    BY DEF Stage
  <2> QED BY <2>1, <2>2
<1>6. Sending(n, r, f) /\ Tasks(n, r, f)
  BY <1>3 DEF Sending, Tasks
<1>7. Receiving(n, r, f)
  BY <1>3 DEF Receiving
<1>8. Finishing(n, r, f)
  BY <1>3 DEF Finishing
<1>9. Covered(n, r, f)
  BY <1>4 DEF Covered
<1>10. Acks(s, e.ends, e.v, e.fin) \subseteq Acks(r, f.ends, f.v, f.fin)
  BY <1>2 DEF Acks, SameStream, Got
<1>11. Sent(n, r, f)
  <2>1. ASSUME NEW g \in f.flight \cup Segs(r)
        PROVE  /\ SegOK(n, g, Stage(f.c, r), f.w, FinSent(n, f.c, r), Acks(r, f.ends, f.v, f.fin))
               /\ g.len > 0 => End(g) <= r.buf
               /\ g.len > 0 => \A h \in f.flight \cup Segs(r) : ~Straddles(h, End(g))
    <3>1. /\ SegOK(n, g, Stage(e.c, s), e.w, FinSent(n, e.c, s), Acks(s, e.ends, e.v, e.fin))
          /\ g.len > 0 => End(g) <= s.buf
          /\ g.len > 0 => \A h \in e.flight \cup Segs(s) : ~Straddles(h, End(g))
      BY <1>1, <2>1 DEF Sent
    <3>2. SegOK(n, g, Stage(e.c, r), e.w, FinSent(n, e.c, r), Acks(r, f.ends, f.v, f.fin))
      <4>1. Stage(e.c, s) \in 0 .. 2 /\ Stage(e.c, s) <= Stage(e.c, r)
        BY <1>5
      <4> QED BY <1>5, <1>10, <3>1, <4>1, SegOKLater
    <3> QED BY <1>5, <3>1, <3>2
  <2> QED BY <2>1 DEF Sent
<1> QED BY <1>6, <1>7, <1>8, <1>9, <1>11 DEF Local

\* The view e once the call is c, with k bytes confirmed and w written.
InCall(f, e, c, k, w) ==
    /\ f.c = c /\ f.k = k /\ f.w = w /\ f.v = e.v /\ f.stage = e.stage /\ f.fin = e.fin
    /\ f.flight = e.flight /\ f.cuts = e.cuts /\ f.ends = e.ends /\ f.acks = e.acks

\* The call changes, not what is sent and received.
LEMMA CallLocal ==
  ASSUME NEW n \in Node, NEW s, NEW e, Local(n, s, e), NEW r, Sound(r),
         SameNumbers(s, r), SameStream(s, r), r.history = s.history, r.out = s.out,
         r.FIN_received = s.FIN_received, r.FIN_seqnum = s.FIN_seqnum,
         NEW c, e.c = "new" => c = e.c, c = "new" => c = e.c, NEW k \in Nat, NEW w \in 0 .. ToWrite[n],
         k <= w /\ (k = 0 \/ k < Una(n, s)),
         w = e.w \/ (e.w <= w /\ Stage(e.c, s) = 2 /\ ~FinSent(n, e.c, s)),
         NEW f, InCall(f, e, c, k, w), Tasks(n, r, f)
  PROVE  Local(n, r, f)
<1>1. /\ Sending(n, s, e) /\ Receiving(n, s, e) /\ Finishing(n, s, e) /\ Handshake(n, s, e)
      /\ Covered(n, s, e) /\ Sent(n, s, e) /\ ViewOK(n, e) /\ s \in AnySocket /\ Uncut(n, s, e)
      /\ s.buf \in Nat
  BY SoundIs DEF Local
<1>2. /\ f.c = c /\ f.k = k /\ f.w = w /\ f.v = e.v /\ f.stage = e.stage /\ f.fin = e.fin
      /\ f.flight = e.flight /\ f.cuts = e.cuts /\ f.ends = e.ends /\ f.acks = e.acks
  BY DEF InCall
<1>3. Stage(c, r) = Stage(e.c, s) /\ FinSent(n, c, r) = FinSent(n, e.c, s)
      /\ Acks(r, e.ends, e.v, e.fin) = Acks(s, e.ends, e.v, e.fin)
      /\ Una(n, r) = Una(n, s) /\ Nxt(n, r) = Nxt(n, s) /\ r.buf = s.buf /\ r.state = s.state
      /\ Segs(r) = Segs(s) /\ Timed(r) = Timed(s) /\ Got(r) = Got(s)
  <2>1. Acks(r, e.ends, e.v, e.fin) = Acks(s, e.ends, e.v, e.fin) /\ Segs(r) = Segs(s) /\ Timed(r) = Timed(s)
    BY SameAcks, SameSegs
  <2>2. Stage(c, r) = Stage(e.c, s) /\ Una(n, r) = Una(n, s) /\ Nxt(n, r) = Nxt(n, s)
        /\ r.buf = s.buf /\ r.state = s.state
    BY DEF SameNumbers, Stage, Una, Nxt
  <2>3. FinSent(n, c, r) = FinSent(n, e.c, s)
    BY <2>2 DEF FinSent
  <2> QED BY <2>1, <2>2, <2>3 DEF SameStream, Got
<1>4. ViewOK(n, f)
  BY <1>1, <1>2 DEF ViewOK
<1>5. Sending(n, r, f)
  <2>1. s.buf <= w /\ (Stage(e.c, s) < 2 => w = 0) /\ (FinSent(n, e.c, s) => s.buf = w)
    BY <1>1 DEF Sending, ViewOK
  <2>2. c # "new" => e.c # "new"
    OBVIOUS
  <2> QED BY <1>1, <1>2, <1>3, <2>1, <2>2 DEF Sending
<1>6. Receiving(n, r, f) /\ Finishing(n, r, f)
  <2>1. Unsynchronised(c, r) = Unsynchronised(e.c, s)
    BY <1>3 DEF Unsynchronised
  <2> QED BY <1>1, <1>2, <1>3, <2>1 DEF Receiving, Finishing, SameStream
<1>7. Covered(n, r, f) /\ Uncut(n, r, f) /\ Handshake(n, r, f)
  BY <1>1, <1>2, <1>3 DEF Covered, Uncut, Handshake
<1>8. Sent(n, r, f)
  <2>1. ASSUME NEW g, SegOK(n, g, Stage(e.c, s), e.w, FinSent(n, e.c, s), Acks(s, e.ends, e.v, e.fin))
        PROVE  SegOK(n, g, Stage(e.c, s), w, FinSent(n, e.c, s), Acks(s, e.ends, e.v, e.fin))
    BY <2>1 DEF SegOK
  <2> QED BY <1>1, <1>2, <1>3, <2>1 DEF Sent
<1> QED BY <1>4, <1>5, <1>6, <1>7, <1>8 DEF Local

-----------------------------------------------------------------------------
(* Both sides of the connection.                                            *)

\* What the peer's view takes from a side.
Fits(n, a) ==
    /\ a.w \in 0 .. ToWrite[n] /\ a.k \in Nat /\ Sound(a.s) /\ a.q \subseteq AnySegment
    /\ a.s.buf <= a.w /\ (FinSent(n, a.c, a.s) => a.s.buf = a.w)
    /\ Stage(a.c, a.s) = 1 => Nxt(n, a.s) = 1
    /\ Stage(a.c, a.s) = 2 => Nxt(n, a.s) \in {a.s.buf + 1, a.s.buf + 2}
    /\ \A g \in a.q \cup Segs(a.s) : g.len > 0 => End(g) <= a.s.buf

LEMMA ViewIs ==
  ASSUME NEW n, NEW a, NEW b, NEW e, e = View(n, a, b)
  PROVE  /\ e.c = a.c /\ e.k = a.k /\ e.w = a.w /\ e.v = b.w /\ e.stage = Stage(b.c, b.s)
         /\ e.fin = FinSent(Peer(n), b.c, b.s) /\ e.flight = a.q /\ e.cuts = Cuts(n, a)
         /\ e.ends = Ends(Peer(n), b) /\ e.acks = Acks(b.s, Ends(n, a), a.w, FinSent(n, a.c, a.s))
         /\ e \in [c : {e.c}, k : {e.k}, w : {e.w}, v : {e.v}, stage : {e.stage}, fin : {e.fin},
                   flight : {e.flight}, cuts : {e.cuts}, ends : {e.ends}, acks : {e.acks}]
BY DEF View

LEMMA FitsSegment ==
  ASSUME NEW n \in Node, NEW a, Fits(n, a), NEW g \in a.q \cup Segs(a.s)
  PROVE  g.len \in Nat /\ g.data \in Nat /\ End(g) \in Nat /\ g \in AnySegment
<1>1. g \in AnySegment
  BY SegsType DEF Fits
<1>2. g.len \in Nat /\ g.data \in Nat
  BY <1>1 DEF AnySegment
<1> QED BY <1>1, <1>2 DEF End

LEMMA FitsNumbers ==
  ASSUME NEW n \in Node, NEW a, Fits(n, a)
  PROVE  /\ a.s.buf \in Nat /\ Nxt(n, a.s) \in Nat /\ a.w \in Nat /\ Stage(a.c, a.s) \in {0, 1, 2}
         /\ FinSent(n, a.c, a.s) \in BOOLEAN
         /\ Stage(a.c, a.s) # 0 => Nxt(n, a.s) >= 1
         /\ FinSent(n, a.c, a.s) => Stage(a.c, a.s) = 2 /\ Nxt(n, a.s) = a.w + 2 /\ a.s.buf = a.w
<1>1. a.s.buf \in Nat /\ a.s.seqnum_next \in SeqNum
  BY SoundIs DEF Fits
<1>2. Nxt(n, a.s) \in Nat
  BY <1>1, PosIs DEF Nxt
<1>3. a.w \in Nat
  BY NodeFacts DEF Fits
<1>4. Stage(a.c, a.s) \in {0, 1, 2}
  BY DEF Stage
<1>5. Stage(a.c, a.s) # 0 => Nxt(n, a.s) >= 1
  <2>1. Stage(a.c, a.s) # 0 => Nxt(n, a.s) \in {1, a.s.buf + 1, a.s.buf + 2}
    BY <1>4 DEF Fits
  <2> QED BY <1>1, <2>1
<1>6. FinSent(n, a.c, a.s) => Stage(a.c, a.s) = 2 /\ Nxt(n, a.s) = a.s.buf + 2 /\ a.s.buf = a.w
  BY DEF FinSent, Fits
<1>7. FinSent(n, a.c, a.s) \in BOOLEAN
  BY DEF FinSent
<1> QED BY <1>1, <1>2, <1>3, <1>4, <1>5, <1>6, <1>7

LEMMA CutsIs ==
  ASSUME NEW n \in Node, NEW a, Fits(n, a)
  PROVE  /\ Cuts(n, a) \subseteq Nat /\ Ends(n, a) \subseteq 0 .. a.w /\ Ends(n, a) \subseteq Cuts(n, a)
         /\ Stage(a.c, a.s) >= 1 => 0 \in Ends(n, a)
         /\ FinSent(n, a.c, a.s) => a.w + 1 \in Cuts(n, a)
<1>1. /\ a.s.buf \in Nat /\ Nxt(n, a.s) \in Nat /\ a.w \in Nat /\ Stage(a.c, a.s) \in {0, 1, 2}
      /\ Stage(a.c, a.s) # 0 => Nxt(n, a.s) >= 1
      /\ FinSent(n, a.c, a.s) => Stage(a.c, a.s) = 2 /\ Nxt(n, a.s) = a.w + 2 /\ a.s.buf = a.w
  BY FitsNumbers
<1>2. a.s.buf <= a.w
  BY DEF Fits
<1>3. \A k \in Cuts(n, a) : k \in 0 .. Nxt(n, a.s) - 1
  BY DEF Cuts
<1>4. Cuts(n, a) \subseteq Nat /\ Ends(n, a) \subseteq Cuts(n, a) /\ \A k \in Ends(n, a) : k <= a.s.buf
  BY <1>1, <1>3 DEF Ends
<1>5. Ends(n, a) \subseteq 0 .. a.w
  BY <1>1, <1>2, <1>4
<1>6. ASSUME Stage(a.c, a.s) >= 1 PROVE 0 \in Ends(n, a)
  <2>1. Stage(a.c, a.s) # 0 /\ Nxt(n, a.s) >= 1
    BY <1>1, <1>6
  <2>2. ASSUME NEW g \in a.q \cup Segs(a.s) PROVE ~Straddles(g, 0)
    <3>1. g.data \in Nat
      BY FitsSegment
    <3> QED BY <3>1 DEF Straddles
  <2>3. 0 \in 0 .. Nxt(n, a.s) - 1 /\ 0 <= a.s.buf
    BY <1>1, <2>1
  <2> QED BY <2>1, <2>2, <2>3 DEF Cuts, Ends
<1>7. ASSUME FinSent(n, a.c, a.s) PROVE a.w + 1 \in Cuts(n, a)
  <2>1. Stage(a.c, a.s) # 0 /\ Nxt(n, a.s) = a.w + 2 /\ a.s.buf = a.w
    BY <1>1, <1>7
  <2>2. ASSUME NEW g \in a.q \cup Segs(a.s) PROVE ~Straddles(g, a.w + 1)
    <3>1. g.len > 0 => End(g) <= a.w
      BY <2>1 DEF Fits
    <3>2. End(g) \in Nat
      BY FitsSegment
    <3>3. g.len > 0 => ~(a.w + 1 < End(g))
      BY <1>1, <3>1, <3>2
    <3> QED BY <3>3 DEF Straddles
  <2>3. a.w + 1 \in 0 .. Nxt(n, a.s) - 1
    BY <1>1, <2>1
  <2> QED BY <2>1, <2>2, <2>3 DEF Cuts
<1> QED BY <1>4, <1>5, <1>6, <1>7

LEMMA ViewIsOK ==
  ASSUME NEW n \in Node, NEW a, NEW b, Fits(n, a), Fits(Peer(n), b)
  PROVE  ViewOK(n, View(n, a, b))
<1> DEFINE e == View(n, a, b)
           p == Peer(n)
<1>1. p \in Node
  BY NodeFacts
<1>2. /\ e.k = a.k /\ e.w = a.w /\ e.v = b.w /\ e.stage = Stage(b.c, b.s)
      /\ e.fin = FinSent(p, b.c, b.s) /\ e.flight = a.q /\ e.cuts = Cuts(n, a)
      /\ e.ends = Ends(p, b) /\ e.acks = Acks(b.s, Ends(n, a), a.w, FinSent(n, a.c, a.s))
  BY ViewIs
<1> HIDE DEF e
<1>3. /\ Cuts(n, a) \subseteq Nat /\ Ends(n, a) \subseteq 0 .. a.w /\ Ends(n, a) \subseteq Cuts(n, a)
      /\ FinSent(n, a.c, a.s) => a.w + 1 \in Cuts(n, a)
  BY CutsIs
<1>4. Ends(p, b) \subseteq 0 .. b.w /\ (Stage(b.c, b.s) >= 1 => 0 \in Ends(p, b))
  BY <1>1, CutsIs
<1>5. a.w \in Nat /\ Stage(b.c, b.s) \in {0, 1, 2} /\ FinSent(p, b.c, b.s) \in BOOLEAN
  BY <1>1, FitsNumbers
<1>6. ASSUME NEW x \in Acks(b.s, Ends(n, a), a.w, FinSent(n, a.c, a.s))
      PROVE  x \in Nat /\ x - 1 \in Cuts(n, a)
  <2>1. CASE \E k \in Ends(n, a) : x = k + 1
    <3>1. PICK k \in Ends(n, a) : x = k + 1
      BY <2>1
    <3>2. k \in Nat /\ k \in Cuts(n, a)
      BY <1>3
    <3>3. x - 1 = k
      BY <3>1, <3>2
    <3> QED BY <3>1, <3>2, <3>3
  <2>2. CASE FinSent(n, a.c, a.s) /\ x = a.w + 2
    <3>1. x - 1 = a.w + 1 /\ x \in Nat
      BY <1>5, <2>2
    <3> QED BY <1>3, <2>2, <3>1
  <2> QED BY <1>6, <2>1, <2>2 DEF Acks
<1>7. /\ a.w \in 0 .. ToWrite[n] /\ b.w \in 0 .. ToWrite[p] /\ a.k \in Nat /\ a.q \subseteq AnySegment
  BY DEF Fits
<1>8. Stage(b.c, b.s) \in 0 .. 2
  BY <1>5
<1> QED BY <1>2, <1>3, <1>4, <1>5, <1>6, <1>7, <1>8 DEF ViewOK, e

\* A segment that waits for node n's socket is one that its peer has sent.
LEMMA Incoming ==
  ASSUME NEW n \in Node, NEW a, NEW b, Fits(Peer(n), b),
         Local(Peer(n), b.s, View(Peer(n), b, a)), NEW g \in b.q
  PROVE  Arrives(n, View(n, a, b), g)
<1> DEFINE p == Peer(n)
           e == View(p, b, a)
           f == View(n, a, b)
<1>1. p \in Node /\ Peer(p) = n
  BY NodeFacts
<1>2. /\ e.c = b.c /\ e.w = b.w /\ e.v = a.w /\ e.fin = FinSent(n, a.c, a.s)
      /\ e.flight = b.q /\ e.ends = Ends(n, a)
  BY <1>1, ViewIs
<1>3. /\ f.v = b.w /\ f.stage = Stage(b.c, b.s) /\ f.fin = FinSent(p, b.c, b.s)
      /\ f.ends = Ends(p, b) /\ f.acks = Acks(b.s, Ends(n, a), a.w, FinSent(n, a.c, a.s))
  BY <1>1, ViewIs
<1>4. Sent(p, b.s, e)
  BY DEF Local
<1> HIDE DEF e, f
<1>5. /\ SegOK(p, g, Stage(b.c, b.s), b.w, FinSent(p, b.c, b.s), f.acks)
      /\ g.len > 0 => End(g) <= b.s.buf
      /\ g.len > 0 => \A h \in b.q \cup Segs(b.s) : ~Straddles(h, End(g))
  BY <1>2, <1>3, <1>4 DEF Sent
<1>6. g \in AnySegment /\ End(g) \in Nat /\ b.s.buf \in Nat /\ Nxt(p, b.s) \in Nat
  BY <1>1, FitsSegment, FitsNumbers
<1>7. ASSUME g.len > 0 PROVE End(g) \in Ends(p, b)
  <2>1. Stage(b.c, b.s) = 2
    <3>1. g.len # 0
      BY <1>7
    <3> QED BY <1>5, <3>1 DEF SegOK
  <2>2. Nxt(p, b.s) \in {b.s.buf + 1, b.s.buf + 2}
    BY <2>1 DEF Fits
  <2>3. End(g) \in 0 .. Nxt(p, b.s) - 1 /\ End(g) <= b.s.buf
    BY <1>5, <1>6, <1>7, <2>2
  <2>4. 2 # 0
    OBVIOUS
  <2> QED BY <1>5, <1>7, <2>1, <2>3, <2>4 DEF Cuts, Ends
<1> QED BY <1>3, <1>5, <1>6, <1>7 DEF Arrives, f

\* The rest of a side's facts come from what holds of its socket.
LEMMA LocalFits ==
  ASSUME NEW n \in Node, NEW a, NEW s, NEW e, Local(n, s, e), NEW x, a.s = [s EXCEPT !.out = x],
         a.c = e.c, a.k = e.k, a.w = e.w, Sound(a.s),
         a.q \cup Segs(a.s) \subseteq e.flight \cup Segs(s)
  PROVE  Fits(n, a)
<1>1. Sending(n, s, e) /\ Sent(n, s, e) /\ ViewOK(n, e) /\ s \in AnySocket
  BY SoundIs DEF Local
<1>2. Segs(s) \subseteq AnySegment
  BY SegsType DEF Local
<1>3. a.s.buf = s.buf /\ a.s.state = s.state /\ a.s.seqnum_next = s.seqnum_next
  BY <1>1 DEF AnySocket
<1>4. /\ Stage(a.c, a.s) = Stage(e.c, s) /\ Nxt(n, a.s) = Nxt(n, s)
      /\ FinSent(n, a.c, a.s) = FinSent(n, e.c, s)
  BY <1>3 DEF Stage, Nxt, FinSent
<1>5. a.w \in 0 .. ToWrite[n] /\ a.k \in Nat /\ a.q \subseteq AnySegment
  BY <1>1, <1>2 DEF ViewOK
<1>6. /\ a.s.buf <= a.w /\ (FinSent(n, a.c, a.s) => a.s.buf = a.w)
      /\ Stage(a.c, a.s) = 1 => Nxt(n, a.s) = 1
      /\ Stage(a.c, a.s) = 2 => Nxt(n, a.s) \in {a.s.buf + 1, a.s.buf + 2}
  BY <1>1, <1>3, <1>4 DEF Sending
<1>7. \A g \in a.q \cup Segs(a.s) : g.len > 0 => End(g) <= a.s.buf
  BY <1>1, <1>3 DEF Sent
<1> QED BY <1>5, <1>6, <1>7 DEF Fits

LEMMA EmptiedIs ==
  ASSUME NEW r, Sound(r), NEW t, t = [r EXCEPT !.out = {}], Sound(t)
  PROVE  /\ SameNumbers(r, t) /\ SameStream(r, t) /\ Segs(t) \subseteq Segs(r)
         /\ Segs(r) \subseteq Segs(t) \cup r.out
<1>1. r \in AnySocket
  BY SoundIs
<1> QED BY <1>1 DEF AnySocket, SameNumbers, SameStream, Segs

\* What the side of node n gives its peer grows from a to b.
LEMMA CutsGrow ==
  ASSUME NEW n \in Node, NEW a, NEW b, NEW Q, Fits(n, b),
         \A k \in Cuts(n, a) : k < Nxt(n, b.s) /\ \A g \in Q : ~Straddles(g, k),
         b.q \cup Segs(b.s) \subseteq a.q \cup Q, Stage(a.c, a.s) <= Stage(b.c, b.s),
         Stage(a.c, a.s) \in {0, 1, 2}, a.s.buf <= b.s.buf, a.s.buf \in Nat
  PROVE  Cuts(n, a) \subseteq Cuts(n, b) /\ Ends(n, a) \subseteq Ends(n, b)
<1>1. ASSUME NEW k \in Cuts(n, a) PROVE k \in Cuts(n, b)
  <2>1. /\ Stage(a.c, a.s) # 0 /\ k \in 0 .. Nxt(n, a.s) - 1
        /\ \A g \in a.q : ~Straddles(g, k)
    BY <1>1 DEF Cuts
  <2>2. Nxt(n, b.s) \in Nat /\ Stage(b.c, b.s) \in {0, 1, 2}
    BY FitsNumbers
  <2>3. Stage(b.c, b.s) # 0
    BY <2>1, <2>2
  <2>4. k \in Nat
    BY <2>1
  <2>5. k \in 0 .. Nxt(n, b.s) - 1
    <3>1. k < Nxt(n, b.s)
      OBVIOUS
    <3> QED BY <2>2, <2>4, <3>1
  <2> QED BY <2>1, <2>3, <2>5 DEF Cuts
<1>2. ASSUME NEW k \in Cuts(n, a), k <= a.s.buf PROVE k <= b.s.buf
  <2>1. k \in Nat /\ b.s.buf \in Nat
    BY <1>1, FitsNumbers, CutsIs
  <2> QED BY <1>2, <2>1
<1> QED BY <1>1, <1>2 DEF Ends

LEMMA AcksGrow ==
  ASSUME NEW s, NEW ends, NEW ends1, ends \subseteq ends1, NEW v, NEW fin, NEW v1, NEW fin1,
         fin => fin1 /\ v1 = v
  PROVE  Acks(s, ends, v, fin) \subseteq Acks(s, ends1, v1, fin1)
BY DEF Acks

\* What holds of both sockets.
Pair(n, a, b) ==
    Local(n, a.s, View(n, a, b)) /\ Local(Peer(n), b.s, View(Peer(n), b, a))

\* What a step of node n from side a to side b may do, when r is what its
\* socket is before its segments leave it.
Advances(n, a, b, r) ==
    /\ b.s = [r EXCEPT !.out = {}] /\ Sound(b.s)
    /\ b.q \subseteq a.q \cup r.out
    /\ a.s.buf <= r.buf /\ Stage(a.c, a.s) <= Stage(b.c, r)
    /\ FinSent(n, a.c, a.s) => FinSent(n, b.c, r) /\ b.w = a.w

LEMMA PairStep ==
  ASSUME NEW n \in Node, NEW a, NEW b, Pair(n, a, b), NEW a1, NEW b1, NEW r,
         Advances(n, a, a1, r), NEW e, e = View(n, a, b),
         NEW e1, InCall(e1, e, a1.c, a1.k, a1.w), Local(n, r, e1),
         Acks(a.s, e.ends, e.v, e.fin) \subseteq Acks(r, e.ends, e.v, e.fin),
         b1.c = b.c, b1.k = b.k, b1.w = b.w, b1.s = b.s, b1.q \subseteq b.q,
         Fits(n, a), Fits(Peer(n), b), b.s.out = {}
  PROVE  Pair(n, a1, b1)
<1> DEFINE p == Peer(n)
           f == View(n, a1, b1)
           h == View(p, b, a)
           h1 == View(p, b1, a1)
<1>p. p \in Node /\ Peer(p) = n /\ p # n
  BY NodeFacts
<1>e. /\ e.c = a.c /\ e.k = a.k /\ e.w = a.w /\ e.v = b.w /\ e.stage = Stage(b.c, b.s)
      /\ e.fin = FinSent(p, b.c, b.s) /\ e.flight = a.q /\ e.cuts = Cuts(n, a)
      /\ e.ends = Ends(p, b) /\ e.acks = Acks(b.s, Ends(n, a), a.w, FinSent(n, a.c, a.s))
      /\ e \in [c : {e.c}, k : {e.k}, w : {e.w}, v : {e.v}, stage : {e.stage}, fin : {e.fin},
                flight : {e.flight}, cuts : {e.cuts}, ends : {e.ends}, acks : {e.acks}]
  BY ViewIs
<1>1. /\ e1.c = a1.c /\ e1.k = a1.k /\ e1.w = a1.w /\ e1.v = b.w /\ e1.stage = Stage(b.c, b.s)
      /\ e1.fin = FinSent(p, b.c, b.s) /\ e1.flight = a.q /\ e1.cuts = Cuts(n, a)
      /\ e1.ends = Ends(p, b) /\ e1.acks = Acks(b.s, Ends(n, a), a.w, FinSent(n, a.c, a.s))
  BY <1>e DEF InCall
<1>f. /\ f.c = a1.c /\ f.k = a1.k /\ f.w = a1.w /\ f.v = b.w /\ f.stage = Stage(b.c, b.s)
      /\ f.fin = FinSent(p, b.c, b.s) /\ f.flight = a1.q /\ f.cuts = Cuts(n, a1)
      /\ f.ends = Ends(p, b1) /\ f.acks = Acks(b.s, Ends(n, a1), a1.w, FinSent(n, a1.c, a1.s))
  BY ViewIs
<1>h. /\ h.c = b.c /\ h.k = b.k /\ h.w = b.w /\ h.v = a.w /\ h.stage = Stage(a.c, a.s)
      /\ h.fin = FinSent(n, a.c, a.s) /\ h.flight = b.q /\ h.cuts = Cuts(p, b)
      /\ h.ends = Ends(n, a) /\ h.acks = Acks(a.s, Ends(p, b), b.w, FinSent(p, b.c, b.s))
  BY <1>p, ViewIs
<1>i. /\ h1.c = b.c /\ h1.k = b.k /\ h1.w = b.w /\ h1.v = a1.w /\ h1.stage = Stage(a1.c, a1.s)
      /\ h1.fin = FinSent(n, a1.c, a1.s) /\ h1.flight = b1.q /\ h1.cuts = Cuts(p, b1)
      /\ h1.ends = Ends(n, a1) /\ h1.acks = Acks(a1.s, Ends(p, b1), b.w, FinSent(p, b.c, b.s))
  BY <1>p, ViewIs
<1>b. Local(p, b.s, h)
  BY DEF Pair
<1> HIDE DEF f, h, h1, p
<1>2. /\ a1.s = [r EXCEPT !.out = {}] /\ Sound(a1.s) /\ Sound(r) /\ a1.q \subseteq a.q \cup r.out
      /\ a.s.buf <= r.buf /\ Stage(a.c, a.s) <= Stage(a1.c, r)
      /\ FinSent(n, a.c, a.s) => FinSent(n, a1.c, r) /\ a1.w = a.w
  BY DEF Advances, Local
<1>3. /\ SameNumbers(r, a1.s) /\ SameStream(r, a1.s) /\ Segs(a1.s) \subseteq Segs(r)
      /\ r.out \subseteq Segs(r)
  BY <1>2, EmptiedIs DEF Segs
<1>4. /\ Stage(a1.c, a1.s) = Stage(a1.c, r) /\ FinSent(n, a1.c, a1.s) = FinSent(n, a1.c, r)
      /\ Nxt(n, a1.s) = Nxt(n, r) /\ a1.s.buf = r.buf
  BY <1>3 DEF SameNumbers, Stage, FinSent, Nxt
<1>5. a1.q \cup Segs(a1.s) \subseteq a.q \cup Segs(r)
  BY <1>2, <1>3
<1>6. Fits(n, a1)
  <2>1. a1.q \cup Segs(a1.s) \subseteq e1.flight \cup Segs(r)
    BY <1>1, <1>5
  <2> QED BY <1>1, <1>2, <2>1, LocalFits
<1>7. Fits(p, b1)
  BY <1>p DEF Fits, p
<1>8. Cuts(n, a) \subseteq Cuts(n, a1) /\ Ends(n, a) \subseteq Ends(n, a1)
  <2>1. \A k \in Cuts(n, a) : k < Nxt(n, a1.s) /\ \A g \in Segs(r) : ~Straddles(g, k)
    BY <1>1, <1>4 DEF Local, Uncut
  <2>2. Stage(a.c, a.s) <= Stage(a1.c, a1.s) /\ a.s.buf <= a1.s.buf
    BY <1>2, <1>4
  <2>3. Stage(a.c, a.s) \in {0, 1, 2} /\ a.s.buf \in Nat
    BY FitsNumbers
  <2> QED BY <1>5, <1>6, <2>1, <2>2, <2>3, CutsGrow
<1>9. Ends(p, b) \subseteq Ends(p, b1)
  BY <1>p DEF Ends, Cuts
<1>10. e1.acks \subseteq f.acks
  BY <1>1, <1>2, <1>4, <1>8, <1>f, AcksGrow
<1>11. h.acks \subseteq h1.acks
  <2>1. h.acks \subseteq Acks(r, Ends(p, b), b.w, FinSent(p, b.c, b.s))
    BY <1>e, <1>h
  <2>2. Acks(a1.s, Ends(p, b), b.w, FinSent(p, b.c, b.s)) = Acks(r, Ends(p, b), b.w, FinSent(p, b.c, b.s))
    BY <1>3 DEF SameStream, Acks, Got
  <2>3. Acks(a1.s, Ends(p, b), b.w, FinSent(p, b.c, b.s)) \subseteq h1.acks
    BY <1>9, <1>i, AcksGrow
  <2> QED BY <2>1, <2>2, <2>3
<1>12. ViewOK(n, f) /\ ViewOK(p, h1)
  BY <1>6, <1>7, <1>p, ViewIsOK DEF f, h1, p
<1>13. Uncut(n, a1.s, f) /\ Uncut(p, b.s, h1)
  <2>1. \A k \in Cuts(n, a1) : k < Nxt(n, a1.s) /\ \A g \in Segs(a1.s) : ~Straddles(g, k)
    <3>1. Nxt(n, a1.s) \in Nat
      BY <1>6, FitsNumbers
    <3> QED BY <3>1 DEF Cuts
  <2>2. \A k \in Cuts(p, b1) : k < Nxt(p, b.s) /\ \A g \in Segs(b.s) : ~Straddles(g, k)
    <3>1. Nxt(p, b1.s) \in Nat
      BY <1>7, <1>p, FitsNumbers
    <3> QED BY <3>1 DEF Cuts
  <2> QED BY <1>f, <1>i, <2>1, <2>2 DEF Uncut
<1>14. Handshake(n, a1.s, f) /\ Handshake(p, b.s, h1)
  <2>1. Handshake(n, r, e1)
    BY DEF Local
  <2>2. Handshake(n, a1.s, f)
    BY <1>1, <1>4, <1>f, <2>1 DEF Handshake
  <2>3. n = Client <=> p # Client
    BY <1>p DEF Node, Peer, p
  <2> QED BY <1>f, <1>i, <2>2, <2>3 DEF Handshake
<1>15. Local(n, a1.s, f)
  <2>1. f.flight \cup Segs(a1.s) \subseteq e1.flight \cup Segs(r)
    BY <1>1, <1>5, <1>f
  <2>2. e1.stage <= f.stage
    <3>1. f.stage \in 0 .. 2
      BY <1>12 DEF ViewOK
    <3> QED BY <1>1, <1>f, <3>1
  <2>3. f.c = e1.c /\ f.k = e1.k /\ f.w = e1.w /\ (e1.fin => f.fin /\ f.v = e1.v)
        /\ e1.ends \subseteq f.ends
    BY <1>1, <1>9, <1>f
  <2> QED BY <1>2, <1>10, <1>12, <1>13, <1>14, <2>1, <2>2, <2>3, LocalLater
<1>16. Local(p, b.s, h1)
  <2>1. Sound(b.s) /\ b.s = [b.s EXCEPT !.out = {}]
    <3>1. Sound(b.s) /\ b.s \in AnySocket
      BY <1>b, SoundIs DEF Local
    <3> QED BY <3>1 DEF AnySocket
  <2>2. h.stage <= h1.stage /\ (h.fin => h1.fin /\ h1.v = h.v)
    BY <1>2, <1>4, <1>h, <1>i
  <2>3. h1.flight \cup Segs(b.s) \subseteq h.flight \cup Segs(b.s) /\ h.ends \subseteq h1.ends
    BY <1>8, <1>h, <1>i
  <2> QED BY <1>11, <1>12, <1>13, <1>14, <1>b, <1>h, <1>i, <1>p, <2>1, <2>2, <2>3, LocalLater
<1> QED BY <1>15, <1>16 DEF Pair, f, h1, p

-----------------------------------------------------------------------------
(* The invariant of the connection, and what a step has to show for it.     *)

Here(n) == View(n, Side(n), Side(Peer(n)))
Typed == IInv /\ written \in [Node -> Nat] /\ confirmed \in [Node -> Nat]
GInv == Typed /\ \A n \in Node : Local(n, sock[n], Here(n))

LEMMA SideIs ==
  ASSUME NEW n
  PROVE  /\ Side(n).c = call[n] /\ Side(n).k = confirmed[n] /\ Side(n).w = written[n]
         /\ Side(n).s = sock[n] /\ Side(n).q = Queue(Peer(n))
         /\ Side(n)'.c = call'[n] /\ Side(n)'.k = confirmed'[n] /\ Side(n)'.w = written'[n]
         /\ Side(n)'.s = sock'[n] /\ Side(n)'.q = Queue(Peer(n))'
BY DEF Side

LEMMA PairIs ==
  ASSUME GInv, NEW n \in Node
  PROVE  /\ Local(n, sock[n], Here(n)) /\ Pair(n, Side(n), Side(Peer(n)))
         /\ Fits(n, Side(n)) /\ Fits(Peer(n), Side(Peer(n)))
         /\ sock[n] \in AnySocket /\ Holds(sock[n], COUNT) /\ sock[n].out = {}
         /\ sock[Peer(n)].out = {} /\ Peer(n) \in Node /\ Peer(Peer(n)) = n
<1>1. Peer(n) \in Node /\ Peer(Peer(n)) = n
  BY NodeFacts
<1>2. ASSUME NEW m \in Node
      PROVE  Local(m, sock[m], Here(m)) /\ sock[m].out = {} /\ sock[m] \in AnySocket
             /\ Holds(sock[m], COUNT) /\ Fits(m, Side(m))
  <2>1. Local(m, sock[m], Here(m)) /\ sock[m].out = {} /\ sock[m] \in AnySocket /\ Holds(sock[m], COUNT)
    BY DEF GInv, Typed, IInv
  <2>2. Sound(sock[m]) /\ sock[m] = [sock[m] EXCEPT !.out = {}]
    BY <2>1 DEF Local, AnySocket
  <2> DEFINE a == Side(m)
  <2>3. /\ a.s = sock[m] /\ a.c = Here(m).c /\ a.k = Here(m).k /\ a.w = Here(m).w
        /\ a.q = Here(m).flight
    BY SideIs, ViewIs DEF Here
  <2> HIDE DEF a
  <2>4. Fits(m, a)
    BY <2>1, <2>2, <2>3, LocalFits
  <2> QED BY <2>1, <2>4 DEF a
<1>3. Pair(n, Side(n), Side(Peer(n)))
  <2>1. /\ Local(n, sock[n], Here(n)) /\ Local(Peer(n), sock[Peer(n)], Here(Peer(n)))
    BY <1>1, <1>2
  <2> QED BY <1>1, <2>1, SideIs DEF Pair, Here
<1> QED BY <1>1, <1>2, <1>3

\* A step of node n: its socket becomes r before its segments leave it.
LEMMA StepKeepsGInv ==
  ASSUME GInv, Typed', NEW n \in Node, NEW r, sock'[n] = [r EXCEPT !.out = {}],
         sock'[Peer(n)] = sock[Peer(n)], call'[Peer(n)] = call[Peer(n)],
         written'[Peer(n)] = written[Peer(n)], confirmed'[Peer(n)] = confirmed[Peer(n)],
         Queue(n)' \subseteq Queue(n), Queue(Peer(n))' \subseteq Queue(Peer(n)) \cup r.out,
         sock[n].buf <= r.buf, Stage(call[n], sock[n]) <= Stage(call'[n], r),
         FinSent(n, call[n], sock[n]) => FinSent(n, call'[n], r) /\ written'[n] = written[n],
         NEW e, InCall(e, Here(n), call'[n], confirmed'[n], written'[n]), Local(n, r, e),
         Acks(sock[n], e.ends, e.v, e.fin) \subseteq Acks(r, e.ends, e.v, e.fin)
  PROVE  GInv'
<1> DEFINE p == Peer(n)
           a == Side(n)
           b == Side(p)
           a1 == Side(n)'
           b1 == Side(p)'
           h == Here(n)
<1>1. p \in Node /\ Peer(p) = n /\ \A m \in Node : m = n \/ m = p
  BY NodeFacts
<1>2. Pair(n, a, b) /\ Fits(n, a) /\ Fits(p, b) /\ b.s.out = {}
  BY PairIs, SideIs
<1>3. /\ a.c = call[n] /\ a.s = sock[n] /\ a.w = written[n] /\ a.q = Queue(p)
      /\ b.c = call[p] /\ b.k = confirmed[p] /\ b.w = written[p] /\ b.s = sock[p] /\ b.q = Queue(n)
      /\ a1.c = call'[n] /\ a1.k = confirmed'[n] /\ a1.w = written'[n] /\ a1.s = sock'[n]
      /\ a1.q = Queue(p)'
      /\ b1.c = call'[p] /\ b1.k = confirmed'[p] /\ b1.w = written'[p] /\ b1.s = sock'[p]
      /\ b1.q = Queue(n)'
  BY <1>1, SideIs
<1>4. h = View(n, a, b)
  BY DEF Here
<1>5. Sound(a1.s)
  BY <1>3, HoldsSound DEF Typed, IInv
<1>c. h.ends = e.ends /\ h.v = e.v /\ h.fin = e.fin /\ InCall(e, h, a1.c, a1.k, a1.w)
  BY <1>3 DEF InCall
<1> HIDE DEF h, a, b, a1, b1, p
<1>6. Advances(n, a, a1, r)
  BY <1>3, <1>5 DEF Advances, p
<1>7. Pair(n, a1, b1)
  <2>1. b1.c = b.c /\ b1.k = b.k /\ b1.w = b.w /\ b1.s = b.s /\ b1.q \subseteq b.q
    BY <1>3 DEF p
  <2>2. Acks(a.s, h.ends, h.v, h.fin) \subseteq Acks(r, h.ends, h.v, h.fin)
    BY <1>3, <1>c
  <2>3. Fits(Peer(n), b)
    BY <1>2 DEF p
  <2> QED BY <1>2, <1>4, <1>6, <1>c, <2>1, <2>2, <2>3, PairStep
<1>8. Local(n, a1.s, View(n, a1, b1)) /\ Local(p, b1.s, View(p, b1, a1))
  BY <1>7 DEF Pair, p
<1>9. Here(n)' = View(n, a1, b1) /\ Here(p)' = View(p, b1, a1)
  BY <1>1 DEF Here, a1, b1, p
<1>10. \A m \in Node : Local(m, sock'[m], Here(m)')
  BY <1>1, <1>3, <1>8, <1>9
<1> QED BY <1>10 DEF GInv

\* The queues after Become.
LEMMA BecomeQueues ==
  ASSUME IInv, NEW n \in Node, NEW r, Become(n, r), Sound(r),
         Range(r.packetbuffer) \subseteq Range(sock[n].packetbuffer)
  PROVE  /\ sock'[n] = [r EXCEPT !.out = {}] /\ sock'[Peer(n)] = sock[Peer(n)]
         /\ Queue(n)' \subseteq Queue(n) /\ Queue(Peer(n))' \subseteq Queue(Peer(n)) \cup r.out
<1> DEFINE p == Peer(n)
           t == [r EXCEPT !.out = {}]
           arriving == net[p] \cup r.out
<1>1. p \in Node /\ p # n
  BY NodeFacts
<1>2. sock \in [Node -> AnySocket] /\ net \in [Node -> SUBSET AnySegment]
  BY DEF IInv
<1>3. sock' = [sock EXCEPT ![n] = t]
  BY DEF Become
<1>4. net' = [net EXCEPT ![p] = arriving] \/ net' = net
  BY DEF Become
<1>5. t.packetbuffer = r.packetbuffer
  BY SoundIs DEF AnySocket
<1> HIDE DEF t, p, arriving
<1>6. sock'[n] = t /\ sock'[p] = sock[p]
  BY <1>1, <1>2, <1>3
<1>7. net'[n] = net[n] /\ net'[p] \subseteq net[p] \cup r.out
  BY <1>1, <1>2, <1>4 DEF arriving
<1>8. Queue(n)' \subseteq Queue(n)
  BY <1>5, <1>6, <1>7 DEF Queue
<1>9. Queue(p)' \subseteq Queue(p) \cup r.out
  BY <1>6, <1>7 DEF Queue
<1> QED BY <1>6, <1>8, <1>9 DEF t, p

-----------------------------------------------------------------------------
(* The actions inside a call.                                               *)

Requeued(s, r) == r = [s EXCEPT !.packetbuffer = r.packetbuffer, !.mempool = r.mempool]

\* The invariant does not look at the segments that wait, and not at the
\* free blocks.
LEMMA QueueLocal ==
  ASSUME NEW n \in Node, NEW e, NEW s, NEW r, Local(n, s, e), Sound(r),
         Requeued(s, r)
  PROVE  /\ Local(n, r, e) /\ SameNumbers(s, r) /\ SameStream(s, r)
         /\ r.out = s.out /\ r.waiting = s.waiting
<1>1. /\ Sending(n, s, e) /\ Tasks(n, s, e) /\ Receiving(n, s, e) /\ Finishing(n, s, e)
      /\ Covered(n, s, e) /\ Sent(n, s, e) /\ Uncut(n, s, e) /\ Handshake(n, s, e)
      /\ ViewOK(n, e) /\ s \in AnySocket
  BY SoundIs DEF Local
<1>2. /\ SameNumbers(s, r) /\ SameStream(s, r) /\ r.history = s.history /\ r.out = s.out
      /\ r.buflen = s.buflen /\ r.waiting = s.waiting /\ r.receiving = s.receiving
      /\ r.FIN_received = s.FIN_received /\ r.FIN_seqnum = s.FIN_seqnum
  BY <1>1 DEF Requeued, SameNumbers, SameStream, AnySocket
<1>3. Segs(r) = Segs(s) /\ Timed(r) = Timed(s)
  BY <1>2, SameSegs
<1>4. FinSent(n, e.c, r) = FinSent(n, e.c, s) /\ Stage(e.c, r) = Stage(e.c, s) /\ r.buf = s.buf
  BY <1>2 DEF SameNumbers, FinSent, Stage, Nxt
<1>5. Acks(r, e.ends, e.v, e.fin) = Acks(s, e.ends, e.v, e.fin)
  BY <1>2, SameAcks
<1>6. Sent(n, r, e)
  BY <1>1, <1>3, <1>4, <1>5 DEF Sent
<1>7. Sending(n, r, e) /\ Tasks(n, r, e) /\ Receiving(n, r, e) /\ Finishing(n, r, e)
  BY <1>1, <1>2, SameSending, SameTasks, SameReceiving, SameFinishing
<1>8. Covered(n, r, e) /\ Handshake(n, r, e)
  BY <1>1, <1>2, <1>3, <1>4, SameCovered, SameHandshake
<1>9. Uncut(n, r, e)
  BY <1>1, <1>2, <1>3, SameUncut
<1> QED BY <1>1, <1>2, <1>6, <1>7, <1>8, <1>9 DEF Local

LEMMA HereIs ==
  ASSUME NEW n
  PROVE  /\ Here(n).c = call[n] /\ Here(n).k = confirmed[n] /\ Here(n).w = written[n]
         /\ Here(n).v = written[Peer(n)] /\ Here(n).flight = Queue(Peer(n))
         /\ InCall(Here(n), Here(n), call[n], confirmed[n], written[n])
BY ViewIs, SideIs DEF Here, InCall

\* A step in a call: s is the socket without the segment that the step takes.
LEMMA MoveKeepsGInv ==
  ASSUME GInv, Typed', NEW n \in Node, NEW s, NEW r, Become(n, r), Moves(n, Here(n), s, r),
         SameNumbers(sock[n], s), SameStream(sock[n], s),
         Range(r.packetbuffer) \subseteq Range(sock[n].packetbuffer),
         call' = call, written' = written, confirmed' = confirmed
  PROVE  GInv'
<1> DEFINE e == Here(n)
<1>1. Local(n, r, e) /\ Grows(e, n, s, r) /\ Sound(r)
  BY DEF Moves, Local
<1>2. /\ sock'[n] = [r EXCEPT !.out = {}] /\ sock'[Peer(n)] = sock[Peer(n)]
      /\ Queue(n)' \subseteq Queue(n) /\ Queue(Peer(n))' \subseteq Queue(Peer(n)) \cup r.out
  BY <1>1, BecomeQueues DEF GInv, Typed
<1>3. e.c = call[n] /\ InCall(e, e, call'[n], confirmed'[n], written'[n])
  BY HereIs
<1> HIDE DEF e
<1>4. /\ s.buf = sock[n].buf /\ Stage(call[n], sock[n]) = Stage(e.c, s)
      /\ FinSent(n, call[n], sock[n]) = FinSent(n, e.c, s)
  BY <1>3 DEF SameNumbers, Stage, FinSent, Nxt
<1>5. Acks(sock[n], e.ends, e.v, e.fin) = Acks(s, e.ends, e.v, e.fin)
  BY DEF SameStream, Acks, Got
<1>6. /\ sock[n].buf <= r.buf /\ Stage(call[n], sock[n]) <= Stage(call'[n], r)
      /\ FinSent(n, call[n], sock[n]) => FinSent(n, call'[n], r)
      /\ Acks(sock[n], e.ends, e.v, e.fin) \subseteq Acks(r, e.ends, e.v, e.fin)
  BY <1>1, <1>3, <1>4, <1>5 DEF Grows
<1> QED BY <1>1, <1>2, <1>3, <1>6, StepKeepsGInv DEF e

LEMMA RecvSegmentKeepsGInv == ASSUME GInv, Typed', NEW n \in Node, RecvSegment(n) PROVE GInv'
<1> DEFINE e == Here(n)
           s == sock[n]
           p == Pop(s)
           g == Head(s.packetbuffer)
<1>1. /\ s.packetbuffer # <<>> /\ call' = call /\ written' = written /\ confirmed' = confirmed
      /\ call[n] = "poll" \/ s.waiting
  BY DEF RecvSegment, ghosts
<1>2. PICK env \in Env(s) : Become(n, input(p, env, g))
  BY DEF RecvSegment
<1>3. Local(n, s, e) /\ Holds(s, COUNT) /\ s \in AnySocket /\ s.packetbuffer \in Seq(AnySegment)
  BY PairIs DEF AnySocket
<1>4. Sound(p)
  BY <1>1, <1>3, PopHolds, HoldsSound
<1>5. p = [s EXCEPT !.packetbuffer = Tail(s.packetbuffer), !.mempool = s.mempool]
  BY <1>3 DEF Pop, AnySocket
<1>6. /\ Local(n, p, e) /\ SameNumbers(s, p) /\ SameStream(s, p)
      /\ p.packetbuffer = Tail(s.packetbuffer) /\ p.waiting = s.waiting
  <2> DEFINE t == Tail(s.packetbuffer)
             m == s.mempool
  <2>1. p = [s EXCEPT !.packetbuffer = t, !.mempool = m]
    BY <1>5
  <2> HIDE DEF e, s, p, t, m
  <2>2. p.packetbuffer = t /\ p.mempool = m
    BY <1>3, <2>1 DEF AnySocket
  <2>3. Requeued(s, p)
    BY <2>1, <2>2 DEF Requeued
  <2>4. Local(n, p, e) /\ SameNumbers(s, p) /\ SameStream(s, p) /\ p.waiting = s.waiting
    BY <1>3, <1>4, <2>3, QueueLocal
  <2> QED BY <2>2, <2>4 DEF t
<1>7. /\ g \in Range(s.packetbuffer) /\ Range(Tail(s.packetbuffer)) \subseteq Range(s.packetbuffer)
      /\ Range(<<>>) \subseteq Range(s.packetbuffer)
  <2> DEFINE q == s.packetbuffer
             t == Tail(q)
  <2>1. q \in Seq(AnySegment) /\ q # <<>>
    BY <1>1, <1>3
  <2>2. Len(q) \in Nat /\ Len(q) >= 1 /\ DOMAIN q = 1 .. Len(q) /\ Head(q) = q[1]
        /\ DOMAIN t = 1 .. Len(q) - 1 /\ \A i \in 1 .. Len(q) - 1 : t[i] = q[i + 1]
    BY <2>1
  <2> HIDE DEF q, t
  <2>3. Head(q) \in Range(q)
    BY <2>2 DEF Range
  <2>4. \A i \in DOMAIN t : i + 1 \in DOMAIN q /\ t[i] = q[i + 1]
    BY <2>2
  <2>5. Range(t) \subseteq Range(q)
    BY <2>4 DEF Range
  <2>6. Range(<<>>) \subseteq Range(q)
    BY DEF Range
  <2> QED BY <2>3, <2>5, <2>6 DEF q, t
<1>8. Arrives(n, e, g)
  <2> DEFINE a == Side(n)
             b == Side(Peer(n))
  <2>1. Fits(Peer(n), b) /\ Local(Peer(n), b.s, View(Peer(n), b, a))
    BY PairIs DEF Pair
  <2>2. b.q = Queue(n)
    BY PairIs, SideIs
  <2>3. g \in b.q
    BY <1>7, <2>2 DEF Queue
  <2> HIDE DEF a, b, g
  <2>4. Arrives(n, View(n, a, b), g)
    BY <2>1, <2>3, Incoming
  <2> QED BY <2>4 DEF Here, a, b
<1>9. e.c = "poll" \/ p.waiting
  BY <1>1, <1>6, HereIs
<1> DEFINE r == input(p, env, g)
<1> HIDE DEF p, g, e
<1>10. Moves(n, e, p, r)
  BY <1>6, <1>8, <1>9, InputMoves
<1> HIDE DEF r
<1>11. Range(r.packetbuffer) \subseteq Range(s.packetbuffer)
  <2>1. r.packetbuffer \in {p.packetbuffer, <<>>}
    BY <1>10 DEF Moves, Grows
  <2> QED BY <1>6, <1>7, <2>1
<1>12. Become(n, r)
  BY <1>2 DEF r
<1> QED BY <1>1, <1>6, <1>10, <1>11, <1>12, MoveKeepsGInv DEF e

LEMMA RecvNothingKeepsGInv == ASSUME GInv, Typed', NEW n \in Node, RecvNothing(n) PROVE GInv'
<1> DEFINE e == Here(n)
           s == sock[n]
<1>1. /\ call' = call /\ written' = written /\ confirmed' = confirmed
      /\ call[n] \in Blocking /\ s.waiting
  BY DEF RecvNothing, RecvNothingIn, ghosts
<1>2. PICK env \in Env(s) : Become(n, inputIdle(s, env))
  BY DEF RecvNothing, RecvNothingIn
<1>3. Local(n, s, e) /\ e.c = call[n]
  BY PairIs, HereIs
<1> DEFINE r == inputIdle(s, env)
<1> HIDE DEF e
<1>4. Moves(n, e, s, r)
  BY <1>1, <1>3, InputIdleMoves
<1>5. Become(n, r)
  BY <1>2
<1> HIDE DEF r
<1>6. Range(r.packetbuffer) \subseteq Range(s.packetbuffer)
  <2>1. r.packetbuffer \in {s.packetbuffer, <<>>}
    BY <1>4 DEF Moves, Grows
  <2> QED BY <2>1 DEF Range
<1>7. SameNumbers(s, s) /\ SameStream(s, s)
  BY DEF SameNumbers, SameStream
<1> QED BY <1>1, <1>4, <1>5, <1>6, <1>7, MoveKeepsGInv DEF e

-----------------------------------------------------------------------------
(* The actions that begin a call, or end it.                                *)

\* The view of node n behind the step.
There(n) == [Here(n) EXCEPT !.c = call'[n], !.k = confirmed'[n], !.w = written'[n]]

LEMMA ThereIs ==
  ASSUME NEW n
  PROVE  /\ InCall(There(n), Here(n), call'[n], confirmed'[n], written'[n])
         /\ There(n).c = call'[n] /\ There(n).w = written'[n]
<1>1. InCall(There(n), Here(n), call'[n], confirmed'[n], written'[n])
  BY DEF There, InCall, Here, View
<1> QED BY <1>1 DEF InCall

\* What of the socket is not about the call.
Calm(s, r) ==
    /\ SameNumbers(s, r) /\ SameStream(s, r) /\ r.history = s.history /\ r.out = s.out
    /\ r.FIN_received = s.FIN_received /\ r.FIN_seqnum = s.FIN_seqnum
    /\ r.packetbuffer = s.packetbuffer

LEMMA CallBegins ==
  ASSUME GInv, NEW n \in Node, NEW t, Sound(t), Calm(sock[n], t), call[n] # "new", call'[n] # "new",
         confirmed'[n] \in Nat, written'[n] \in 0 .. ToWrite[n], confirmed'[n] <= written'[n],
         confirmed'[n] = 0 \/ confirmed'[n] < Una(n, sock[n]),
         written'[n] = written[n] \/ (written[n] <= written'[n] /\ sock[n].state \in Opened),
         Tasks(n, t, There(n))
  PROVE  Local(n, t, There(n))
<1> DEFINE e == Here(n)
           f == There(n)
           s == sock[n]
<1>1. Local(n, s, e) /\ e.c = call[n] /\ e.w = written[n]
  BY PairIs, HereIs
<1>2. InCall(f, e, call'[n], confirmed'[n], written'[n])
  BY ThereIs
<1> HIDE DEF e, f
<1>3. s.state \in Opened => Stage(e.c, s) = 2 /\ ~FinSent(n, e.c, s)
  <2>1. s.state \in Opened => Stage(e.c, s) = 2 /\ Nxt(n, s) = s.buf + 1
    BY <1>1 DEF Local, Sending, Stage, Opened
  <2>2. s.buf \in Nat
    BY <1>1, SoundIs DEF Local
  <2>3. s.buf + 1 # s.buf + 2
    BY <2>2
  <2> QED BY <2>1, <2>3 DEF FinSent
<1>4. e.c # "new" /\ call'[n] # "new"
  BY <1>1
<1>5. written'[n] = e.w \/ (e.w <= written'[n] /\ Stage(e.c, s) = 2 /\ ~FinSent(n, e.c, s))
  BY <1>1, <1>3
<1> DEFINE c == call'[n]
           k == confirmed'[n]
           w == written'[n]
<1>6. /\ SameNumbers(s, t) /\ SameStream(s, t) /\ t.history = s.history /\ t.out = s.out
      /\ t.FIN_received = s.FIN_received /\ t.FIN_seqnum = s.FIN_seqnum
  BY DEF Calm
<1>7. /\ k \in Nat /\ w \in 0 .. ToWrite[n] /\ k <= w /\ (k = 0 \/ k < Una(n, s))
      /\ InCall(f, e, c, k, w) /\ Tasks(n, t, f) /\ c # "new"
      /\ w = e.w \/ (e.w <= w /\ Stage(e.c, s) = 2 /\ ~FinSent(n, e.c, s))
  BY <1>2, <1>5 DEF f
<1> HIDE DEF s, c, k, w
<1>8. Local(n, t, f)
  BY <1>1, <1>4, <1>6, <1>7, CallLocal
<1> QED BY <1>8 DEF f

\* A step of node n that changes the call, and then moves its socket.
LEMMA CallKeepsGInv ==
  ASSUME GInv, Typed', NEW n \in Node, NEW t, Calm(sock[n], t), call[n] # "new", call'[n] # "new",
         NEW r, Moves(n, There(n), t, r), sock'[n] = [r EXCEPT !.out = {}],
         sock'[Peer(n)] = sock[Peer(n)], call'[Peer(n)] = call[Peer(n)],
         written'[Peer(n)] = written[Peer(n)], confirmed'[Peer(n)] = confirmed[Peer(n)],
         Queue(n)' \subseteq Queue(n), Queue(Peer(n))' \subseteq Queue(Peer(n)) \cup r.out,
         written'[n] = written[n] \/ sock[n].state \in Opened
  PROVE  GInv'
<1> DEFINE e == Here(n)
           f == There(n)
           s == sock[n]
<1>1. Local(n, s, e) /\ e.c = call[n]
  BY PairIs, HereIs
<1>2. InCall(f, e, call'[n], confirmed'[n], written'[n]) /\ f.c = call'[n]
  BY ThereIs
<1>3. Local(n, r, f) /\ Grows(f, n, t, r)
  BY DEF Moves
<1> HIDE DEF e, f
<1>4. /\ t.buf = s.buf /\ Stage(call[n], s) = Stage(f.c, t)
      /\ FinSent(n, call[n], s) = FinSent(n, f.c, t)
  BY <1>2 DEF Calm, SameNumbers, Stage, FinSent, Nxt
<1>5. Acks(s, f.ends, f.v, f.fin) = Acks(t, f.ends, f.v, f.fin)
  BY DEF Calm, SameStream, Acks, Got
<1>6. s.state \in Opened => ~FinSent(n, call[n], s)
  <2>1. s.state \in Opened => Nxt(n, s) = s.buf + 1
    BY <1>1 DEF Local, Sending
  <2>2. s.buf \in Nat
    BY <1>1, SoundIs DEF Local
  <2>3. s.buf + 1 # s.buf + 2
    BY <2>2
  <2> QED BY <2>1, <2>3 DEF FinSent
<1>7. /\ s.buf <= r.buf /\ Stage(call[n], s) <= Stage(call'[n], r)
      /\ FinSent(n, call[n], s) => FinSent(n, call'[n], r) /\ written'[n] = written[n]
      /\ Acks(s, f.ends, f.v, f.fin) \subseteq Acks(r, f.ends, f.v, f.fin)
  BY <1>2, <1>3, <1>4, <1>5, <1>6 DEF Grows
<1> QED BY <1>2, <1>3, <1>7, StepKeepsGInv DEF e

\* The other fields of the node that steps, and those of its peer.
LEMMA CallFields ==
  ASSUME IInv, NEW n \in Node, NEW c, call' = [call EXCEPT ![n] = c]
  PROVE  call'[n] = c /\ call'[Peer(n)] = call[Peer(n)]
<1>1. call \in [Node -> Calls] /\ Peer(n) \in Node /\ Peer(n) # n
  BY NodeFacts DEF IInv
<1> QED BY <1>1

\* What an idle application knows of its socket.
LEMMA IdleIs ==
  ASSUME GInv, NEW n \in Node, call[n] = "idle"
  PROVE  /\ Local(n, sock[n], Here(n)) /\ sock[n] \in AnySocket /\ Holds(sock[n], COUNT)
         /\ sock[n].state \in Opened =>
              /\ sock[n].buf = written[n] /\ ~sock[n].waiting /\ ~sock[n].receiving
         /\ sock[n].state \notin Opening
         /\ written[n] \in 0 .. ToWrite[n] /\ confirmed[n] \in Nat /\ confirmed[n] <= written[n]
         /\ confirmed[n] = 0 \/ confirmed[n] < Una(n, sock[n])
<1>1. /\ Local(n, sock[n], Here(n)) /\ sock[n] \in AnySocket /\ Holds(sock[n], COUNT)
      /\ Here(n).c = call[n] /\ Here(n).w = written[n] /\ Here(n).k = confirmed[n]
  BY PairIs, HereIs
<1>2. Phase(call[n], sock[n])
  BY DEF GInv, Typed, IInv
<1>3. sock[n].state \notin Opening
  BY <1>2 DEF Phase, Opening, Opened, Ending
<1> QED BY <1>1, <1>3 DEF Local, Tasks, ViewOK, Sending

\* A call that notes what the application asked for.
LEMMA RequestKeepsGInv ==
  ASSUME GInv, Typed', NEW n \in Node, call[n] = "idle", sock[n].state \in Opened,
         NEW c, c # "new", call' = [call EXCEPT ![n] = c],
         NEW r, Become(n, r), Sound(r), Calm(sock[n], r),
         written'[n] \in 0 .. ToWrite[n], written[n] <= written'[n], confirmed' = confirmed,
         written'[Peer(n)] = written[Peer(n)], Tasks(n, r, There(n))
  PROVE  GInv'
<1>1. /\ confirmed[n] \in Nat /\ confirmed[n] <= written[n]
      /\ confirmed[n] = 0 \/ confirmed[n] < Una(n, sock[n])
      /\ written[n] \in Nat
  BY IdleIs, NodeFacts
<1>2. IInv
  BY DEF GInv, Typed
<1>3. call'[n] = c /\ call'[Peer(n)] = call[Peer(n)]
  BY <1>2, CallFields
<1>4. confirmed'[n] <= written'[n]
  <2>1. written'[n] \in Nat
    BY DEF Typed
  <2> QED BY <1>1, <2>1
<1>5. Local(n, r, There(n))
  BY <1>1, <1>3, <1>4, CallBegins
<1>6. Moves(n, There(n), r, r)
  BY <1>5, GrowsSelf
<1>7. Range(r.packetbuffer) \subseteq Range(sock[n].packetbuffer)
  BY DEF Calm
<1>8. /\ sock'[n] = [r EXCEPT !.out = {}] /\ sock'[Peer(n)] = sock[Peer(n)]
      /\ Queue(n)' \subseteq Queue(n) /\ Queue(Peer(n))' \subseteq Queue(Peer(n)) \cup r.out
  BY <1>2, <1>7, BecomeQueues
<1> QED BY <1>3, <1>6, <1>8, CallKeepsGInv

LEMMA WriteKeepsGInv ==
  ASSUME GInv, Typed', NEW n \in Node, NEW len \in Nat, write(n, len) PROVE GInv'
<1> DEFINE s == sock[n]
           r == [s EXCEPT !.buflen = len, !.waiting = TRUE]
<1>1. /\ call[n] = "idle" /\ s.state \in Opened /\ written[n] + len <= ToWrite[n]
      /\ call' = [call EXCEPT ![n] = "write"] /\ Become(n, r)
      /\ written' = [written EXCEPT ![n] = @ + len] /\ confirmed' = confirmed
  BY DEF write, Open, Opened
<1>2. /\ s \in AnySocket /\ Holds(s, COUNT) /\ s.buf = written[n] /\ ~s.receiving
      /\ written[n] \in Nat /\ ToWrite[n] \in Nat
  BY <1>1, IdleIs, NodeFacts
<1>3. Sound(r)
  <2>1. Holds(r, COUNT)
    BY <1>2, SameHolds DEF AnySocket
  <2> QED BY <2>1, HoldsSound
<1>4. /\ Calm(s, r) /\ r.buflen = len /\ r.waiting /\ r.receiving = s.receiving
      /\ r.buf = s.buf /\ r.state = s.state
  BY <1>2 DEF Calm, SameNumbers, SameStream, AnySocket
<1>5. written'[n] = written[n] + len /\ written'[Peer(n)] = written[Peer(n)] /\ call'[n] = "write"
  <2>1. written \in [Node -> Nat] /\ Peer(n) # n /\ Peer(n) \in Node /\ IInv
    BY NodeFacts DEF GInv, Typed
  <2> QED BY <1>1, <2>1, CallFields
<1>6. written'[n] \in 0 .. ToWrite[n] /\ written[n] <= written'[n]
  BY <1>1, <1>2, <1>5
<1>7. There(n).c = "write" /\ There(n).w = written'[n]
  BY <1>5, ThereIs
<1> HIDE DEF r
<1>8. Tasks(n, r, There(n))
  <2> DEFINE f == There(n)
  <2> HIDE DEF f
  <2>1. r.buf + r.buflen = f.w
    BY <1>2, <1>4, <1>5, <1>7 DEF f
  <2> QED BY <1>1, <1>2, <1>4, <1>7, <2>1 DEF Tasks, Opened, Opening, f
<1> QED BY <1>1, <1>3, <1>4, <1>5, <1>6, <1>8, RequestKeepsGInv

LEMMA ReceiveKeepsGInv ==
  ASSUME GInv, Typed', NEW n \in Node, NEW len \in Nat, receive(n, len) PROVE GInv'
<1> DEFINE s == sock[n]
           r == [s EXCEPT !.buflen = len, !.recv_len = 0, !.receiving = TRUE, !.waiting = TRUE]
<1>1. /\ call[n] = "idle" /\ s.state \in Opened
      /\ call' = [call EXCEPT ![n] = "receive"] /\ Become(n, r)
      /\ written' = written /\ confirmed' = confirmed
  BY DEF receive, Open, Opened, ghosts
<1>2. /\ s \in AnySocket /\ Holds(s, COUNT) /\ s.buf = written[n] /\ written[n] \in 0 .. ToWrite[n]
      /\ written[n] \in Nat
  BY <1>1, IdleIs, NodeFacts
<1>3. Sound(r)
  <2>1. Holds(r, COUNT)
    BY <1>2, SameHolds DEF AnySocket
  <2> QED BY <2>1, HoldsSound
<1>4. Calm(s, r) /\ r.waiting /\ r.receiving /\ r.buf = s.buf /\ r.state = s.state
  BY <1>2 DEF Calm, SameNumbers, SameStream, AnySocket
<1>5. call'[n] = "receive"
  BY <1>1, CallFields DEF GInv, Typed
<1>6. There(n).c = "receive" /\ There(n).w = written[n]
  BY <1>1, <1>5, ThereIs
<1> HIDE DEF r
<1>7. Tasks(n, r, There(n))
  BY <1>1, <1>2, <1>4, <1>6 DEF Tasks, Opened, Opening
<1>8. written[n] <= written'[n]
  BY <1>1, <1>2
<1> QED BY <1>1, <1>2, <1>3, <1>4, <1>7, <1>8, RequestKeepsGInv

\* A call that begins or ends and leaves the socket as it is.
LEMMA StillKeepsGInv ==
  ASSUME GInv, Typed', NEW n \in Node, sock' = sock, net' = net, call[n] # "new",
         NEW c, c # "new", call' = [call EXCEPT ![n] = c], written' = written,
         confirmed'[Peer(n)] = confirmed[Peer(n)], confirmed'[n] <= written[n],
         confirmed'[n] = 0 \/ confirmed'[n] < Una(n, sock[n]), Tasks(n, sock[n], There(n))
  PROVE  GInv'
<1> DEFINE s == sock[n]
<1>1. Local(n, s, Here(n)) /\ s \in AnySocket /\ s.out = {} /\ Here(n).w = written[n]
  BY PairIs, HereIs
<1>2. Sound(s) /\ Calm(s, s) /\ s = [s EXCEPT !.out = {}] /\ written[n] \in 0 .. ToWrite[n]
  BY <1>1 DEF Local, Calm, SameNumbers, SameStream, AnySocket, ViewOK
<1>3. call'[n] = c /\ call'[Peer(n)] = call[Peer(n)] /\ confirmed'[n] \in Nat
  BY CallFields DEF GInv, Typed
<1>4. Local(n, s, There(n))
  BY <1>2, <1>3, CallBegins
<1>5. Moves(n, There(n), s, s)
  BY <1>4, GrowsSelf
<1>6. Queue(n)' \subseteq Queue(n) /\ Queue(Peer(n))' \subseteq Queue(Peer(n)) \cup s.out
  BY DEF Queue
<1> QED BY <1>2, <1>3, <1>5, <1>6, CallKeepsGInv

LEMMA PollKeepsGInv == ASSUME GInv, Typed', NEW n \in Node, poll(n) PROVE GInv'
<1> DEFINE s == sock[n]
<1>1. /\ call[n] = "idle" /\ s.state \in Opened /\ call' = [call EXCEPT ![n] = "poll"]
      /\ sock' = sock /\ net' = net /\ written' = written /\ confirmed' = confirmed
  BY DEF poll, Open, Opened, ghosts
<1>2. /\ s.buf = written[n] /\ ~s.waiting /\ ~s.receiving /\ confirmed[n] <= written[n]
      /\ confirmed[n] = 0 \/ confirmed[n] < Una(n, s)
  BY <1>1, IdleIs
<1>3. call'[n] = "poll"
  BY <1>1, CallFields DEF GInv, Typed
<1>4. There(n).c = "poll" /\ There(n).w = written[n]
  BY <1>1, <1>3, ThereIs
<1>5. Tasks(n, s, There(n))
  BY <1>1, <1>2, <1>4 DEF Tasks, Opened, Opening
<1> QED BY <1>1, <1>2, <1>5, StillKeepsGInv

\* A write() that returns on an open connection: all of it is acknowledged.
LEMMA ReturnKeepsGInv == ASSUME GInv, Typed', NEW n \in Node, Return(n) PROVE GInv'
<1> DEFINE s == sock[n]
           e == Here(n)
           c == IF s.state = "CLOSED" THEN "done" ELSE "idle"
           k == IF call[n] = "write" /\ Open(n) THEN written[n] ELSE confirmed[n]
<1>1. /\ call[n] \in Blocking /\ ~s.waiting /\ call' = [call EXCEPT ![n] = c]
      /\ confirmed' = [confirmed EXCEPT ![n] = k]
      /\ sock' = sock /\ net' = net /\ written' = written
  BY DEF Return
<1>2. /\ Local(n, s, e) /\ e.c = call[n] /\ e.w = written[n] /\ e.k = confirmed[n]
  BY PairIs, HereIs
<1>3. Phase(call[n], s) /\ Waits(s)
  BY DEF GInv, Typed, IInv
<1>4. s.state \in Opened \cup Ending \cup {"CLOSED"} /\ s.state \notin Opening
  BY <1>1, <1>3 DEF Phase, Waits, Blocking, Opening, Opened, Ending
<1>5. /\ s.buf \in Nat /\ written[n] \in Nat /\ Una(n, s) \in Nat /\ s.buf <= written[n]
      /\ call[n] # "new" /\ Una(n, s) <= Nxt(n, s)
  <2>1. e.c # "new"
    BY <1>1, <1>2 DEF Blocking
  <2> QED BY <1>2, <2>1, NumbersIs
<1>6. ASSUME s.state \in Opened
      PROVE  s.buf = written[n] /\ ~s.receiving /\ (call[n] = "write" => Una(n, s) = 1 + written[n])
  <2>1. Tasks(n, s, e) /\ Nxt(n, s) = s.buf + 1
    BY <1>2, <1>6 DEF Local, Sending
  <2>2. ~s.receiving
    BY <1>1, <1>6, <2>1 DEF Tasks
  <2>3. CASE call[n] = "write"
    <3>1. Una(n, s) = 1 + written[n]
      BY <1>1, <1>2, <1>6, <2>1, <2>3 DEF Tasks
    <3>2. written[n] <= s.buf
      BY <1>5, <2>1, <3>1
    <3>3. s.buf = written[n]
      BY <1>5, <3>2
    <3> QED BY <2>2, <3>1, <3>3
  <2>4. CASE call[n] # "write"
    BY <1>2, <1>6, <2>1, <2>2, <2>4 DEF Tasks
  <2> QED BY <2>3, <2>4
<1>7. confirmed'[n] = k /\ confirmed'[Peer(n)] = confirmed[Peer(n)] /\ call'[n] = c /\ c # "new"
  <2>1. confirmed \in [Node -> Nat] /\ Peer(n) # n /\ Peer(n) \in Node /\ IInv
    BY NodeFacts DEF GInv, Typed
  <2> HIDE DEF k
  <2> QED BY <1>1, <2>1, CallFields
<1>8. k <= written[n] /\ (k = 0 \/ k < Una(n, s))
  <2>1. confirmed[n] <= written[n] /\ (confirmed[n] = 0 \/ confirmed[n] < Una(n, s))
    BY <1>2 DEF Local, Sending
  <2>2. CASE call[n] = "write" /\ Open(n)
    <3>1. Una(n, s) = 1 + written[n] /\ k = written[n]
      BY <1>6, <2>2 DEF Open, Opened
    <3> QED BY <1>5, <3>1
  <2>3. CASE ~(call[n] = "write" /\ Open(n))
    BY <2>1, <2>3
  <2> QED BY <2>2, <2>3
<1>9. There(n).c = c /\ There(n).w = written[n]
  BY <1>1, <1>7, ThereIs
<1> HIDE DEF k, e
<1>10. Tasks(n, s, There(n))
  BY <1>1, <1>4, <1>6, <1>9 DEF Tasks, Opened, Opening
<1> HIDE DEF c
<1> QED BY <1>1, <1>5, <1>7, <1>8, <1>10, StillKeepsGInv

-----------------------------------------------------------------------------
(* close() sends the FIN.                                                   *)

LEMMA FinMoves ==
  ASSUME NEW n \in Node, NEW e, NEW s, Local(n, s, e), e.c = "close", s.state \in Opened,
         NEW env, requestSendBufferTCP(s, env), NEW st,
         st = IF s.state = "CLOSEWAIT" THEN "LASTACK" ELSE "FINWAIT1"
  PROVE  LET fin == writeHeaderWithAck(s, {"FIN"}, getAckNum(s.receiveBuffer))
         IN  Moves(n, e, s, [Transmit(s, env, fin, TRUE) EXCEPT
                               !.seqnum_next = SeqAdd(@, 1), !.waiting = TRUE, !.state = st])
<1> DEFINE ack == getAckNum(s.receiveBuffer)
           fin == writeHeaderWithAck(s, {"FIN"}, ack)
           t == Transmit(s, env, fin, TRUE)
           r == [t EXCEPT !.seqnum_next = SeqAdd(@, 1), !.waiting = TRUE, !.state = st]
<1>1. /\ s \in AnySocket /\ Sound(s) /\ s.state \notin {"CLOSED"} \cup Opening
      /\ s.buf \in Nat /\ s.seqnum_next \in SeqNum
  BY SoundIs DEF Local, Opened, Opening
<1>2. e.c # "new" /\ Stage(e.c, s) = 2 /\ ~Unsynchronised(e.c, s)
  BY <1>1, StageIs DEF Unsynchronised, Opening
<1>3. Sound(r)
  <2>1. \E k : Holds(s, k)
    BY <1>1 DEF Sound
  <2>2. st \in States
    BY DEF States
  <2> QED BY <2>1, <2>2, FinHolds DEF Sound
<1>4. ack \in SeqNum /\ Pos(Peer(n), ack) \in Acks(s, e.ends, e.v, e.fin)
  BY <1>2, StreamIs
<1> HIDE DEF ack
<1>5. fin \in AnySegment
  <2>1. {"FIN"} \in SUBSET Flags
    BY DEF Flags
  <2> QED BY <1>1, <1>4, <2>1, HeaderType
<1>6. fin.flags = {"FIN", "ACK"} /\ fin.len = 0 /\ fin.seq = s.seqnum_next /\ fin.ack = ack
  BY DEF writeHeaderWithAck, Segment
<1> HIDE DEF fin
<1>7. Sound(t) /\ Sends(s, t, {fin}) /\ fin \in Timed(t)
  BY <1>1, <1>5, TransmitSends
<1> HIDE DEF t
<1>8. /\ t \in AnySocket /\ t.state = s.state /\ t.receiving = s.receiving
      /\ t.FIN_received = s.FIN_received /\ t.buflen = s.buflen /\ t.buf = s.buf
      /\ t.FIN_seqnum = s.FIN_seqnum /\ t.seqnum_next = s.seqnum_next
      /\ t.seqnum_unacked = s.seqnum_unacked /\ t.read = s.read
      /\ t.receiveBuffer = s.receiveBuffer /\ t.packetbuffer = s.packetbuffer
  BY <1>1, <1>7, SendsSame, SoundIs
<1>9. /\ r.state = st /\ r.waiting /\ r.receiving = s.receiving
      /\ r.FIN_received = s.FIN_received /\ r.buflen = s.buflen /\ r.buf = s.buf
      /\ r.FIN_seqnum = s.FIN_seqnum /\ r.seqnum_next = SeqAdd(s.seqnum_next, 1)
      /\ r.seqnum_unacked = s.seqnum_unacked /\ r.read = s.read
      /\ r.receiveBuffer = s.receiveBuffer /\ r.packetbuffer = s.packetbuffer
      /\ r.history = t.history /\ r.out = t.out
  BY <1>8 DEF AnySocket
<1> HIDE DEF r
<1>10. /\ Sending(n, s, e) /\ Tasks(n, s, e) /\ Receiving(n, s, e) /\ Finishing(n, s, e)
       /\ Handshake(n, s, e) /\ ViewOK(n, e) /\ Sent(n, s, e) /\ Uncut(n, s, e)
  BY DEF Local
<1>11. /\ Una(n, s) \in Nat /\ Nxt(n, s) = s.buf + 1 /\ s.buf = e.w /\ Una(n, s) <= s.buf + 1
       /\ e.w \in Nat /\ e.w + 2 < SEQMOD \div 2 /\ SEQMOD \div 2 \in Nat /\ Una(n, s) >= 1
  BY <1>2, <1>10, NumbersIs, NodeFacts DEF Sending, Tasks
<1>12. Una(n, r) = Una(n, s) /\ Nxt(n, r) = s.buf + 2
  <2>1. Nxt(n, s) + 1 < SEQMOD \div 2
    BY <1>1, <1>11
  <2>2. Pos(n, SeqAdd(s.seqnum_next, 1)) = Nxt(n, s) + 1
    BY <1>1, <2>1, PosAdd DEF Nxt
  <2>3. Una(n, r) = Una(n, s) /\ Nxt(n, r) = Nxt(n, s) + 1
    BY <1>9, <2>2 DEF Una, Nxt
  <2> QED BY <1>1, <1>11, <2>3
<1>13. Segs(r) \subseteq Segs(s) \cup {fin} /\ Timed(r) = Timed(t) /\ fin \in Timed(r)
  BY <1>7, <1>9, SameSegs DEF Sends
<1>14. /\ st \in Ending /\ st # "CLOSED" /\ st \notin Opening /\ st \notin Opened
       /\ st \notin {"LISTEN", "SYNSENT", "SYNRCVD", "FINWAIT2", "TIMEWAIT"}
       /\ st \in AtEnd <=> s.state \in AtEnd
  BY DEF Ending, Opening, Opened, AtEnd
<1>15. Stage(e.c, r) = 2 /\ FinSent(n, e.c, r) /\ ~FinSent(n, e.c, s)
  <2>1. Stage(e.c, r) = 2
    BY <1>2, <1>9, <1>14 DEF Stage
  <2>2. Nxt(n, r) = r.buf + 2 /\ Nxt(n, s) # s.buf + 2
    BY <1>1, <1>9, <1>11, <1>12
  <2> QED BY <2>1, <2>2 DEF FinSent
<1>16. Acks(r, e.ends, e.v, e.fin) = Acks(s, e.ends, e.v, e.fin) /\ Got(r) = Got(s)
  <2>1. Got(r) = Got(s)
    BY <1>9 DEF Got
  <2>2. r.state \in AtEnd \cup {"CLOSED"} <=> s.state \in AtEnd \cup {"CLOSED"}
    BY <1>1, <1>9, <1>14
  <2> QED BY <2>1, <2>2 DEF Acks
<1>17. Sending(n, r, e)
  <2>1. /\ Una(n, s) = 0 \/ Una(n, s) \in e.acks
        /\ e.k <= e.w /\ (e.k = 0 \/ e.k < Una(n, s))
    BY <1>2, <1>10 DEF Sending
  <2>2. ~(2 < 2) /\ 2 # 1
    OBVIOUS
  <2>3. Una(n, r) <= Nxt(n, r) /\ Una(n, r) >= 1 /\ r.buf <= e.w /\ r.buf = e.w
    BY <1>9, <1>11, <1>12
  <2>4. r.state # "LISTEN" /\ r.state \notin Opened
    BY <1>9, <1>14
  <2> QED BY <1>9, <1>12, <1>15, <2>1, <2>2, <2>3, <2>4 DEF Sending
<1>18. Tasks(n, r, e)
  BY <1>9, <1>14 DEF Tasks
<1>19. Receiving(n, r, e) /\ Finishing(n, r, e)
  <2>1. ~Unsynchronised(e.c, r)
    BY <1>2, <1>9, <1>14 DEF Unsynchronised
  <2> QED BY <1>2, <1>9, <1>10, <1>14, <1>16, <2>1 DEF Receiving, Finishing
<1>20. Handshake(n, r, e)
  BY <1>2, <1>10, <1>15, SameHandshake
<1>21. Covered(n, r, e)
  <2>1. SameNumbers(s, t)
    BY <1>8 DEF SameNumbers
  <2>2. \A g \in Timed(s) : g \in Timed(t) \/ SEQ_LT(g.seq, s.seqnum_unacked)
    BY <1>7 DEF Sends
  <2>3. Covered(n, t, e)
    BY <2>1, <2>2, StillCovered
  <2>4. \A k \in 0 .. s.buf - 1 : k + 1 < Una(n, s) \/ \E g \in Timed(r) : g.data <= k /\ k < End(g)
    BY <1>8, <1>13, <2>3 DEF Covered, Una
  <2>5. has(fin, "FIN")
    BY <1>6 DEF has
  <2> QED BY <1>9, <1>12, <1>13, <1>14, <2>4, <2>5 DEF Covered
<1>22. SegOK(n, fin, 2, e.w, TRUE, Acks(r, e.ends, e.v, e.fin))
  <2>1. fin.flags \subseteq {"ACK", "PSH", "FIN"} /\ has(fin, "ACK") /\ ~(fin.len > 0)
    BY <1>6 DEF has
  <2>2. fin.seq = At(n, 1 + e.w)
    <3>1. s.seqnum_next = At(n, Nxt(n, s))
      BY <1>1, PosIs DEF Nxt
    <3>2. Nxt(n, s) = 1 + e.w
      BY <1>1, <1>11
    <3> QED BY <1>6, <3>1, <3>2
  <2> QED BY <1>4, <1>6, <1>16, <2>1, <2>2 DEF SegOK
<1>23. FinSent(n, e.c, r) = TRUE
  BY <1>15 DEF FinSent
<1>24. Empty(n, r, e, fin)
  BY <1>5, <1>6, <1>15, <1>22, <1>23 DEF Empty
<1>25. ASSUME NEW g \in e.flight \cup Segs(s)
       PROVE  SegOK(n, g, Stage(e.c, r), e.w, FinSent(n, e.c, r), Acks(r, e.ends, e.v, e.fin))
  <2>1. SegOK(n, g, Stage(e.c, s), e.w, FinSent(n, e.c, s), Acks(s, e.ends, e.v, e.fin))
    BY <1>10 DEF Sent
  <2>2. Stage(e.c, s) \in 0 .. 2 /\ Stage(e.c, r) \in 0 .. 2 /\ Stage(e.c, s) <= Stage(e.c, r)
    BY <1>2, <1>15
  <2>3. Acks(s, e.ends, e.v, e.fin) \subseteq Acks(r, e.ends, e.v, e.fin)
    BY <1>16
  <2> QED BY <1>23, <2>1, <2>2, <2>3, SegOKLater
<1>26. Sent(n, r, e) /\ Uncut(n, r, e)
  <2>1. Segs(s) \subseteq AnySegment /\ e.flight \subseteq AnySegment
    BY <1>1, <1>10, SegsType DEF ViewOK
  <2>2. \A k \in e.cuts : k < Nxt(n, r)
    <3> TAKE k \in e.cuts
    <3>1. k \in Nat /\ k < Nxt(n, s)
      BY <1>10 DEF Uncut, ViewOK
    <3> QED BY <1>1, <1>11, <1>12, <3>1
  <2>3. s.buf <= r.buf /\ r.buf \in Nat
    BY <1>1, <1>9
  <2>4. \A g \in {fin} : Empty(n, r, e, g)
    BY <1>24
  <2> QED BY <1>1, <1>10, <1>13, <1>25, <2>1, <2>2, <2>3, <2>4, EmptySent
<1>27. Grows(e, n, s, r)
  <2>1. Stage(e.c, s) <= Stage(e.c, r) /\ s.buf <= r.buf
    BY <1>1, <1>2, <1>9, <1>15
  <2> QED BY <1>9, <1>15, <1>16, <2>1 DEF Grows
<1>28. Moves(n, e, s, r)
  BY <1>3, <1>10, <1>17, <1>18, <1>19, <1>20, <1>21, <1>26, <1>27 DEF Moves, Local
<1> QED BY <1>28 DEF r, t, fin, ack

\* The call of an idle application becomes c, or that of poll() ends.
LEMMA CallTurns ==
  ASSUME GInv, Typed', NEW n \in Node, call[n] \in {"idle", "poll"},
         NEW c \in {"idle", "done", "close"}, call' = [call EXCEPT ![n] = c],
         written' = written, confirmed' = confirmed
  PROVE  /\ Local(n, sock[n], There(n)) /\ Calm(sock[n], sock[n]) /\ Sound(sock[n])
         /\ sock[n] \in AnySocket /\ sock[n] = [sock[n] EXCEPT !.out = {}]
         /\ There(n).c = c /\ call'[n] = c /\ call'[Peer(n)] = call[Peer(n)]
         /\ call[n] = "poll" => sock[n].state \in Opened
<1> DEFINE s == sock[n]
           e == Here(n)
<1>1. /\ Local(n, s, e) /\ e.c = call[n] /\ e.w = written[n] /\ e.k = confirmed[n]
      /\ s \in AnySocket /\ s.out = {}
  BY PairIs, HereIs
<1>2. Sound(s) /\ Calm(s, s) /\ s = [s EXCEPT !.out = {}]
  BY <1>1 DEF Local, Calm, SameNumbers, SameStream, AnySocket
<1>3. call'[n] = c /\ call'[Peer(n)] = call[Peer(n)] /\ confirmed'[n] \in Nat
  BY CallFields DEF GInv, Typed
<1>4. There(n).c = c /\ There(n).w = written[n]
  BY <1>3, ThereIs
<1>5. s.state \notin Opening
  <2>1. Phase(call[n], s)
    BY DEF GInv, Typed, IInv
  <2> QED BY <2>1 DEF Phase, Opening, Opened, Ending
<1>6. /\ written[n] \in 0 .. ToWrite[n] /\ confirmed[n] <= written[n]
      /\ confirmed[n] = 0 \/ confirmed[n] < Una(n, s)
  BY <1>1 DEF Local, ViewOK, Sending
<1>7. Tasks(n, s, e)
  BY <1>1 DEF Local
<1>8. s.state \in Opened => s.buf = written[n] /\ ~s.waiting /\ ~s.receiving
  BY <1>1, <1>7 DEF Tasks
<1>9. call[n] = "poll" => s.state \in Opened
  BY <1>1, <1>7 DEF Tasks
<1>10. Tasks(n, s, There(n))
  BY <1>4, <1>5, <1>8 DEF Tasks, Opening
<1>11. Local(n, s, There(n))
  BY <1>2, <1>3, <1>6, <1>10, CallBegins
<1> QED BY <1>1, <1>2, <1>3, <1>4, <1>9, <1>11

\* The call has changed; what then happens to the socket is a move.
LEMMA TurnKeepsGInv ==
  ASSUME GInv, Typed', NEW n \in Node, call[n] \in {"idle", "poll"},
         NEW c \in {"idle", "done", "close"}, call' = [call EXCEPT ![n] = c],
         written' = written, confirmed' = confirmed,
         NEW r, Become(n, r), Moves(n, There(n), sock[n], r)
  PROVE  GInv'
<1>1. /\ Calm(sock[n], sock[n]) /\ call'[n] = c /\ call'[Peer(n)] = call[Peer(n)]
      /\ Sound(r) /\ r.packetbuffer \in {sock[n].packetbuffer, <<>>}
  BY CallTurns DEF Moves, Local, Grows
<1>2. Range(r.packetbuffer) \subseteq Range(sock[n].packetbuffer)
  BY <1>1 DEF Range
<1>3. /\ sock'[n] = [r EXCEPT !.out = {}] /\ sock'[Peer(n)] = sock[Peer(n)]
      /\ Queue(n)' \subseteq Queue(n) /\ Queue(Peer(n))' \subseteq Queue(Peer(n)) \cup r.out
  BY <1>1, <1>2, BecomeQueues DEF GInv, Typed
<1> QED BY <1>1, <1>3, CallKeepsGInv

LEMMA CloseKeepsGInv == ASSUME GInv, Typed', NEW n \in Node, close(n) PROVE GInv'
<1> DEFINE s == sock[n]
           f == There(n)
           st == IF s.state = "CLOSEWAIT" THEN "LASTACK" ELSE "FINWAIT1"
           fin == writeHeaderWithAck(s, {"FIN"}, getAckNum(s.receiveBuffer))
<1>1. /\ call[n] = "idle" /\ call' = [call EXCEPT ![n] = "close"]
      /\ written' = written /\ confirmed' = confirmed
  BY DEF close, ghosts
<1>2. PICK env \in Env(s) :
         IF Open(n) /\ requestSendBufferTCP(s, env)
         THEN Become(n, [Transmit(s, env, fin, TRUE) EXCEPT
                           !.seqnum_next = SeqAdd(@, 1), !.waiting = TRUE, !.state = st])
         ELSE IF Open(n) THEN Become(n, Reclaim(s, env))
                         ELSE UNCHANGED <<sock, net>>
  BY DEF close
<1>3. /\ Local(n, s, f) /\ Sound(s) /\ f.c = "close" /\ Calm(s, s) /\ call'[Peer(n)] = call[Peer(n)]
      /\ s = [s EXCEPT !.out = {}] /\ call'[n] = "close"
  BY <1>1, CallTurns
<1>4. Open(n) <=> s.state \in Opened
  BY DEF Open, Opened
<1> HIDE DEF f
<1>5. CASE Open(n) /\ requestSendBufferTCP(s, env)
  <2> DEFINE r == [Transmit(s, env, fin, TRUE) EXCEPT
                     !.seqnum_next = SeqAdd(@, 1), !.waiting = TRUE, !.state = st]
  <2>1. Become(n, r)
    BY <1>2, <1>5
  <2>2. Moves(n, f, s, r)
    <3> HIDE DEF s
    <3> QED BY <1>3, <1>4, <1>5, FinMoves
  <2> HIDE DEF r
  <2> QED BY <1>1, <2>1, <2>2, TurnKeepsGInv DEF f
<1>6. CASE Open(n) /\ ~requestSendBufferTCP(s, env)
  <2> DEFINE r == Reclaim(s, env)
  <2>1. Become(n, r)
    BY <1>2, <1>6
  <2>2. s.state # "CLOSED"
    BY <1>4, <1>6 DEF Opened
  <2>3. Sound(r) /\ Sends(s, r, {})
    BY <1>3, <2>2, ReclaimSends
  <2> HIDE DEF r, s
  <2>4. \A g \in {} : Empty(n, s, f, g)
    OBVIOUS
  <2>5. Moves(n, f, s, r)
    BY <1>3, <2>3, <2>4, SendsMoves
  <2> QED BY <1>1, <2>1, <2>5, TurnKeepsGInv DEF f, s
<1>7. CASE ~Open(n)
  <2>1. sock' = sock /\ net' = net
    BY <1>2, <1>7
  <2>2. Moves(n, f, s, s)
    BY <1>3, GrowsSelf
  <2>3. Queue(n)' \subseteq Queue(n) /\ Queue(Peer(n))' \subseteq Queue(Peer(n)) \cup s.out
    BY <2>1 DEF Queue
  <2> QED BY <1>1, <1>3, <2>1, <2>2, <2>3, CallKeepsGInv DEF f
<1> QED BY <1>5, <1>6, <1>7

LEMMA PollEndKeepsGInv == ASSUME GInv, Typed', NEW n \in Node, pollEnd(n) PROVE GInv'
<1> DEFINE s == sock[n]
           f == There(n)
           c == IF sock'[n].state = "CLOSED" THEN "done" ELSE "idle"
<1>1. /\ call[n] = "poll" /\ call' = [call EXCEPT ![n] = c]
      /\ written' = written /\ confirmed' = confirmed
  BY DEF pollEnd, ghosts
<1>2. PICK env \in Env(s) : Become(n, processACK(updateHistory(s, TRUE, env), env))
  BY DEF pollEnd
<1> DEFINE u == updateHistory(s, TRUE, env)
           r == processACK(u, env)
<1>3. c \in {"idle", "done", "close"}
  OBVIOUS
<1> HIDE DEF c
<1>4. /\ Local(n, s, f) /\ Sound(s) /\ f.c = c /\ s.state \in Opened
  BY <1>1, <1>3, CallTurns
<1>5. Quiet(f.c) /\ s.state \notin Opening \cup {"CLOSED"}
  <2>1. c # "close"
    BY DEF c
  <2> QED BY <1>3, <1>4 DEF Quiet, Opened, Opening
<1> HIDE DEF f, s
<1>6. /\ Moves(n, f, s, u) /\ Local(n, u, f) /\ Stage(f.c, u) = 2
      /\ \/ u.state = s.state
         \/ u.state = "CLOSED" /\ ~u.ACK_triggered
  <2>1. /\ Moves(n, f, s, u) /\ Local(n, u, f) /\ Stage(f.c, u) = 2
        /\ \/ u.state = s.state /\ u.waiting = s.waiting /\ u.receiving = s.receiving
           \/ RetransmissionCounter /\ Resets(s, u) /\ u.state = "CLOSED" /\ ~u.waiting
                /\ ~u.receiving /\ ~u.ACK_triggered /\ u.history = <<>>
    BY <1>4, <1>5, UpdateIs
  <2> QED BY <2>1
<1> HIDE DEF u
<1>7. Moves(n, f, u, r)
  <2>1. CASE u.state = "CLOSED" /\ ~u.ACK_triggered
    <3>1. r = u
      BY <2>1 DEF processACK
    <3> QED BY <1>6, <3>1, GrowsSelf
  <2>2. CASE u.state = s.state
    <3>1. u.state # "CLOSED"
      BY <1>5, <2>2
    <3> QED BY <1>6, <3>1, ProcessACKMoves
  <2> QED BY <1>6, <2>1, <2>2
<1>8. Moves(n, f, s, r)
  BY <1>4, <1>6, <1>7, MovesTrans
<1>9. Become(n, r)
  BY <1>2 DEF r, u, s
<1> HIDE DEF r
<1> QED BY <1>1, <1>3, <1>8, <1>9, TurnKeepsGInv DEF f, s

-----------------------------------------------------------------------------
(* The network and the receiving interrupt.                                 *)

\* A step that only concerns the queues.
LEMMA QueueKeepsGInv ==
  ASSUME GInv, Typed', NEW n \in Node, NEW r, Local(n, r, Here(n)),
         SameNumbers(sock[n], r), SameStream(sock[n], r), r.out = {},
         sock'[n] = r, sock'[Peer(n)] = sock[Peer(n)], call' = call,
         written' = written, confirmed' = confirmed,
         Queue(n)' \subseteq Queue(n), Queue(Peer(n))' \subseteq Queue(Peer(n))
  PROVE  GInv'
<1> DEFINE e == Here(n)
           s == sock[n]
<1>1. e.c = call[n] /\ InCall(e, e, call'[n], confirmed'[n], written'[n])
  BY HereIs
<1>2. r \in AnySocket /\ r.buf \in Nat
  BY SoundIs DEF Local
<1>3. r = [r EXCEPT !.out = {}]
  BY <1>2 DEF AnySocket
<1> HIDE DEF e
<1>4. /\ s.buf = r.buf /\ Stage(call[n], s) = Stage(call[n], r)
      /\ FinSent(n, call[n], s) = FinSent(n, call[n], r)
  BY DEF SameNumbers, Stage, FinSent, Nxt
<1>5. Acks(s, e.ends, e.v, e.fin) = Acks(r, e.ends, e.v, e.fin)
  BY SameAcks
<1>6. s.buf <= r.buf /\ Stage(call[n], s) <= Stage(call'[n], r)
  <2>1. Stage(call[n], r) \in {0, 1, 2}
    BY DEF Stage
  <2>2. Stage(call[n], r) <= Stage(call[n], r)
    BY <2>1
  <2> QED BY <1>2, <1>4, <2>2
<1>7. Queue(Peer(n))' \subseteq Queue(Peer(n)) \cup r.out
  OBVIOUS
<1> QED BY <1>1, <1>3, <1>4, <1>5, <1>6, <1>7, StepKeepsGInv DEF e

LEMMA DeliverKeepsGInv == ASSUME GInv, Typed', NEW n \in Node, Deliver(n) PROVE GInv'
<1> DEFINE s == sock[n]
           p == Peer(n)
<1>1. PICK seg \in net[n] :
         /\ addToReceiveQueue(n, seg)
         /\ net' = [net EXCEPT ![n] = @ \ {seg}] \/ net' = net
  BY DEF Deliver
<1>2. call' = call /\ written' = written /\ confirmed' = confirmed
  BY DEF Deliver, ghosts
<1>3. /\ Local(n, s, Here(n)) /\ Holds(s, COUNT) /\ s.out = {} /\ s \in AnySocket
      /\ p \in Node /\ p # n
  BY PairIs, NodeFacts
<1>4. sock \in [Node -> AnySocket] /\ net \in [Node -> SUBSET AnySegment]
  BY DEF GInv, Typed, IInv
<1>5. seg \in AnySegment /\ net'[n] \subseteq net[n] /\ net'[p] = net[p]
  BY <1>1, <1>3, <1>4
<1>6. CASE Matches(n, seg) /\ Len(s.packetbuffer) < PACKET_LIMIT - 1 /\ s.mempool > 0
  <2> DEFINE q == Append(s.packetbuffer, seg)
             r == [s EXCEPT !.packetbuffer = q, !.mempool = @ - 1]
  <2>1. sock' = [sock EXCEPT ![n] = r]
    BY <1>1, <1>4, <1>6 DEF addToReceiveQueue
  <2>2. Holds(r, COUNT) /\ r.out = {}
    BY <1>3, <1>5, <1>6, QueuedHolds
  <2>3. Requeued(s, r) /\ r.packetbuffer = q
    BY <1>3 DEF Requeued, AnySocket
  <2>4. Range(q) \subseteq Range(s.packetbuffer) \cup {seg}
    <3>1. s.packetbuffer \in Seq(AnySegment)
      BY <1>3 DEF AnySocket
    <3>2. /\ Len(s.packetbuffer) \in Nat /\ DOMAIN q = 1 .. Len(s.packetbuffer) + 1
          /\ DOMAIN s.packetbuffer = 1 .. Len(s.packetbuffer)
          /\ \A i \in DOMAIN q : q[i] = IF i = Len(s.packetbuffer) + 1 THEN seg ELSE s.packetbuffer[i]
      BY <1>5, <3>1
    <3> HIDE DEF q, s
    <3>3. \A i \in DOMAIN q : q[i] = seg \/ (i \in DOMAIN s.packetbuffer /\ q[i] = s.packetbuffer[i])
      BY <3>2
    <3> QED BY <3>3 DEF Range
  <2> HIDE DEF q, r
  <2>5. Local(n, r, Here(n)) /\ SameNumbers(s, r) /\ SameStream(s, r)
    BY <1>3, <2>2, <2>3, HoldsSound, QueueLocal
  <2>6. sock'[n] = r /\ sock'[p] = sock[p]
    BY <1>3, <1>4, <2>1
  <2>7. Queue(n)' \subseteq Queue(n) /\ Queue(p)' \subseteq Queue(p)
    BY <1>1, <1>5, <2>3, <2>4, <2>6 DEF Queue
  <2> QED BY <1>2, <2>2, <2>5, <2>6, <2>7, QueueKeepsGInv
<1>7. CASE ~(Matches(n, seg) /\ Len(s.packetbuffer) < PACKET_LIMIT - 1 /\ s.mempool > 0)
  <2>1. sock' = sock
    BY <1>1, <1>7 DEF addToReceiveQueue
  <2>2. Queue(n)' \subseteq Queue(n) /\ Queue(p)' \subseteq Queue(p)
    BY <1>5, <2>1 DEF Queue
  <2>3. SameNumbers(s, s) /\ SameStream(s, s)
    BY DEF SameNumbers, SameStream
  <2> QED BY <1>2, <1>3, <2>1, <2>2, <2>3, QueueKeepsGInv
<1> QED BY <1>6, <1>7

LEMMA LoseKeepsGInv == ASSUME GInv, Typed', NEW n \in Node, Lose(n) PROVE GInv'
<1> DEFINE s == sock[n]
           p == Peer(n)
<1>1. PICK seg \in net[n] : net' = [net EXCEPT ![n] = @ \ {seg}]
  BY DEF Lose
<1>2. sock' = sock /\ call' = call /\ written' = written /\ confirmed' = confirmed
  BY DEF Lose, ghosts
<1>3. Local(n, s, Here(n)) /\ s.out = {} /\ p \in Node /\ p # n
  BY PairIs, NodeFacts
<1>4. net \in [Node -> SUBSET AnySegment]
  BY DEF GInv, Typed, IInv
<1>5. net'[n] \subseteq net[n] /\ net'[p] = net[p]
  BY <1>1, <1>3, <1>4
<1>6. Queue(n)' \subseteq Queue(n) /\ Queue(p)' \subseteq Queue(p)
  BY <1>2, <1>5 DEF Queue
<1>7. SameNumbers(s, s) /\ SameStream(s, s)
  BY DEF SameNumbers, SameStream
<1> QED BY <1>2, <1>3, <1>6, <1>7, QueueKeepsGInv

-----------------------------------------------------------------------------
(* The actions that open the connection.                                    *)

\* Before its first call nothing of a node is on its way.
LEMMA NewIs ==
  ASSUME GInv, NEW n \in Node, call[n] = "new"
  PROVE  /\ sock[n] = NewSocket /\ ~RetransmissionCounter /\ ViewOK(n, Here(n))
         /\ Here(n).w = 0 /\ Here(n).k = 0 /\ Here(n).flight = {} /\ Here(n).cuts = {}
         /\ Here(n).acks = {} /\ ~Here(n).fin /\ Here(n).stage # 2
         /\ written[n] = 0 /\ confirmed[n] = 0 /\ Stage(call[n], sock[n]) = 0
<1> DEFINE s == sock[n]
           e == Here(n)
<1>1. /\ Local(n, s, e) /\ e.c = call[n] /\ e.w = written[n] /\ e.k = confirmed[n]
  BY PairIs, HereIs
<1>2. sock[n] = NewSocket
  BY DEF GInv, Typed, IInv, Fresh
<1>3. Stage(call[n], sock[n]) = 0 /\ Stage(e.c, s) = 0
  BY <1>1 DEF Stage
<1>4. /\ e.cuts = Cuts(n, Side(n)) /\ e.fin = FinSent(Peer(n), Side(Peer(n)).c, Side(Peer(n)).s)
      /\ e.acks = Acks(Side(Peer(n)).s, Ends(n, Side(n)), Side(n).w,
                       FinSent(n, Side(n).c, Side(n).s))
      /\ e.stage = Stage(Side(Peer(n)).c, Side(Peer(n)).s)
      /\ Side(n).c = call[n] /\ Side(n).s = sock[n]
  BY ViewIs, SideIs DEF Here
<1>5. e.cuts = {}
  BY <1>3, <1>4 DEF Cuts
<1>6. ~FinSent(n, Side(n).c, Side(n).s)
  BY <1>3, <1>4 DEF FinSent
<1>7. Ends(n, Side(n)) = {}
  BY <1>4, <1>5 DEF Ends
<1>8. e.acks = {}
  BY <1>4, <1>6, <1>7 DEF Acks
<1> HIDE DEF e, s
<1>9. /\ ViewOK(n, e) /\ Sending(n, s, e) /\ Tasks(n, s, e) /\ Sent(n, s, e) /\ Handshake(n, s, e)
  BY <1>1 DEF Local
<1>10. ~RetransmissionCounter
  BY <1>1, <1>9 DEF Tasks
<1>11. e.w = 0 /\ e.k = 0
  BY <1>3, <1>9 DEF Sending, ViewOK
<1>12. e.stage # 2
  BY <1>3, <1>9 DEF Handshake
<1>13. ~e.fin
  BY <1>4, <1>12 DEF FinSent
<1>14. e.flight = {}
  BY <1>3, <1>9 DEF Sent, SegOK
<1> QED BY <1>1, <1>2, <1>3, <1>5, <1>8, <1>9, <1>10, <1>11, <1>12, <1>13, <1>14 DEF e, s

\* A socket that waits for the peer's first segment.
LEMMA StartLocal ==
  ASSUME NEW n \in Node, NEW e, ViewOK(n, e), e.w = 0, e.k = 0, e.flight = {}, e.cuts = {},
         e.acks = {}, ~e.fin, e.stage # 2, ~RetransmissionCounter,
         NEW r, Sound(r), r.buf = 0, r.read = <<>>, r.receiveBuffer = EmptyReceiveBuffer,
         ~r.FIN_received, r.buflen = 0, ~r.receiving, r.waiting, Una(n, r) = 0,
         \/ /\ n = Client /\ e.c = "connect" /\ r.state = "SYNSENT" /\ Nxt(n, r) = 1
            /\ \A g \in Segs(r) : g.flags = {"SYN"} /\ g.len = 0 /\ g.seq = At(n, 0)
         \/ /\ n = Server /\ e.c = "listen" /\ r.state = "LISTEN" /\ Nxt(n, r) = 0
            /\ Segs(r) = {}
  PROVE  Local(n, r, e)
<1>1. /\ r.state \in {"SYNSENT", "LISTEN"} /\ r.state \in Opening
      /\ r.state \notin Opened \cup Ending \cup AtEnd
      /\ r.state \notin {"SYNRCVD", "CLOSED", "FINWAIT2", "TIMEWAIT"}
  BY DEF Opening, Opened, Ending, AtEnd
<1>2. /\ e.c # "new" /\ e.c \notin {"poll", "idle"} /\ Stage(e.c, r) # 2 /\ Stage(e.c, r) \in {0, 1}
      /\ r.state = "SYNSENT" => Stage(e.c, r) = 1
      /\ r.state = "LISTEN" => Stage(e.c, r) = 0
  BY DEF Stage
<1>3. ~FinSent(n, e.c, r)
  BY <1>2 DEF FinSent
<1>4. Sending(n, r, e)
  BY <1>1, <1>2, <1>3, ConnectionAssumption DEF Sending
<1>5. Tasks(n, r, e)
  BY <1>1, <1>2 DEF Tasks
<1>6. Receiving(n, r, e)
  BY <1>1, <1>2 DEF Receiving, Unsynchronised, EmptyReceiveBuffer
<1>7. Finishing(n, r, e)
  BY <1>1, <1>2 DEF Finishing
<1>8. Covered(n, r, e)
  BY <1>1 DEF Covered
<1>9. Sent(n, r, e)
  <2> SUFFICES ASSUME NEW g \in Segs(r)
               PROVE  /\ SegOK(n, g, Stage(e.c, r), e.w, FinSent(n, e.c, r),
                               Acks(r, e.ends, e.v, e.fin))
                      /\ ~(g.len > 0)
    BY DEF Sent
  <2>1. /\ n = Client /\ Stage(e.c, r) = 1
        /\ g.flags = {"SYN"} /\ g.len = 0 /\ g.seq = At(n, 0)
    BY <1>2
  <2>2. ~has(g, "ACK")
    BY <2>1 DEF has
  <2> QED BY <2>1, <2>2 DEF SegOK
<1>10. Uncut(n, r, e)
  BY DEF Uncut
<1>11. Handshake(n, r, e)
  BY <1>2 DEF Handshake
<1> QED BY <1>4, <1>5, <1>6, <1>7, <1>8, <1>9, <1>10, <1>11 DEF Local

\* The step of a node that was not connected before.
LEMMA StartKeepsGInv ==
  ASSUME GInv, Typed', NEW n \in Node, call[n] = "new", NEW c, c # "new",
         call' = [call EXCEPT ![n] = c], written' = written, confirmed' = confirmed,
         NEW r, Become(n, r), Sound(r), r.state \in Opening, r.buf = 0, r.read = <<>>,
         r.receiveBuffer = EmptyReceiveBuffer, r.packetbuffer = <<>>,
         \A f : InCall(f, Here(n), c, 0, 0) /\ ViewOK(n, f) => Local(n, r, f)
  PROVE  GInv'
<1> DEFINE s == sock[n]
           e == Here(n)
           f == There(n)
<1>1. /\ s = NewSocket /\ ~RetransmissionCounter /\ ViewOK(n, e)
      /\ e.w = 0 /\ e.k = 0 /\ ~e.fin /\ written[n] = 0 /\ confirmed[n] = 0
      /\ Stage(call[n], s) = 0
  BY NewIs
<1>2. call'[n] = c /\ call'[Peer(n)] = call[Peer(n)]
  BY CallFields DEF GInv, Typed
<1>3. InCall(f, e, call'[n], confirmed'[n], written'[n]) /\ InCall(f, e, c, 0, 0)
  BY <1>1, <1>2, ThereIs
<1> HIDE DEF f
<1>4. ViewOK(n, f)
  BY <1>1, <1>3 DEF ViewOK, InCall
<1>5. Local(n, r, f)
  BY <1>3, <1>4
<1>6. Range(r.packetbuffer) \subseteq Range(s.packetbuffer)
  BY DEF Range
<1>7. /\ sock'[n] = [r EXCEPT !.out = {}] /\ sock'[Peer(n)] = sock[Peer(n)]
      /\ Queue(n)' \subseteq Queue(n) /\ Queue(Peer(n))' \subseteq Queue(Peer(n)) \cup r.out
  BY <1>6, BecomeQueues DEF GInv, Typed
<1>8. s.buf <= r.buf /\ s.read = <<>> /\ s.receiveBuffer = EmptyReceiveBuffer
  BY <1>1 DEF NewSocket
<1>9. Stage(call[n], s) <= Stage(call'[n], r) /\ ~FinSent(n, call[n], s)
  <2>1. Stage(call'[n], r) \in {0, 1, 2}
    BY StageIs
  <2> QED BY <1>1, <2>1 DEF FinSent
<1>10. Acks(s, f.ends, f.v, f.fin) \subseteq Acks(r, f.ends, f.v, f.fin)
  <2>1. ~f.fin /\ Got(s) = Got(r)
    BY <1>1, <1>3, <1>8 DEF InCall, Got
  <2> QED BY <2>1 DEF Acks
<1> HIDE DEF e, s
<1> QED BY <1>2, <1>3, <1>5, <1>7, <1>8, <1>9, <1>10, StepKeepsGInv DEF e, s

LEMMA ConnectKeepsGInv == ASSUME GInv, Typed', connect PROVE GInv'
<1> DEFINE n == Client
           s == gen_initial_seqnum(sock[n], n)
           env == [sent |-> TRUE, timedOut |-> {}, elapsed |-> FALSE]
           syn == writeHeader(s, {"SYN"})
           t == Transmit(s, env, syn, TRUE)
           r == [t EXCEPT !.seqnum_next = SeqAdd(@, 1), !.state = "SYNSENT", !.waiting = TRUE]
<1>1. n \in Node
  BY DEF Node
<1>2. /\ call[n] = "new" /\ call' = [call EXCEPT ![n] = "connect"]
      /\ written' = written /\ confirmed' = confirmed /\ Become(n, r)
  BY DEF connect, ghosts
<1>3. sock[n] = NewSocket /\ Holds(sock[n], COUNT)
  BY <1>1, <1>2, NewIs DEF GInv, Typed, IInv
<1>4. Holds(s, COUNT) /\ s.history = <<>> /\ s.mempool = COUNT /\ s \in AnySocket
  BY <1>1, <1>3, GenHolds, HoldsIs DEF NewSocket
<1>5. /\ s.seqnum_next = ISN[n] /\ s.seqnum_unacked = ISN[n] /\ s.buf = 0 /\ s.read = <<>>
      /\ s.receiveBuffer = EmptyReceiveBuffer /\ s.packetbuffer = <<>> /\ s.out = {}
      /\ ~s.FIN_received /\ s.buflen = 0 /\ ~s.receiving
  BY <1>3 DEF gen_initial_seqnum, NewSocket
<1> HIDE DEF s, env
<1>6. Reclaim(s, env) = s /\ requestSendBufferTCP(s, env)
  <2>1. Len(s.history) = 0 /\ Len(s.history) # TCP_HISTORY_MAX_PACKETS
    BY <1>4, Constants
  <2>2. Reclaim(s, env) = s
    BY <2>1 DEF Reclaim
  <2> QED BY <1>4, <2>1, <2>2, Constants DEF requestSendBufferTCP
<1>7. syn \in AnySegment
  BY <1>4, HoldsIs, HeaderType, Constants DEF Flags
<1>8. syn.flags = {"SYN"} /\ syn.len = 0 /\ syn.seq = At(n, 0)
  BY <1>1, <1>5, BehindSYN DEF writeHeader, Segment
<1> HIDE DEF syn
<1>9. Holds(t, COUNT) /\ t \in AnySocket
  BY <1>4, <1>6, <1>7, TransmitHolds, HoldsIs
<1>10. /\ t.seqnum_next = ISN[n] /\ t.seqnum_unacked = ISN[n] /\ t.buf = 0 /\ t.read = <<>>
       /\ t.receiveBuffer = EmptyReceiveBuffer /\ t.packetbuffer = <<>> /\ t.out = {syn}
       /\ ~t.FIN_received /\ t.buflen = 0 /\ ~t.receiving
       /\ t.history = <<Record(syn, TRUE)>>
  <2> DEFINE u == send(s, syn)
             m == u.mempool - 1
             h == <<Record(syn, TRUE)>> \o u.history
             o == s.out \cup {syn}
  <2>1. t = [u EXCEPT !.mempool = m, !.history = h]
    BY <1>6 DEF Transmit
  <2>2. u = [s EXCEPT !.out = o]
    BY <1>4 DEF send, AnySocket
  <2>3. o = {syn}
    BY <1>5
  <2> HIDE DEF u, m, h, o, t
  <2>4. /\ u.seqnum_next = ISN[n] /\ u.seqnum_unacked = ISN[n] /\ u.buf = 0 /\ u.read = <<>>
        /\ u.receiveBuffer = EmptyReceiveBuffer /\ u.packetbuffer = <<>> /\ u.out = {syn}
        /\ ~u.FIN_received /\ u.buflen = 0 /\ ~u.receiving /\ u.history = <<>>
        /\ t = [u EXCEPT !.mempool = m, !.history = h]
        /\ u \in AnySocket
    BY <1>4, <1>5, <1>7, <2>1, <2>2, <2>3 DEF AnySocket
  <2>5. h = <<Record(syn, TRUE)>>
    BY <2>4 DEF h
  <2> QED BY <2>4, <2>5 DEF AnySocket
<1> HIDE DEF t
<1>11. SeqAdd(ISN[n], 1) \in SeqNum /\ Pos(n, SeqAdd(ISN[n], 1)) = 1 /\ Pos(n, ISN[n]) = 0
  <2>1. SeqAdd(ISN[n], 1) = At(n, 1)
    BY DEF At
  <2> QED BY <1>1, <2>1, BehindSYN
<1>12. Holds(r, COUNT) /\ r.state = "SYNSENT" /\ r.waiting
  <2>1. "SYNSENT" \in States
    BY DEF States
  <2> QED BY <1>9, <1>10, <1>11, <2>1, SameHolds DEF AnySocket
<1>13. /\ r.seqnum_next = SeqAdd(ISN[n], 1) /\ r.seqnum_unacked = ISN[n] /\ r.buf = 0
       /\ r.read = <<>> /\ r.receiveBuffer = EmptyReceiveBuffer /\ r.packetbuffer = <<>>
       /\ r.out = {syn} /\ ~r.FIN_received /\ r.buflen = 0 /\ ~r.receiving
       /\ r.history = <<Record(syn, TRUE)>>
  BY <1>9, <1>10 DEF AnySocket
<1> HIDE DEF r
<1>14. Segs(r) = {syn}
  <2>1. Record(syn, TRUE).seg = syn
    BY DEF Record
  <2>2. DOMAIN r.history = {1} /\ r.history[1] = Record(syn, TRUE)
    BY <1>13
  <2> QED BY <1>13, <2>1, <2>2 DEF Segs
<1>15. Una(n, r) = 0 /\ Nxt(n, r) = 1
  BY <1>11, <1>13 DEF Una, Nxt
<1>16. Sound(r) /\ r.state \in Opening
  BY <1>12 DEF Sound, Opening
<1>17. ASSUME NEW f, InCall(f, Here(n), "connect", 0, 0), ViewOK(n, f) PROVE Local(n, r, f)
  <2>1. /\ ~RetransmissionCounter /\ Here(n).flight = {} /\ Here(n).cuts = {}
        /\ Here(n).acks = {} /\ ~Here(n).fin /\ Here(n).stage # 2
    BY <1>1, <1>2, NewIs
  <2>2. /\ f.w = 0 /\ f.k = 0 /\ f.flight = {} /\ f.cuts = {} /\ f.acks = {} /\ ~f.fin
        /\ f.stage # 2 /\ f.c = "connect"
    BY <1>17, <2>1 DEF InCall
  <2>3. \A g \in Segs(r) : g.flags = {"SYN"} /\ g.len = 0 /\ g.seq = At(n, 0)
    BY <1>8, <1>14
  <2> QED BY <1>1, <1>12, <1>13, <1>15, <1>16, <1>17, <2>1, <2>2, <2>3, StartLocal DEF n
<1> QED BY <1>1, <1>2, <1>13, <1>16, <1>17, StartKeepsGInv

LEMMA ListenKeepsGInv == ASSUME GInv, Typed', listenCall PROVE GInv'
<1> DEFINE n == Server
           s == gen_initial_seqnum(sock[n], n)
           r == [s EXCEPT !.state = "LISTEN", !.waiting = TRUE]
<1>1. n \in Node
  BY DEF Node
<1>2. /\ call[n] = "new" /\ call' = [call EXCEPT ![n] = "listen"]
      /\ written' = written /\ confirmed' = confirmed /\ Become(n, r)
  BY DEF listenCall, StartListening, ghosts
<1>3. sock[n] = NewSocket /\ Holds(sock[n], COUNT)
  BY <1>1, <1>2, NewIs DEF GInv, Typed, IInv
<1>4. Holds(s, COUNT) /\ s.history = <<>> /\ s \in AnySocket
  BY <1>1, <1>3, GenHolds, HoldsIs DEF NewSocket
<1>5. /\ s.seqnum_next = ISN[n] /\ s.seqnum_unacked = ISN[n] /\ s.buf = 0 /\ s.read = <<>>
      /\ s.receiveBuffer = EmptyReceiveBuffer /\ s.packetbuffer = <<>> /\ s.out = {}
      /\ ~s.FIN_received /\ s.buflen = 0 /\ ~s.receiving
  BY <1>3 DEF gen_initial_seqnum, NewSocket
<1> HIDE DEF s
<1>6. Holds(r, COUNT) /\ r.state = "LISTEN" /\ r.waiting
  <2>1. "LISTEN" \in States
    BY DEF States
  <2> QED BY <1>4, <2>1, SameHolds DEF AnySocket
<1>7. /\ r.seqnum_next = ISN[n] /\ r.seqnum_unacked = ISN[n] /\ r.buf = 0
      /\ r.read = <<>> /\ r.receiveBuffer = EmptyReceiveBuffer /\ r.packetbuffer = <<>>
      /\ r.out = {} /\ ~r.FIN_received /\ r.buflen = 0 /\ ~r.receiving /\ r.history = <<>>
  BY <1>4, <1>5 DEF AnySocket
<1> HIDE DEF r
<1>8. Segs(r) = {}
  BY <1>7 DEF Segs
<1>9. Una(n, r) = 0 /\ Nxt(n, r) = 0
  BY <1>1, <1>7, BehindSYN DEF Una, Nxt
<1>10. Sound(r) /\ r.state \in Opening
  BY <1>6 DEF Sound, Opening
<1>11. ASSUME NEW f, InCall(f, Here(n), "listen", 0, 0), ViewOK(n, f) PROVE Local(n, r, f)
  <2>1. /\ ~RetransmissionCounter /\ Here(n).flight = {} /\ Here(n).cuts = {}
        /\ Here(n).acks = {} /\ ~Here(n).fin /\ Here(n).stage # 2
    BY <1>1, <1>2, NewIs
  <2>2. /\ f.w = 0 /\ f.k = 0 /\ f.flight = {} /\ f.cuts = {} /\ f.acks = {} /\ ~f.fin
        /\ f.stage # 2 /\ f.c = "listen"
    BY <1>11, <2>1 DEF InCall
  <2> QED BY <1>1, <1>6, <1>7, <1>8, <1>9, <1>10, <1>11, <2>1, <2>2, StartLocal DEF n
<1> QED BY <1>1, <1>2, <1>7, <1>10, <1>11, StartKeepsGInv

\* listen() waits until the connection is there: without the retransmission
\* counter it never has to wait for a second SYN.
LEMMA NoSecondListen == GInv => ~listenAgain
<1> SUFFICES ASSUME GInv, listenAgain PROVE FALSE
  OBVIOUS
<1> DEFINE n == Server
           s == sock[n]
           e == Here(n)
<1>1. n \in Node /\ call[n] = "listen" /\ ~s.waiting /\ s.state # "ESTABLISHED"
  BY DEF Node, listenAgain
<1>2. Local(n, s, e) /\ e.c = call[n]
  BY <1>1, PairIs, HereIs
<1> HIDE DEF e, s, n
<1>3. Tasks(n, s, e)
  BY <1>2 DEF Local
<1> QED BY <1>1, <1>2, <1>3 DEF Tasks

-----------------------------------------------------------------------------
(* Every step keeps the invariant, and it holds initially.                  *)

LEMMA TypedNext == Typed /\ [Next]_vars => Typed'
<1> SUFFICES ASSUME Typed, [Next]_vars PROVE Typed'
  OBVIOUS
<1>1. IInv'
  BY NextKeepsIInv DEF Typed
<1>2. written \in [Node -> Nat] /\ confirmed \in [Node -> Nat]
  BY DEF Typed
<1>3. CASE written' = written /\ confirmed' = confirmed
  BY <1>1, <1>2, <1>3 DEF Typed
<1>4. ASSUME NEW n \in Node, NEW len \in 1 .. ToWrite[n], write(n, len) PROVE Typed'
  <2>1. written' = [written EXCEPT ![n] = written[n] + len] /\ confirmed' = confirmed
    BY <1>2, <1>4 DEF write
  <2>2. ToWrite[n] \in Nat
    BY NodeFacts
  <2>3. len \in Nat /\ written[n] + len \in Nat
    BY <1>2, <2>2
  <2> QED BY <1>1, <1>2, <2>1, <2>3 DEF Typed
<1>5. ASSUME NEW n \in Node, Return(n) PROVE Typed'
  <2> DEFINE k == IF call[n] = "write" /\ Open(n) THEN written[n] ELSE confirmed[n]
  <2>1. confirmed' = [confirmed EXCEPT ![n] = k] /\ written' = written
    BY <1>2, <1>5 DEF Return
  <2>2. k \in Nat
    BY <1>2
  <2> HIDE DEF k
  <2> QED BY <1>1, <1>2, <2>1, <2>2 DEF Typed
<1>6. CASE connect \/ listenCall \/ listenAgain
  BY <1>3, <1>6 DEF connect, listenCall, listenAgain, StartListening, ghosts
<1>7. ASSUME NEW n \in Node, NEW len \in ReadSizes, receive(n, len) PROVE Typed'
  BY <1>3, <1>7 DEF receive, ghosts
<1>8. ASSUME NEW n \in Node, poll(n) \/ close(n) PROVE Typed'
  BY <1>3, <1>8 DEF poll, close, ghosts
<1>9. ASSUME NEW n \in Node, RecvSegment(n) \/ RecvNothing(n) \/ pollEnd(n) PROVE Typed'
  BY <1>3, <1>9 DEF RecvSegment, RecvNothing, RecvNothingIn, pollEnd, ghosts
<1>10. ASSUME NEW n \in Node, Deliver(n) \/ Lose(n) PROVE Typed'
  BY <1>3, <1>10 DEF Deliver, Lose, ghosts
<1>11. CASE UNCHANGED vars
  BY <1>3, <1>11 DEF vars
<1> QED BY <1>4, <1>5, <1>6, <1>7, <1>8, <1>9, <1>10, <1>11 DEF Next

LEMMA NextKeepsGInv == GInv /\ [Next]_vars => GInv'
<1> SUFFICES ASSUME GInv, [Next]_vars PROVE GInv'
  OBVIOUS
<1>1. Typed'
  BY TypedNext DEF GInv
<1>2. CASE connect
  BY <1>1, <1>2, ConnectKeepsGInv
<1>3. CASE listenCall
  BY <1>1, <1>3, ListenKeepsGInv
<1>4. CASE listenAgain
  BY <1>4, NoSecondListen
<1>5. ASSUME NEW n \in Node, NEW len \in 1 .. ToWrite[n], write(n, len) PROVE GInv'
  <2>1. len \in Nat
    BY ConnectionAssumption
  <2> QED BY <1>1, <1>5, <2>1, WriteKeepsGInv
<1>6. ASSUME NEW n \in Node, NEW len \in ReadSizes, receive(n, len) PROVE GInv'
  <2>1. len \in Nat
    BY ConnectionAssumption
  <2> QED BY <1>1, <1>6, <2>1, ReceiveKeepsGInv
<1>7. ASSUME NEW n \in Node, poll(n) PROVE GInv'
  BY <1>1, <1>7, PollKeepsGInv
<1>8. ASSUME NEW n \in Node, close(n) PROVE GInv'
  BY <1>1, <1>8, CloseKeepsGInv
<1>9. ASSUME NEW n \in Node, RecvSegment(n) PROVE GInv'
  BY <1>1, <1>9, RecvSegmentKeepsGInv
<1>10. ASSUME NEW n \in Node, RecvNothing(n) PROVE GInv'
  BY <1>1, <1>10, RecvNothingKeepsGInv
<1>11. ASSUME NEW n \in Node, pollEnd(n) PROVE GInv'
  BY <1>1, <1>11, PollEndKeepsGInv
<1>12. ASSUME NEW n \in Node, Return(n) PROVE GInv'
  BY <1>1, <1>12, ReturnKeepsGInv
<1>13. ASSUME NEW n \in Node, Deliver(n) PROVE GInv'
  BY <1>1, <1>13, DeliverKeepsGInv
<1>14. ASSUME NEW n \in Node, Lose(n) PROVE GInv'
  BY <1>1, <1>14, LoseKeepsGInv
<1>15. CASE UNCHANGED vars
  <2>1. /\ sock' = sock /\ net' = net /\ call' = call
        /\ written' = written /\ confirmed' = confirmed
    BY <1>15 DEF vars
  <2>2. ASSUME NEW n \in Node PROVE Local(n, sock'[n], Here(n)')
    <3>1. Queue(Peer(n))' = Queue(Peer(n)) /\ Queue(Peer(Peer(n)))' = Queue(Peer(Peer(n)))
      BY <2>1 DEF Queue
    <3>2. Side(n)' = Side(n) /\ Side(Peer(n))' = Side(Peer(n))
      BY <2>1, <3>1 DEF Side
    <3>3. Here(n)' = Here(n)
      BY <3>2 DEF Here
    <3>4. Local(n, sock[n], Here(n))
      BY DEF GInv
    <3> QED BY <2>1, <3>3, <3>4
  <2> QED BY <1>1, <2>2 DEF GInv
<1> QED BY <1>2, <1>3, <1>4, <1>5, <1>6, <1>7, <1>8, <1>9, <1>10, <1>11, <1>12, <1>13,
           <1>14, <1>15 DEF Next

\* The sockets of a handshake that is over.
LEMMA EstablishedIs ==
  ASSUME NEW n \in Node
  PROVE  LET r == EstablishedSocket(n)
         IN  /\ Sound(r) /\ r.state = "ESTABLISHED" /\ r.buf = 0 /\ r.buflen = 0 /\ r.read = <<>>
             /\ ~r.waiting /\ ~r.receiving /\ ~r.FIN_received /\ r.out = {} /\ r.packetbuffer = <<>>
             /\ r.seqnum_next = At(n, 1) /\ r.seqnum_unacked = At(n, 1)
             /\ r.receiveBuffer = setFirstSeqNum(EmptyReceiveBuffer, At(Peer(n), 1))
             /\ \A g \in Segs(r) : g.flags = {"ACK"} /\ g.len = 0 /\ g.ack = At(Peer(n), 1)
             /\ Timed(r) = {}
<1> DEFINE r == EstablishedSocket(n)
           ack == Segment({"ACK"}, At(n, 1), At(Peer(n), 1), 
                          Min({maxReceiveWindow_Bytes, WINDOW_MAX}), 0, 0)
<1>1. Sound(r)
  BY EstablishedSocketHolds DEF Sound
<1>2. /\ r.state = "ESTABLISHED" /\ r.buf = 0 /\ r.buflen = 0 /\ r.read = <<>>
      /\ ~r.waiting /\ ~r.receiving /\ ~r.FIN_received /\ r.out = {} /\ r.packetbuffer = <<>>
      /\ r.seqnum_next = At(n, 1) /\ r.seqnum_unacked = At(n, 1)
      /\ r.receiveBuffer = setFirstSeqNum(EmptyReceiveBuffer, At(Peer(n), 1))
      /\ r.history \in {<<>>, <<Record(ack, FALSE)>>}
  BY DEF EstablishedSocket, NewSocket, At
<1> HIDE DEF r
<1>3. ack.flags = {"ACK"} /\ ack.len = 0 /\ ack.ack = At(Peer(n), 1)
  BY DEF Segment
<1> HIDE DEF ack
<1>4. ASSUME NEW i \in DOMAIN r.history
      PROVE  r.history[i].seg = ack /\ r.history[i].timed = FALSE
  BY <1>2 DEF Record
<1>5. Segs(r) \subseteq {ack}
  BY <1>2, <1>4 DEF Segs
<1>6. Timed(r) = {}
  BY <1>4 DEF Timed, TimedRecords
<1> QED BY <1>1, <1>2, <1>3, <1>5, <1>6 DEF r

LEMMA EstablishedLocal ==
  ASSUME NEW n \in Node, NEW e, ViewOK(n, e), e.c = "idle", e.w = 0, e.k = 0, e.flight = {},
         e.cuts \subseteq {0}, 1 \in e.acks, ~e.fin, e.stage = 2
  PROVE  Local(n, EstablishedSocket(n), e)
<1> DEFINE r == EstablishedSocket(n)
           rb == setFirstSeqNum(EmptyReceiveBuffer, At(Peer(n), 1))
<1>1. /\ Sound(r) /\ r.state = "ESTABLISHED" /\ r.buf = 0 /\ r.buflen = 0 /\ r.read = <<>>
      /\ ~r.waiting /\ ~r.receiving /\ ~r.FIN_received
      /\ r.seqnum_next = At(n, 1) /\ r.seqnum_unacked = At(n, 1)
      /\ r.receiveBuffer = rb /\ Timed(r) = {}
      /\ \A g \in Segs(r) : g.flags = {"ACK"} /\ g.len = 0 /\ g.ack = At(Peer(n), 1)
  BY EstablishedIs
<1>2. Peer(n) \in Node /\ 0 \in e.ends
  BY NodeFacts DEF ViewOK
<1>3. rb.list = <<>> /\ rb.recv_bytes = 0 /\ Consistent(At(Peer(n), 1), ToWrite[Peer(n)], rb, 0)
  <2> DEFINE b == EmptyReceiveBuffer
  <2>1. b \in AnyBuffer /\ b.list = <<>> /\ b.recv_continuous = 0 /\ b.recv_bytes = 0
    BY Constants DEF EmptyReceiveBuffer, AnyBuffer
  <2>2. rb = setFirstSeqNum(b, At(Peer(n), 1))
    OBVIOUS
  <2> HIDE DEF b, rb
  <2> QED BY <2>1, <2>2, FreshStream
<1> HIDE DEF r, rb
<1>4. Una(n, r) = 1 /\ Nxt(n, r) = 1
  BY <1>1, BehindSYN DEF Una, Nxt
<1>5. Pos(Peer(n), At(Peer(n), 1)) = 1
  BY <1>2, BehindSYN
<1>6. Stage(e.c, r) = 2 /\ ~FinSent(n, e.c, r)
  BY <1>1, <1>4 DEF Stage, FinSent
<1>7. Len(r.read) = 0 /\ Got(r) = 0
  BY <1>1, <1>3 DEF Got
<1>8. 1 \in Acks(r, e.ends, e.v, e.fin)
  BY <1>2, <1>7 DEF Acks
<1>9. /\ r.state \in Opened /\ r.state \notin Opening \cup Ending \cup AtEnd
  BY <1>1 DEF Opened, Opening, Ending, AtEnd
<1>10. Sending(n, r, e)
  BY <1>1, <1>4, <1>6, <1>9 DEF Sending
<1>11. Tasks(n, r, e)
  BY <1>1, <1>9 DEF Tasks
<1>12. Receiving(n, r, e)
  BY <1>1, <1>2, <1>3, <1>7 DEF Receiving, Unsynchronised
<1>13. Finishing(n, r, e)
  BY <1>1, <1>9 DEF Finishing
<1>14. Covered(n, r, e)
  BY <1>1, <1>6, <1>9 DEF Covered
<1>15. Sent(n, r, e)
  <2> SUFFICES ASSUME NEW g \in Segs(r)
               PROVE  /\ SegOK(n, g, Stage(e.c, r), e.w, FinSent(n, e.c, r),
                               Acks(r, e.ends, e.v, e.fin))
                      /\ ~(g.len > 0)
    BY DEF Sent
  <2>1. g.flags = {"ACK"} /\ g.len = 0 /\ g.ack = At(Peer(n), 1)
    BY <1>1
  <2>2. has(g, "ACK") /\ ~has(g, "FIN")
    BY <2>1 DEF has
  <2> QED BY <1>5, <1>6, <1>8, <2>1, <2>2 DEF SegOK
<1>16. Uncut(n, r, e)
  BY <1>1, <1>4 DEF Uncut, Straddles
<1>17. Handshake(n, r, e)
  BY <1>6 DEF Handshake
<1> QED BY <1>1, <1>10, <1>11, <1>12, <1>13, <1>14, <1>15, <1>16, <1>17 DEF Local, r

LEMMA EmptyRange == Range(<<>>) = {}
BY DEF Range

LEMMA InitEstablishedGInv == InitEstablished => GInv
<1> SUFFICES ASSUME InitEstablished PROVE GInv
  OBVIOUS
<1>1. IInv
  BY InitEstablishedIInv
<1>2. Typed
  BY <1>1 DEF InitEstablished, Typed
<1>3. \A n \in Node : /\ Side(n).s = EstablishedSocket(n) /\ Side(n).c = "idle"
                      /\ Side(n).w = 0 /\ Side(n).k = 0 /\ Side(n).q = {}
  <2> SUFFICES ASSUME NEW n \in Node
               PROVE  sock[n] = EstablishedSocket(n) /\ call[n] = "idle" /\ written[n] = 0
                        /\ confirmed[n] = 0 /\ Queue(Peer(n)) = {}
    BY SideIs
  <2> DEFINE p == Peer(n)
  <2>1. p \in Node
    BY NodeIs
  <2> HIDE DEF p
  <2>2. net[p] = {} /\ sock[p].packetbuffer = <<>>
    <3>1. net[p] = {} /\ sock[p] = EstablishedSocket(p)
      BY <2>1 DEF InitEstablished
    <3> QED BY <2>1, <3>1, EstablishedIs
  <2>3. Queue(p) = {}
    BY <2>2, EmptyRange DEF Queue
  <2>4. sock[n] = EstablishedSocket(n) /\ call[n] = "idle" /\ written[n] = 0 /\ confirmed[n] = 0
    BY DEF InitEstablished
  <2> QED BY <2>3, <2>4 DEF p
<1>4. \A n \in Node : /\ Stage("idle", EstablishedSocket(n)) = 2 /\ Nxt(n, EstablishedSocket(n)) = 1
                      /\ ~FinSent(n, "idle", EstablishedSocket(n)) /\ Sound(EstablishedSocket(n))
                      /\ EstablishedSocket(n).buf = 0 /\ Got(EstablishedSocket(n)) = 0
  <2> TAKE n \in Node
  <2> DEFINE r == EstablishedSocket(n)
  <2>1. /\ Sound(r) /\ r.state = "ESTABLISHED" /\ r.buf = 0 /\ r.read = <<>>
        /\ r.receiveBuffer = setFirstSeqNum(EmptyReceiveBuffer, At(Peer(n), 1))
        /\ r.seqnum_next = At(n, 1)
    BY EstablishedIs
  <2> HIDE DEF r
  <2>2. Nxt(n, r) = 1
    BY <2>1, BehindSYN DEF Nxt
  <2>3. r.receiveBuffer.recv_bytes = 0
    BY <2>1 DEF setFirstSeqNum, EmptyReceiveBuffer
  <2>4. Got(r) = 0
    BY <2>1, <2>3 DEF Got
  <2>5. Stage("idle", r) = 2 /\ ~FinSent(n, "idle", r)
    BY <2>1, <2>2 DEF Stage, FinSent
  <2> QED BY <2>1, <2>2, <2>4, <2>5 DEF r
<1>5. \A n \in Node : Fits(n, Side(n))
  <2> TAKE n \in Node
  <2>1. \A g \in Segs(EstablishedSocket(n)) : ~(g.len > 0)
    BY EstablishedIs
  <2>2. 0 \in 0 .. ToWrite[n] /\ {} \subseteq AnySegment
    <3>1. ToWrite[n] \in Nat
      BY NodeFacts
    <3> QED BY <3>1
  <2> QED BY <1>3, <1>4, <2>1, <2>2 DEF Fits
<1>6. ASSUME NEW n \in Node PROVE Local(n, sock[n], Here(n))
  <2> DEFINE e == Here(n)
             a == Side(n)
             p == Peer(n)
             b == Side(p)
  <2>1. p \in Node
    BY NodeIs
  <2>2. /\ e.c = "idle" /\ e.k = 0 /\ e.w = 0 /\ e.stage = 2 /\ ~e.fin
        /\ e.flight = {} /\ e.cuts = Cuts(n, a)
        /\ e.acks = Acks(b.s, Ends(n, a), a.w, FinSent(n, a.c, a.s))
    BY <1>3, <1>4, <2>1, ViewIs DEF Here
  <2>3. ViewOK(n, e)
    BY <1>5, <2>1, ViewIsOK DEF Here
  <2>4. e.cuts \subseteq {0}
    BY <1>3, <1>4, <2>2 DEF Cuts
  <2>5. 0 \in Ends(n, a)
    <3>1. Stage(a.c, a.s) >= 1
      BY <1>3, <1>4
    <3> QED BY <1>5, <3>1, CutsIs
  <2>6. Got(b.s) = 0
    BY <1>3, <1>4, <2>1
  <2>7. 1 \in e.acks
    BY <2>2, <2>5, <2>6 DEF Acks
  <2>8. sock[n] = EstablishedSocket(n)
    BY DEF InitEstablished
  <2> HIDE DEF e
  <2>9. Local(n, EstablishedSocket(n), e)
    BY <2>2, <2>3, <2>4, <2>7, EstablishedLocal
  <2> QED BY <2>8, <2>9 DEF e
<1> QED BY <1>2, <1>6 DEF GInv

LEMMA NewLocal ==
  ASSUME ~RetransmissionCounter, NEW n \in Node, NEW e, ViewOK(n, e), e.c = "new", e.w = 0, e.k = 0,
         e.flight = {}, e.cuts = {}, ~e.fin, e.stage = 0
  PROVE  Local(n, NewSocket, e)
<1> DEFINE r == NewSocket
<1>1. Sound(r)
  BY NewSocketHolds DEF Sound
<1>2. /\ r.state = "CLOSED" /\ r.buf = 0 /\ r.buflen = 0 /\ r.read = <<>> /\ ~r.receiving
      /\ ~r.FIN_received /\ r.out = {} /\ r.history = <<>> /\ r.receiveBuffer = EmptyReceiveBuffer
  BY DEF NewSocket
<1> HIDE DEF r
<1>3. r.state \notin Opened \cup Opening \cup Ending \cup AtEnd
  BY <1>2 DEF Opened, Opening, Ending, AtEnd
<1>4. Stage(e.c, r) = 0 /\ ~FinSent(n, e.c, r)
  BY DEF Stage, FinSent
<1>5. Segs(r) = {}
  BY <1>2 DEF Segs
<1>6. Sending(n, r, e)
  BY <1>2, <1>3, <1>4 DEF Sending
<1>7. Tasks(n, r, e)
  BY <1>2, <1>3 DEF Tasks
<1>8. Receiving(n, r, e)
  BY <1>2 DEF Receiving, Unsynchronised, EmptyReceiveBuffer
<1>9. Finishing(n, r, e) /\ Covered(n, r, e)
  BY <1>2, <1>3 DEF Finishing, Covered
<1>10. Sent(n, r, e) /\ Uncut(n, r, e)
  BY <1>5 DEF Sent, Uncut
<1>11. Handshake(n, r, e)
  BY <1>4 DEF Handshake
<1> QED BY <1>1, <1>6, <1>7, <1>8, <1>9, <1>10, <1>11 DEF Local, r

LEMMA InitGInv == ASSUME ~RetransmissionCounter PROVE Init => GInv
<1> SUFFICES ASSUME Init PROVE GInv
  OBVIOUS
<1>1. IInv
  BY InitIInv
<1>2. Typed
  BY <1>1 DEF Init, Typed
<1>3. \A n \in Node : /\ Side(n).s = NewSocket /\ Side(n).c = "new"
                      /\ Side(n).w = 0 /\ Side(n).k = 0 /\ Side(n).q = {}
  <2> SUFFICES ASSUME NEW n \in Node
               PROVE  sock[n] = NewSocket /\ call[n] = "new" /\ written[n] = 0
                        /\ confirmed[n] = 0 /\ Queue(Peer(n)) = {}
    BY SideIs
  <2> DEFINE p == Peer(n)
  <2>1. p \in Node
    BY NodeIs
  <2> HIDE DEF p
  <2>2. net[p] = {} /\ sock[p].packetbuffer = <<>>
    BY <2>1 DEF Init, NewSocket
  <2>3. Queue(p) = {}
    BY <2>2, EmptyRange DEF Queue
  <2>4. sock[n] = NewSocket /\ call[n] = "new" /\ written[n] = 0 /\ confirmed[n] = 0
    BY DEF Init
  <2> QED BY <2>3, <2>4 DEF p
<1>4. /\ Stage("new", NewSocket) = 0 /\ Sound(NewSocket)
      /\ NewSocket.buf = 0 /\ Segs(NewSocket) = {}
  BY NewSocketHolds DEF Stage, Sound, NewSocket, Segs
<1>5. \A n \in Node : ~FinSent(n, "new", NewSocket)
  BY <1>4 DEF FinSent
<1>6. \A n \in Node : Fits(n, Side(n))
  <2> TAKE n \in Node
  <2>1. 0 \in 0 .. ToWrite[n] /\ {} \subseteq AnySegment
    <3>1. ToWrite[n] \in Nat
      BY NodeFacts
    <3> QED BY <3>1
  <2> QED BY <1>3, <1>4, <1>5, <2>1 DEF Fits
<1>7. ASSUME NEW n \in Node PROVE Local(n, sock[n], Here(n))
  <2> DEFINE e == Here(n)
             a == Side(n)
             p == Peer(n)
             b == Side(p)
  <2>1. p \in Node
    BY NodeIs
  <2>2. /\ e.c = "new" /\ e.k = 0 /\ e.w = 0 /\ e.stage = 0 /\ ~e.fin
        /\ e.flight = {} /\ e.cuts = Cuts(n, a)
    BY <1>3, <1>4, <1>5, <2>1, ViewIs DEF Here
  <2>3. ViewOK(n, e)
    BY <1>6, <2>1, ViewIsOK DEF Here
  <2>4. e.cuts = {}
    BY <1>3, <1>4, <2>2 DEF Cuts
  <2>5. sock[n] = NewSocket
    BY DEF Init
  <2> HIDE DEF e
  <2>6. Local(n, NewSocket, e)
    BY <2>2, <2>3, <2>4, NewLocal
  <2> QED BY <2>5, <2>6 DEF e
<1> QED BY <1>2, <1>7 DEF GInv

\* The invariant of the connection.
LEMMA ConnectionGInv == EstablishedSpec \/ (Spec /\ ~RetransmissionCounter) => []GInv
<1>1. InitEstablished => GInv
  BY InitEstablishedGInv
<1>2. GInv /\ [Next]_vars => GInv'
  BY NextKeepsGInv
<1>3. EstablishedSpec => []GInv
  BY <1>1, <1>2, PTL DEF EstablishedSpec
<1>4. CASE RetransmissionCounter
  BY <1>3, <1>4
<1>5. CASE ~RetransmissionCounter
  <2>1. Init => GInv
    BY <1>5, InitGInv
  <2>2. Spec => []GInv
    BY <1>2, <2>1, PTL DEF Spec
  <2> QED BY <1>3, <2>2
<1> QED BY <1>4, <1>5, SocketAssumption

-----------------------------------------------------------------------------
(* What follows for the two ends of the connection.                         *)

LEMMA ReceivedIs ==
  ASSUME NEW n
  PROVE  Received(n) = Got(sock[n])
BY DEF Received, Got, getRecvBytes

\* What a node takes for acknowledged its peer has received.
LEMMA EndsMeet ==
  ASSUME GInv, NEW n \in Node
  PROVE  LET s == sock[n]  p == Peer(n)  t == sock[p]  e == Here(n)  f == Here(p)
         IN  /\ Local(n, s, e) /\ Local(p, t, f) /\ s \in AnySocket /\ t \in AnySocket
             /\ p \in Node /\ Peer(p) = n
             /\ e.c = call[n] /\ e.w = written[n] /\ e.k = confirmed[n] /\ f.c = call[p]
             /\ f.v = written[n] /\ f.fin = FinSent(n, call[n], s)
             /\ f.ends \subseteq {k \in Nat : k < Nxt(n, s)}
             /\ \A x \in e.acks : \/ \E k \in Nat : x = k + 1 /\ k <= Got(t)
                                  \/ /\ f.fin /\ t.state \in AtEnd \cup {"CLOSED"}
                                     /\ Got(t) = written[n] /\ x = written[n] + 2
             /\ Got(s) \in Nat /\ Got(t) \in Nat /\ Una(n, s) \in Nat /\ Nxt(n, s) \in Nat
             /\ written[n] \in Nat /\ confirmed[n] \in Nat
<1> DEFINE s == sock[n]
           p == Peer(n)
           t == sock[p]
           e == Here(n)
           f == Here(p)
           a == Side(n)
           b == Side(p)
<1>1. p \in Node /\ Peer(p) = n
  BY NodeFacts
<1>2. Local(n, s, e) /\ Local(p, t, f) /\ s \in AnySocket /\ t \in AnySocket
      /\ Fits(n, a) /\ Fits(p, b)
  BY <1>1, PairIs
<1>3. /\ a.c = call[n] /\ a.k = confirmed[n] /\ a.w = written[n] /\ a.s = s
      /\ b.c = call[p] /\ b.w = written[p] /\ b.s = t
  BY SideIs
<1>4. /\ e.c = a.c /\ e.w = a.w /\ e.k = a.k
      /\ e.acks = Acks(t, Ends(n, a), a.w, FinSent(n, a.c, a.s))
  BY <1>3, ViewIs DEF Here
<1>5. f.c = b.c /\ f.v = a.w /\ f.fin = FinSent(n, a.c, a.s) /\ f.ends = Ends(n, a)
  <2>1. f = View(p, b, a)
    BY <1>1 DEF Here
  <2> HIDE DEF f, a, b, p
  <2> QED BY <1>1, <2>1, ViewIs
<1>6. Sound(s) /\ Sound(t)
  BY <1>2 DEF Local
<1>7. /\ Got(s) \in Nat /\ Got(t) \in Nat
      /\ s.seqnum_unacked \in SeqNum /\ s.seqnum_next \in SeqNum
  BY <1>6, SoundIs
<1>8. Una(n, s) \in Nat /\ Nxt(n, s) \in Nat
  BY <1>7, PosIs DEF Una, Nxt
<1>9. written[n] \in Nat /\ confirmed[n] \in Nat
  BY DEF GInv, Typed
<1>10. Cuts(n, a) \subseteq {k \in Nat : k < Nxt(n, s)}
  <2> HIDE DEF a, s
  <2> SUFFICES ASSUME NEW k \in Cuts(n, a) PROVE k \in Nat /\ k < Nxt(n, s)
    OBVIOUS
  <2>1. k \in 0 .. Nxt(n, s) - 1
    BY <1>3 DEF Cuts
  <2> QED BY <1>8, <2>1
<1>11. Ends(n, a) \subseteq Cuts(n, a)
  BY <1>2, CutsIs
<1> HIDE DEF s, t, e, f, a, b, p
<1>12. ASSUME NEW x \in e.acks
       PROVE  \/ \E k \in Nat : x = k + 1 /\ k <= Got(t)
              \/ /\ f.fin /\ t.state \in AtEnd \cup {"CLOSED"}
                 /\ Got(t) = written[n] /\ x = written[n] + 2
  BY <1>3, <1>4, <1>5, <1>10, <1>11 DEF Acks
<1> QED BY <1>1, <1>2, <1>3, <1>4, <1>5, <1>7, <1>8, <1>9, <1>10, <1>11, <1>12
        DEF s, t, e, f, p

LEMMA GInvStreamPrefix == GInv => StreamPrefix
<1> SUFFICES ASSUME GInv, NEW n \in Node
             PROVE  /\ \A i \in DOMAIN sock[n].read : sock[n].read[i] = i - 1
                    /\ Received(n) <= written[Peer(n)]
  BY DEF StreamPrefix
<1> DEFINE s == sock[n]
           e == Here(n)
<1>1. Local(n, s, e) /\ Received(n) = Got(s)
  BY PairIs, ReceivedIs
<1>2. e.v = written[Peer(n)] /\ written[Peer(n)] \in Nat
  <2>1. Peer(n) \in Node
    BY NodeFacts
  <2> QED BY <2>1, ViewIs, SideIs DEF Here, GInv, Typed
<1> HIDE DEF s, e
<1>3. Receiving(n, s, e) /\ ViewOK(n, e)
  BY <1>1 DEF Local
<1>4. CASE Unsynchronised(e.c, s)
  <2>1. s.read = <<>> /\ s.receiveBuffer.recv_bytes = 0
    BY <1>3, <1>4 DEF Receiving
  <2>2. Got(s) = 0
    BY <2>1 DEF Got
  <2> QED BY <1>1, <1>2, <2>1, <2>2 DEF s
<1>5. CASE ~Unsynchronised(e.c, s)
  <2>1. \A i \in DOMAIN s.read : s.read[i] = i - 1
    BY <1>3, <1>5 DEF Receiving
  <2>2. Got(s) \in 0 .. e.v
    BY <1>3, <1>5 DEF Receiving, ViewOK
  <2> QED BY <1>1, <1>2, <2>1, <2>2 DEF s
<1> QED BY <1>4, <1>5

LEMMA GInvWriteConfirmed == GInv => WriteConfirmed
<1> SUFFICES ASSUME GInv, NEW n \in Node PROVE confirmed[n] <= Received(Peer(n))
  BY DEF WriteConfirmed
<1> DEFINE s == sock[n]
           t == sock[Peer(n)]
           e == Here(n)
<1>1. /\ Local(n, s, e) /\ e.c = call[n] /\ e.w = written[n] /\ e.k = confirmed[n]
      /\ \A x \in e.acks : \/ \E k \in Nat : x = k + 1 /\ k <= Got(t)
                           \/ Got(t) = written[n] /\ x = written[n] + 2
      /\ Got(t) \in Nat /\ Una(n, s) \in Nat /\ written[n] \in Nat /\ confirmed[n] \in Nat
  BY EndsMeet
<1>2. Received(Peer(n)) = Got(t)
  BY ReceivedIs
<1>3. CASE call[n] = "new"
  <2>1. confirmed[n] = 0
    BY <1>3, NewIs
  <2> QED BY <1>1, <1>2, <2>1
<1> HIDE DEF s, t, e
<1>4. CASE call[n] # "new"
  <2>1. /\ confirmed[n] <= written[n] /\ (confirmed[n] = 0 \/ confirmed[n] < Una(n, s))
        /\ Una(n, s) = 0 \/ Una(n, s) \in e.acks
    BY <1>1, <1>4 DEF Local, Sending
  <2>2. CASE confirmed[n] = 0
    BY <1>1, <1>2, <2>2
  <2>3. CASE confirmed[n] < Una(n, s)
    <3>1. Una(n, s) \in e.acks
      BY <1>1, <2>1, <2>3
    <3>2. \/ \E k \in Nat : Una(n, s) = k + 1 /\ k <= Got(t)
          \/ Got(t) = written[n] /\ Una(n, s) = written[n] + 2
      BY <1>1, <3>1
    <3> QED BY <1>1, <1>2, <2>1, <2>3, <3>2
  <2> QED BY <2>1, <2>2, <2>3
<1> QED BY <1>3, <1>4

LEMMA GInvEndOfStream == GInv => EndOfStream
<1> SUFFICES ASSUME GInv, NEW n \in Node, sock[n].state \in AtEnd
             PROVE  /\ Received(n) = written[Peer(n)]
                    /\ sock[Peer(n)].state \notin {"ESTABLISHED", "CLOSEWAIT"}
  BY DEF EndOfStream, AtEnd
<1> DEFINE p == Peer(n)
           t == sock[p]
           f == Here(p)
           e == Here(n)
           s == sock[n]
<1>1. p \in Node /\ Peer(p) = n
  BY NodeFacts
<1>2. Local(p, t, f) /\ Local(n, s, e) /\ f.c = call[p] /\ e.v = written[p] 
      /\ e.fin = FinSent(p, call[p], t) /\ t \in AnySocket
  BY <1>1, EndsMeet
<1>3. Received(n) = Got(s)
  BY ReceivedIs
<1> HIDE DEF p, t, f, e, s
<1>4. Got(s) = e.v /\ e.fin
  BY <1>2 DEF Local, Finishing, s
<1>5. t.state \notin Opened
  <2>1. Sending(p, t, f) /\ t.buf \in Nat
    BY <1>2 DEF Local, AnySocket
  <2>2. Nxt(p, t) = t.buf + 2
    BY <1>2, <1>4 DEF FinSent
  <2> QED BY <2>1, <2>2 DEF Sending
<1> QED BY <1>2, <1>3, <1>4, <1>5 DEF Opened, p, t

LEMMA GInvSequences == GInv => SequenceSynchronised
<1> SUFFICES ASSUME GInv, NEW n \in Node,
                    sock[n].state \notin {"CLOSED", "LISTEN", "SYNSENT", "SYNRCVD"},
                    sock[Peer(n)].state \notin {"CLOSED", "LISTEN", "SYNSENT"}
             PROVE  LET x == SeqAdd(getAckNum(sock[Peer(n)].receiveBuffer),
                                    IF sock[Peer(n)].state \in AtEnd THEN 1 ELSE 0)
                    IN  SEQ_GEQ(x, sock[n].seqnum_unacked) /\ SEQ_LEQ(x, sock[n].seqnum_next)
  BY DEF SequenceSynchronised, AtEnd
<1> DEFINE s == sock[n]
           p == Peer(n)
           t == sock[p]
           e == Here(n)
           f == Here(p)
           ack == getAckNum(t.receiveBuffer)
           x == SeqAdd(ack, IF t.state \in AtEnd THEN 1 ELSE 0)
<1>1. /\ Local(n, s, e) /\ Local(p, t, f) /\ p \in Node /\ Peer(p) = n
      /\ e.c = call[n] /\ f.c = call[p] /\ e.w = written[n]
      /\ f.v = written[n] /\ f.fin = FinSent(n, call[n], s)
      /\ f.ends \subseteq {k \in Nat : k < Nxt(n, s)}
      /\ \A y \in e.acks : \/ \E k \in Nat : y = k + 1 /\ k <= Got(t)
                           \/ /\ f.fin /\ t.state \in AtEnd \cup {"CLOSED"}
                              /\ Got(t) = written[n] /\ y = written[n] + 2
      /\ Got(t) \in Nat /\ Una(n, s) \in Nat /\ Nxt(n, s) \in Nat /\ written[n] \in Nat
  BY EndsMeet
<1>2. call[n] # "new" /\ call[p] # "new"
  <2>1. ASSUME NEW m \in Node, call[m] = "new" PROVE sock[m].state = "CLOSED"
    BY <2>1, NewIs DEF NewSocket
  <2> QED BY <1>1, <2>1
<1>3. t.state \notin {"CLOSED", "LISTEN", "SYNSENT"}
  OBVIOUS
<1> HIDE DEF s, p, t, e, f
<1>4. /\ Una(n, s) < SEQMOD \div 2 /\ Nxt(n, s) < SEQMOD \div 2 /\ SEQMOD \div 2 \in Nat
      /\ s.seqnum_unacked \in SeqNum /\ s.seqnum_next \in SeqNum
      /\ written[n] + 2 < SEQMOD \div 2
  BY <1>1, <1>2, NumbersIs, NodeFacts
<1>5. Una(n, s) = 0 \/ Una(n, s) \in e.acks
  BY <1>1, <1>2 DEF Local, Sending
<1>6. /\ ack \in SeqNum /\ Pos(n, ack) = Got(t) + 1 /\ Got(t) \in f.ends /\ Got(t) <= written[n]
  <2>1. ~Unsynchronised(f.c, t)
    BY <1>1, <1>2, <1>3 DEF Unsynchronised
  <2>2. /\ getAckNum(t.receiveBuffer) \in SeqNum /\ Got(t) \in Len(t.read) .. f.v
        /\ Pos(Peer(p), getAckNum(t.receiveBuffer)) = Got(t) + 1 /\ Got(t) \in f.ends
        /\ Len(t.read) \in 0 .. ToWrite[Peer(p)]
    BY <1>1, <2>1, StreamIs
  <2> QED BY <1>1, <2>2
<1> HIDE DEF ack
<1>7. /\ x \in SeqNum
      /\ Pos(n, x) = IF t.state \in AtEnd THEN Got(t) + 2 ELSE Got(t) + 1
  <2> DEFINE m == IF t.state \in AtEnd THEN 1 ELSE 0
  <2>1. m \in Nat /\ Pos(n, ack) + m < SEQMOD \div 2
    BY <1>1, <1>4, <1>6
  <2>2. x \in SeqNum /\ Pos(n, x) = Pos(n, ack) + m
    BY <1>6, <2>1, PosAdd
  <2> QED BY <1>1, <1>6, <2>2
<1> HIDE DEF x
<1>8. t.state \in AtEnd => Got(t) = written[n] /\ Nxt(n, s) = written[n] + 2
  <2> SUFFICES ASSUME t.state \in AtEnd PROVE Got(t) = written[n] /\ Nxt(n, s) = written[n] + 2
    OBVIOUS
  <2>1. Got(t) = f.v /\ f.fin
    BY <1>1 DEF Local, Finishing
  <2>2. Nxt(n, s) = s.buf + 2 /\ FinSent(n, e.c, s)
    BY <1>1, <2>1 DEF FinSent
  <2>3. s.buf = e.w
    BY <1>1, <2>2 DEF Local, Sending
  <2> QED BY <1>1, <2>1, <2>2, <2>3
<1>9. Pos(n, x) <= Nxt(n, s)
  <2>1. Got(t) < Nxt(n, s)
    BY <1>1, <1>6
  <2> QED BY <1>1, <1>7, <1>8, <2>1
<1>10. Una(n, s) <= Pos(n, x)
  <2>1. CASE Una(n, s) = 0
    BY <1>1, <1>7, <2>1
  <2>2. CASE \E k \in Nat : Una(n, s) = k + 1 /\ k <= Got(t)
    BY <1>1, <1>7, <2>2
  <2>3. CASE t.state \in AtEnd /\ Got(t) = written[n] /\ Una(n, s) = written[n] + 2
    BY <1>1, <1>7, <2>3
  <2> QED BY <1>1, <1>3, <1>5, <2>1, <2>2, <2>3
<1>11. Pos(n, x) < SEQMOD \div 2 /\ Pos(n, x) \in Nat
  BY <1>1, <1>4, <1>7, <1>9
<1>12. SEQ_GEQ(x, s.seqnum_unacked) /\ SEQ_LEQ(x, s.seqnum_next)
  BY <1>4, <1>7, <1>9, <1>10, <1>11, PosCompare DEF Una, Nxt
<1> QED BY <1>12 DEF x, ack, s, t, p

LEMMA GInvFINAcked == ASSUME ~RetransmissionCounter PROVE GInv => FINAcked
<1> SUFFICES ASSUME GInv, NEW n \in Node, sock[n].state \in {"FINWAIT2", "TIMEWAIT"}
             PROVE  sock[n].seqnum_unacked = sock[n].seqnum_next
  BY DEF FINAcked
<1> DEFINE s == sock[n]
           e == Here(n)
<1>1. Local(n, s, e) /\ Sound(s)
  BY PairIs DEF Local
<1>2. s.state \in Ending /\ s.state \in {"FINWAIT2", "TIMEWAIT"}
  BY DEF Ending
<1> HIDE DEF s, e
<1>3. Una(n, s) = Nxt(n, s)
  BY <1>1, <1>2 DEF Local, Covered
<1>4. s.seqnum_unacked \in SeqNum /\ s.seqnum_next \in SeqNum
  BY <1>1, SoundIs
<1>5. s.seqnum_unacked = At(n, Una(n, s)) /\ s.seqnum_next = At(n, Nxt(n, s))
  BY <1>4, PosIs DEF Una, Nxt
<1> QED BY <1>3, <1>5 DEF s

\* Each application reads a prefix of what the other one wrote, whatever the
\* network drops, repeats, delays or reorders, from the first SYN on as long
\* as no retransmission counter gives a handshake up, and in an established
\* connection also with it (input(), sendSegment(), insert(), copyData()).
THEOREM ConnectionStream ==
  EstablishedSpec \/ (Spec /\ ~RetransmissionCounter) => []StreamPrefix
<1>1. GInv => StreamPrefix
  BY GInvStreamPrefix
<1> QED BY <1>1, ConnectionGInv, PTL

\* A write() that returned true has all its bytes in the peer's receive
\* buffer or behind it: the empty history that FinishSending takes for it
\* does mean that everything has been acknowledged.
THEOREM ConnectionConfirms ==
  EstablishedSpec \/ (Spec /\ ~RetransmissionCounter) => []WriteConfirmed
<1>1. GInv => WriteConfirmed
  BY GInvWriteConfirmed
<1> QED BY <1>1, ConnectionGInv, PTL

\* A socket that reports the end of the peer's stream (handleFIN(),
\* FIN_complete()) has received all of it, and the peer has closed.
THEOREM ConnectionEndsBehindStream ==
  EstablishedSpec \/ (Spec /\ ~RetransmissionCounter) => []EndOfStream
<1>1. GInv => EndOfStream
  BY GInvEndOfStream
<1> QED BY <1>1, ConnectionGInv, PTL

\* The sequence numbers of the two ends belong together, across the wrap of
\* the 2^32 numbers: handleACK() takes nothing for acknowledged that has not
\* arrived, and getAckNum() never runs ahead of what was sent.
THEOREM ConnectionSynchronised ==
  EstablishedSpec \/ (Spec /\ ~RetransmissionCounter) => []SequenceSynchronised
<1>1. GInv => SequenceSynchronised
  BY GInvSequences
<1> QED BY <1>1, ConnectionGInv, PTL

\* Behind FINWAIT1 and CLOSING the peer has acknowledged the FIN.  With the
\* retransmission counter it need not have: a record that was sent too often
\* empties the history as well (abort() inside updateHistory()).
THEOREM ConnectionFINAcked ==
  ASSUME ~RetransmissionCounter
  PROVE  Spec \/ EstablishedSpec => []FINAcked
<1>1. GInv => FINAcked
  BY GInvFINAcked
<1> QED BY <1>1, ConnectionGInv, PTL
=============================================================================
