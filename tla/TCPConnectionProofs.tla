------------------------- MODULE TCPConnectionProofs -------------------------
(***************************************************************************)
(* Proofs about TCPConnection, for every value of its constants: what each *)
(* operation of the socket does to the type of the socket, to the blocks   *)
(* it holds and to its state, and the invariants that follow from it.      *)
(* From "Numbers, segments and the view of a socket" on, what each         *)
(* operation does to the stream, for the proofs of TCPStreamProofs.        *)
(***************************************************************************)
EXTENDS TCPConnection, TCPReceiveBufferProofs

Flags == {"SYN", "ACK", "FIN", "RST", "PSH"}
AnySegment == [flags : SUBSET Flags, seq : SeqNum, ack : SeqNum,
               wnd : 0 .. WINDOW_MAX, len : Nat, data : Nat]
AnyRecord == [seg : AnySegment, timed : BOOLEAN, counter : Nat]
AnyBuffer == [list : Seq(Element), recv_continuous : Nat, recv_bytes : Nat,
              read_firstSeqNum : SeqNum, pushFlag : BOOLEAN]
AnySocket ==
    [state : States, receiving : BOOLEAN, waiting : BOOLEAN,
     FIN_received : BOOLEAN, FIN_seqnum : SeqNum, ACK_triggered : BOOLEAN,
     buflen : Nat, recv_len : Nat, buf : Nat, read : Seq(Nat),
     seqnum_unacked : SeqNum, seqnum_next : SeqNum, history : Seq(AnyRecord),
     sendWindow : 0 .. WINDOW_MAX, lwseq : SeqNum, lwack : SeqNum,
     receiveBuffer : AnyBuffer, packetbuffer : Seq(AnySegment),
     mempool : Nat, out : SUBSET AnySegment]

\* The blocks of the mempool, free or in use.
Blocks(s) ==
    s.mempool + Len(s.packetbuffer) + Len(s.history) + Len(s.receiveBuffer.list)

\* A socket within its bounds that accounts for n blocks.
Holds(s, n) ==
    /\ s \in AnySocket
    /\ Len(s.history) <= TCP_HISTORY_MAX_PACKETS
    /\ Len(s.packetbuffer) < PACKET_LIMIT
    /\ s.receiveBuffer.recv_continuous <= Len(s.receiveBuffer.list)
    /\ Blocks(s) = n

-----------------------------------------------------------------------------
(* The constants.                                                           *)

LEMMA Constants ==
  /\ SEQMOD \in Nat /\ SEQMOD >= 2 /\ 0 \in SeqNum /\ 1 \in SeqNum
  /\ MSS \in Nat /\ MSS > 0
  /\ DEFAULT_MSS \in 0 .. WINDOW_MAX /\ WINDOW_MAX \in Nat
  /\ TCP_HISTORY_MAX_PACKETS \in Nat /\ TCP_HISTORY_MAX_PACKETS > 0
  /\ PACKET_LIMIT \in Nat /\ PACKET_LIMIT > 0
  /\ COUNT \in Nat /\ COUNT > 0
  /\ RetransmissionCounter \in BOOLEAN /\ TCP_MAX_RETRANSMISSIONS \in Nat
BY SeqModAssumption, SocketAssumption DEF SeqNum

LEMMA SeqAddType ==
  ASSUME NEW a \in Int, NEW n \in Int
  PROVE  SeqAdd(a, n) \in SeqNum
<1>1. SEQMOD \in Nat /\ SEQMOD > 0
  BY SeqModAssumption
<1> DEFINE x == a + n
<1>2. x \in Int
  OBVIOUS
<1> HIDE DEF x
<1>3. x % SEQMOD \in 0 .. SEQMOD - 1
  BY <1>1, <1>2
<1> QED BY <1>3 DEF x, SeqAdd, SeqNum

LEMMA SeqNumInt == \A x \in SeqNum : x \in Int
BY SeqModAssumption DEF SeqNum

LEMMA SeqAddSeqNum ==
  ASSUME NEW a \in SeqNum, NEW n \in Nat
  PROVE  SeqAdd(a, n) \in SeqNum
<1>1. a \in Int /\ n \in Int
  BY SeqNumInt
<1> QED BY <1>1, SeqAddType

-----------------------------------------------------------------------------
(* The helpers of the socket.                                               *)

LEMMA NewSocketHolds == Holds(NewSocket, COUNT)
<1>1. EmptyReceiveBuffer \in AnyBuffer /\ Len(EmptyReceiveBuffer.list) = 0
  BY Constants DEF EmptyReceiveBuffer, AnyBuffer
<1>2. NewSocket \in AnySocket
  BY <1>1, Constants DEF NewSocket, AnySocket, States
<1> QED BY <1>1, <1>2, Constants DEF Holds, Blocks, NewSocket, EmptyReceiveBuffer

LEMMA HoldsIs ==
  ASSUME NEW s, NEW n, Holds(s, n)
  PROVE  /\ s \in AnySocket /\ n \in Nat
         /\ s.mempool \in Nat /\ Len(s.packetbuffer) \in Nat /\ Len(s.history) \in Nat
         /\ Len(s.receiveBuffer.list) \in Nat
BY DEF Holds, Blocks, AnySocket, AnyBuffer

LEMMA ResetHolds ==
  ASSUME NEW s, NEW n, Holds(s, n)
  PROVE  LET r == resetSocketState(s)
         IN  /\ Holds(r, n) 
             /\ r.state = "CLOSED" /\ ~r.waiting /\ ~r.receiving /\ r.buflen = 0
BY DEF Holds, Blocks, AnySocket, AnyBuffer, resetSocketState, States

\* A socket that differs in fields that hold no block.
LEMMA SameHolds ==
  ASSUME NEW s, NEW n, Holds(s, n), NEW r \in AnySocket,
         r.mempool = s.mempool, r.packetbuffer = s.packetbuffer, r.history = s.history,
         r.receiveBuffer.list = s.receiveBuffer.list,
         r.receiveBuffer.recv_continuous = s.receiveBuffer.recv_continuous
  PROVE  Holds(r, n)
BY DEF Holds, Blocks

\* What is to be shown of a socket whose mempool and lists changed.
Bounded(r) ==
    /\ r \in AnySocket
    /\ Len(r.history) <= TCP_HISTORY_MAX_PACKETS
    /\ Len(r.packetbuffer) < PACKET_LIMIT
    /\ r.receiveBuffer.recv_continuous <= Len(r.receiveBuffer.list)

Gained(s, r) ==
    (r.mempool - s.mempool) + (Len(r.packetbuffer) - Len(s.packetbuffer))
      + (Len(r.history) - Len(s.history))
      + (Len(r.receiveBuffer.list) - Len(s.receiveBuffer.list))

LEMMA GainHolds ==
  ASSUME NEW s, NEW n, Holds(s, n), NEW r, Bounded(r), NEW k, Gained(s, r) = k
  PROVE  Holds(r, n + k)
<1> DEFINE a == s.mempool  b == Len(s.packetbuffer)  c == Len(s.history)
           e == Len(s.receiveBuffer.list)
           A == r.mempool  B == Len(r.packetbuffer)  C == Len(r.history)
           E == Len(r.receiveBuffer.list)
<1>1. a \in Nat /\ b \in Nat /\ c \in Nat /\ e \in Nat
  BY HoldsIs
<1>2. A \in Nat /\ B \in Nat /\ C \in Nat /\ E \in Nat
  BY DEF Bounded, AnySocket, AnyBuffer
<1>3. a + b + c + e = n
  BY DEF Holds, Blocks
<1>4. k = (A - a) + (B - b) + (C - c) + (E - e)
  BY DEF Gained
<1>5. Blocks(r) = A + B + C + E
  BY DEF Blocks
<1> HIDE DEF a, b, c, e, A, B, C, E
<1>6. A + B + C + E = n + k
  BY <1>1, <1>2, <1>3, <1>4
<1> QED BY <1>5, <1>6 DEF Holds, Bounded

LEMMA FreeHolds ==
  ASSUME NEW s, NEW n, Holds(s, n)
  PROVE  LET r == freeReceivedSegment(s)
         IN  Holds(r, n + 1) /\ r = [s EXCEPT !.mempool = r.mempool]
<1> DEFINE m == s.mempool + 1
           r == freeReceivedSegment(s)
<1>1. s \in AnySocket /\ m \in Nat
  BY HoldsIs
<1>2. r = [s EXCEPT !.mempool = m]
  BY DEF freeReceivedSegment
<1> HIDE DEF m, r
<1>3. Bounded(r) /\ r.mempool = m
  BY <1>1, <1>2 DEF Holds, Bounded, AnySocket
<1>4. r.packetbuffer = s.packetbuffer /\ r.history = s.history /\ r.receiveBuffer = s.receiveBuffer
  BY <1>1, <1>2 DEF AnySocket
<1>5. Gained(s, r) = 1
  BY <1>3, <1>4, HoldsIs DEF Gained, m
<1>6. Holds(r, n + 1)
  BY <1>3, <1>5, GainHolds
<1> QED BY <1>2, <1>3, <1>6 DEF r

-----------------------------------------------------------------------------
(* The history.                                                             *)

\* The records that are left are the records that are not obsolete.
LEMMA RemainingRecords ==
  ASSUME NEW s, NEW env, NEW R, NEW records \in Seq(R)
  PROVE  LET left == Remaining(s, records, env)
         IN  /\ left \in Seq(R) /\ Len(left) <= Len(records)
             /\ \A i \in 1 .. Len(left) : \E j \in 1 .. Len(records) : left[i] = records[j]
             /\ \A j \in 1 .. Len(records) :
                  Obsolete(s, records[j], env) \/ \E i \in 1 .. Len(left) : left[i] = records[j]
<1> DEFINE n == Len(records)
           A == Seq(R)
           Gone(k) == Obsolete(s, records[k], env)
           Is(f) == f = [k \in 0 .. n |-> IF k = 0 THEN <<>>
                                         ELSE IF Gone(k) THEN f[k - 1]
                                              ELSE Append(f[k - 1], records[k])]
           step == [x \in (1 .. n) \X A |->
                      IF Gone(x[1]) THEN x[2] ELSE Append(x[2], records[x[1]])]
           kept == CHOOSE g : Is(g)
<1>1. Remaining(s, records, env) = kept[n]
  BY DEF Remaining
<1>2. n \in Nat /\ \A k \in 1 .. n : records[k] \in R
  OBVIOUS
<1>3. <<>> \in A /\ \A q \in A, k \in 1 .. n : Append(q, records[k]) \in A
  BY <1>2
<1> HIDE DEF n, Gone, A
<1>4. step \in [(1 .. n) \X A -> A]
  <2>1. \A x \in (1 .. n) \X A : x[2] \in A /\ Append(x[2], records[x[1]]) \in A
    BY <1>3
  <2> QED BY <2>1
<1> HIDE DEF step
<1>5. PICK f : IsRecursive(f, A, <<>>, n, step)
  BY <1>2, <1>3, <1>4, Recursion, Zenon
<1>6. \A k \in 1 .. n : step[<<k, f[k - 1]>>] = IF Gone(k) THEN f[k - 1]
                                               ELSE Append(f[k - 1], records[k])
  <2> TAKE k \in 1 .. n
  <2>1. k - 1 \in 0 .. n
    BY <1>2
  <2>2. f[k - 1] \in A
    BY <1>5, <2>1 DEF IsRecursive
  <2>3. <<k, f[k - 1]>> \in (1 .. n) \X A
    BY <2>2
  <2> QED BY <2>3 DEF step
<1>7. \A k \in 0 .. n : f[k] = IF k = 0 THEN <<>> ELSE IF Gone(k) THEN f[k - 1]
                               ELSE Append(f[k - 1], records[k])
  <2>1. \A k \in 0 .. n : k = 0 \/ k \in 1 .. n
    BY <1>2
  <2> QED BY <1>5, <1>6, <2>1 DEF IsRecursive
<1>8. Is(f)
  BY <1>5, <1>7 DEF IsRecursive
<1>9. Is(kept)
  BY <1>8
<1> HIDE DEF kept
<1>10. kept[0] = <<>> /\ \A k \in 1 .. n : kept[k] = IF Gone(k) THEN kept[k - 1]
                                                    ELSE Append(kept[k - 1], records[k])
  <2> DEFINE v(k) == IF k = 0 THEN <<>> ELSE IF Gone(k) THEN kept[k - 1]
                     ELSE Append(kept[k - 1], records[k])
  <2>1. kept = [k \in 0 .. n |-> v(k)]
    BY <1>9
  <2> HIDE DEF v
  <2>2. \A k \in 0 .. n : kept[k] = v(k)
    BY <2>1
  <2>3. 0 \in 0 .. n /\ \A k \in 1 .. n : k \in 0 .. n /\ k # 0
    BY <1>2
  <2> QED BY <2>2, <2>3, Zenon DEF v
<1> DEFINE Some(l, k) == \A i \in 1 .. Len(l) : \E j \in 1 .. k : l[i] = records[j]
           All(l, k) == \A j \in 1 .. k : Gone(j) \/ \E i \in 1 .. Len(l) : l[i] = records[j]
           Left(l, k) == l \in Seq(R) /\ Len(l) <= k /\ Some(l, k) /\ All(l, k)
           S == {k \in 0 .. n : Left(kept[k], k)}
<1>11. 0 \in S
  <2>1. <<>> \in Seq(R) /\ Len(<<>>) <= 0 /\ 0 \in 0 .. n
    BY <1>2
  <2>2. Left(<<>>, 0)
    BY <2>1
  <2> HIDE DEF Left
  <2>3. Left(kept[0], 0)
    BY <1>10, <2>2, Zenon
  <2> QED BY <2>1, <2>3
<1>12. ASSUME NEW k \in 0 .. n - 1, k \in S PROVE k + 1 \in S
  <2>1. k + 1 \in 1 .. n /\ k + 1 \in 0 .. n /\ (k + 1) - 1 = k /\ k \in Nat
        /\ \A j \in 1 .. k + 1 : j \in 1 .. k \/ j = k + 1
    BY <1>2
  <2>2. kept[k + 1] = IF Gone(k + 1) THEN kept[k] ELSE Append(kept[k], records[k + 1])
    BY <1>10, <2>1
  <2> DEFINE l == kept[k]
             x == records[k + 1]
  <2>3. Left(l, k) /\ x \in R
    BY <1>2, <1>12, <2>1
  <2> HIDE DEF l, x, Gone
  <2>4. CASE Gone(k + 1)
    <3>1. l \in Seq(R) /\ Len(l) <= k + 1
      BY <2>1, <2>3
    <3>2. Some(l, k + 1)
      BY <2>1, <2>3
    <3>3. All(l, k + 1)
      BY <2>1, <2>3, <2>4
    <3>4. kept[k + 1] = l
      BY <2>2, <2>4 DEF l
    <3>5. Left(kept[k + 1], k + 1)
      BY <3>1, <3>2, <3>3, <3>4
    <3> QED BY <2>1, <3>5
  <2>5. CASE ~Gone(k + 1)
    <3> DEFINE h == Append(l, x)
    <3>1. l \in Seq(R) /\ Len(l) \in Nat /\ Len(l) <= k
      BY <2>3
    <3>2. /\ h \in Seq(R) /\ Len(h) = Len(l) + 1 /\ h[Len(l) + 1] = x
          /\ \A i \in 1 .. Len(l) : h[i] = l[i]
      BY <2>3, <3>1
    <3> HIDE DEF h
    <3>3. \A i \in 1 .. Len(h) : i \in 1 .. Len(l) \/ i = Len(l) + 1
      BY <3>1, <3>2
    <3>4. Len(l) + 1 \in 1 .. Len(h) /\ \A i \in 1 .. Len(l) : i \in 1 .. Len(h)
      BY <3>1, <3>2
    <3>5. k + 1 \in 1 .. k + 1 /\ \A j \in 1 .. k : j \in 1 .. k + 1
      BY <2>1
    <3>6. Some(h, k + 1)
      BY <2>3, <3>2, <3>3, <3>5, SMTT(30) DEF x
    <3>7. All(h, k + 1)
      BY <2>1, <2>3, <3>2, <3>4 DEF x
    <3>8. Len(h) <= k + 1
      BY <2>1, <3>1, <3>2
    <3>9. kept[k + 1] = h
      BY <2>2, <2>5 DEF l, h, x
    <3>10. Left(kept[k + 1], k + 1)
      BY <3>2, <3>6, <3>7, <3>8, <3>9
    <3> QED BY <2>1, <3>10
  <2> QED BY <2>4, <2>5
<1>13. \A k \in 0 .. n : k \in S
  <2> HIDE DEF S
  <2> QED BY <1>2, <1>11, <1>12, IntervalInduction
<1>14. Left(kept[n], n)
  <2> HIDE DEF Left
  <2>1. n \in 0 .. n
    BY <1>2
  <2> QED BY <1>13, <2>1
<1>15. Left(Remaining(s, records, env), n)
  <2> HIDE DEF Left
  <2> QED BY <1>1, <1>14, Zenon
<1> DEFINE left == Remaining(s, records, env)
<1> HIDE DEF left
<1>16. Left(left, n)
  BY <1>15 DEF left
<1>17. left \in Seq(R) /\ Len(left) <= n /\ Some(left, n) /\ All(left, n)
  BY <1>16
<1>18. \A j \in 1 .. n : Obsolete(s, records[j], env) \/ \E i \in 1 .. Len(left) : left[i] = records[j]
  BY <1>17, Zenon DEF Gone
<1> QED BY <1>17, <1>18, Zenon DEF left, n

\* The socket was reset.
Aborted(r) == r.state = "CLOSED" /\ ~r.waiting /\ ~r.receiving /\ r.buflen = 0

\* Only the history, the mempool and the interface are concerned.
Frame(s, r) ==
    r = [s EXCEPT !.history = r.history, !.mempool = r.mempool, !.out = r.out]

\* Only state, and waiting of a closed socket.
Kept(s, r) == r.state = s.state /\ (s.state # "CLOSED" => r.waiting = s.waiting)

\* What a frame leaves alone.
LEMMA FrameIs ==
  ASSUME NEW s \in AnySocket, NEW r, Frame(s, r)
  PROVE  /\ r.state = s.state /\ r.waiting = s.waiting /\ r.receiving = s.receiving
         /\ r.ACK_triggered = s.ACK_triggered /\ r.FIN_received = s.FIN_received
         /\ r.buflen = s.buflen /\ r.buf = s.buf
         /\ r.sendWindow = s.sendWindow /\ r.seqnum_next = s.seqnum_next
         /\ r.seqnum_unacked = s.seqnum_unacked
         /\ r.receiveBuffer = s.receiveBuffer /\ r.packetbuffer = s.packetbuffer
BY DEF Frame, AnySocket

LEMMA ClearHistoryHolds ==
  ASSUME NEW s, NEW n, Holds(s, n)
  PROVE  LET r == clearHistory(s)
         IN  Holds(r, n) /\ Frame(s, r) /\ r.history = <<>>
<1> DEFINE m == s.mempool + Len(s.history)
           h == <<>>
           r == clearHistory(s)
<1>1. s \in AnySocket /\ m \in Nat /\ Len(s.history) \in Nat
  BY HoldsIs
<1>2. r = [s EXCEPT !.mempool = m, !.history = h]
  BY DEF clearHistory
<1>h. h \in Seq(AnyRecord) /\ Len(h) = 0
  OBVIOUS
<1> HIDE DEF m, r, h
<1>3. r \in AnySocket /\ r.mempool = m /\ r.history = h /\ r.out = s.out
  BY <1>1, <1>2, <1>h DEF AnySocket
<1>4. r.packetbuffer = s.packetbuffer /\ r.receiveBuffer = s.receiveBuffer
  BY <1>1, <1>2 DEF AnySocket
<1>5. Gained(s, r) = 0
  <2>1. Len(r.history) = 0 /\ r.mempool = s.mempool + Len(s.history)
    BY <1>3, <1>h DEF m
  <2>2. s.mempool \in Nat /\ Len(s.packetbuffer) \in Nat /\ Len(s.receiveBuffer.list) \in Nat
    BY HoldsIs
  <2> QED BY <1>1, <1>4, <2>1, <2>2 DEF Gained
<1>b. Bounded(r)
  BY <1>3, <1>4, <1>h, Constants DEF Holds, Bounded
<1>6. Holds(r, n + 0) /\ n \in Nat
  BY <1>5, <1>b, GainHolds, HoldsIs
<1>7. Frame(s, r)
  BY <1>1, <1>2, <1>3 DEF Frame, AnySocket
<1> QED BY <1>3, <1>6, <1>7 DEF r, h

LEMMA AbortHolds ==
  ASSUME NEW s, NEW n, Holds(s, n)
  PROVE  Holds(abort(s), n) /\ Aborted(abort(s))
<1> DEFINE c == clearHistory(s)
           m == c.mempool + Len(s.packetbuffer)
           p == <<>>
           r == [c EXCEPT !.mempool = m, !.packetbuffer = p]
<1>1. abort(s) = resetSocketState(r)
  BY DEF abort
<1>2. Holds(c, n) /\ c.packetbuffer = s.packetbuffer
  BY ClearHistoryHolds, FrameIs, HoldsIs
<1>3. c \in AnySocket /\ c.mempool \in Nat /\ Len(c.packetbuffer) \in Nat
  BY <1>2, HoldsIs
<1>p. p \in Seq(AnySegment) /\ Len(p) = 0
  OBVIOUS
<1> HIDE DEF c, p
<1>4. m \in Nat
  BY <1>2, <1>3
<1> HIDE DEF m
<1>5. r \in AnySocket /\ r.mempool = m /\ r.packetbuffer = p
  BY <1>3, <1>4, <1>p DEF AnySocket
<1>6. r.history = c.history /\ r.receiveBuffer = c.receiveBuffer
  BY <1>3 DEF AnySocket
<1> HIDE DEF r
<1>b. Bounded(r)
  BY <1>2, <1>5, <1>6, <1>p, Constants DEF Holds, Bounded
<1>7. Gained(c, r) = 0
  <2>1. Len(r.packetbuffer) = 0 /\ r.mempool = c.mempool + Len(c.packetbuffer)
    BY <1>2, <1>5, <1>p DEF m
  <2>2. Len(c.history) \in Nat /\ Len(c.receiveBuffer.list) \in Nat
    BY <1>2, HoldsIs
  <2> QED BY <1>3, <1>6, <2>1, <2>2 DEF Gained
<1>8. Holds(r, n + 0) /\ n \in Nat
  BY <1>2, <1>b, <1>7, GainHolds, HoldsIs
<1> QED BY <1>1, <1>8, ResetHolds DEF Aborted

\* updateHistory() frees a block for each record it drops; a socket whose
\* record was sent too often is reset.
LEMMA UpdateHistoryHolds ==
  ASSUME NEW s, NEW n, Holds(s, n), NEW b, NEW env
  PROVE  LET r == updateHistory(s, b, env)
         IN  /\ Holds(r, n) /\ (Frame(s, r) \/ (RetransmissionCounter /\ Aborted(r)))
             /\ ~b /\ s.state # "CLOSED" =>
                  /\ Frame(s, r)
                  /\ r.history = Remaining(s, s.history, env)
                  /\ r.mempool = (s.mempool + Len(s.history)) - Len(r.history)
<1> DEFINE q == s.history
           again == {i \in DOMAIN q : /\ b /\ i \in env.timedOut
                                     /\ q[i].timed /\ ~Obsolete(s, q[i], env)}
           records == [i \in DOMAIN q |-> IF i \in again THEN retransmit(q[i]) ELSE q[i]]
           kept == Remaining(s, records, env)
           killed == \E i \in again : Exhausted(q[i])
           m == s.mempool + Len(q) - Len(kept)
           o == s.out \cup {q[i].seg : i \in {j \in again : ~Exhausted(q[j])}}
           st == IF killed THEN "CLOSED" ELSE s.state
           u == [s EXCEPT !.history = kept, !.mempool = m, !.out = o, !.state = st]
<1>1. updateHistory(s, b, env) =
        IF RetransmissionCounter /\ u.state = "CLOSED" THEN abort(u) ELSE u
  BY DEF updateHistory
<1>2. s \in AnySocket /\ q \in Seq(AnyRecord) /\ Len(q) \in Nat /\ DOMAIN q = 1 .. Len(q)
  BY HoldsIs DEF AnySocket
<1>3. \A i \in DOMAIN q : q[i] \in AnyRecord /\ retransmit(q[i]) \in AnyRecord
  <2>1. \A i \in DOMAIN q : q[i] \in AnyRecord
    BY <1>2
  <2>2. \A x \in AnyRecord : retransmit(x) \in AnyRecord
    BY DEF AnyRecord, retransmit
  <2> QED BY <2>1, <2>2
<1>4. again \subseteq DOMAIN q
  OBVIOUS
<1>a. ~b => again = {}
  OBVIOUS
<1> HIDE DEF again
<1>c. ~b => records = q
  <2> SUFFICES ASSUME again = {} PROVE records = q
    BY <1>a
  <2>1. records = [i \in DOMAIN q |-> q[i]]
    OBVIOUS
  <2> QED BY <1>2, <2>1
<1>5. records \in Seq(AnyRecord) /\ Len(records) = Len(q)
  <2> DEFINE k == Len(q)
             v(i) == IF i \in again THEN retransmit(q[i]) ELSE q[i]
  <2>1. \A i \in 1 .. k : v(i) \in AnyRecord
    BY <1>2, <1>3
  <2>2. records = [i \in 1 .. k |-> v(i)] /\ k \in Nat
    BY <1>2
  <2> HIDE DEF v, k, records
  <2>3. records \in [1 .. k -> AnyRecord]
    BY <2>1, <2>2
  <2>4. records \in Seq(AnyRecord) /\ Len(records) = k
    BY <2>2, <2>3
  <2> QED BY <2>4 DEF k
<1> HIDE DEF records
<1>6. kept \in Seq(AnyRecord) /\ Len(kept) <= Len(q) /\ Len(kept) \in Nat
  <2>1. kept \in Seq(AnyRecord) /\ Len(kept) <= Len(q)
    BY <1>5, RemainingRecords
  <2> QED BY <2>1
<1> HIDE DEF kept
<1>7. m \in Nat /\ m = (s.mempool + Len(q)) - Len(kept) /\ s.mempool \in Nat
  <2>1. s.mempool \in Nat
    BY HoldsIs
  <2> HIDE DEF q
  <2> QED BY <1>2, <1>6, <2>1
<1>8. o \in SUBSET AnySegment
  <2>1. \A i \in again : q[i].seg \in AnySegment
    BY <1>3, <1>4 DEF AnyRecord
  <2>2. s.out \in SUBSET AnySegment
    BY <1>2 DEF AnySocket
  <2> QED BY <2>1, <2>2
<1>9. st \in States
  <2>1. s.state \in States
    BY <1>2 DEF AnySocket
  <2> QED BY <2>1 DEF States
<1> HIDE DEF m, o, st
<1>10. /\ u \in AnySocket /\ u.history = kept /\ u.mempool = m /\ u.out = o /\ u.state = st
       /\ u.packetbuffer = s.packetbuffer /\ u.receiveBuffer = s.receiveBuffer
  BY <1>2, <1>6, <1>7, <1>8, <1>9 DEF AnySocket
<1>f. st = s.state => Frame(s, u)
  BY <1>2, <1>10 DEF Frame, AnySocket
<1> HIDE DEF u
<1>11. Bounded(u)
  <2>1. Len(u.history) <= TCP_HISTORY_MAX_PACKETS
    <3>1. Len(q) <= TCP_HISTORY_MAX_PACKETS
      BY DEF Holds
    <3> HIDE DEF q
    <3> QED BY <1>2, <1>6, <1>10, <3>1, Constants
  <2> QED BY <1>10, <2>1 DEF Holds, Bounded
<1>12. Gained(s, u) = 0
  <2>1. Len(s.packetbuffer) \in Nat /\ Len(s.receiveBuffer.list) \in Nat
    BY HoldsIs
  <2> QED BY <1>2, <1>6, <1>7, <1>10, <2>1 DEF Gained
<1>13. Holds(u, n)
  <2>1. Holds(u, n + 0) /\ n \in Nat
    BY <1>11, <1>12, GainHolds, HoldsIs
  <2> QED BY <2>1
<1>14. ~RetransmissionCounter => st = s.state
  BY DEF st, Exhausted
<1>15. (st # "CLOSED" => st = s.state) /\ (~b => st = s.state)
  BY <1>a DEF st
<1>16. ~b => kept = Remaining(s, q, env)
  BY <1>c DEF kept
<1> QED
  <2>1. CASE RetransmissionCounter /\ u.state = "CLOSED"
    BY <1>1, <1>10, <1>13, <1>15, <2>1, AbortHolds
  <2>2. CASE ~(RetransmissionCounter /\ u.state = "CLOSED")
    BY <1>1, <1>10, <1>13, <1>14, <1>15, <1>16, <1>f, <2>2, <1>7
  <2> QED BY <2>1, <2>2

\* requestSendBufferTCP() cleans up the history and leaves the rest alone;
\* only a socket that is CLOSED already may be reset.
LEMMA ReclaimHolds ==
  ASSUME NEW s, NEW n, Holds(s, n), NEW env
  PROVE  LET r == Reclaim(s, env)
         IN  Holds(r, n) /\ Kept(s, r) /\ (s.state # "CLOSED" => Frame(s, r))
<1> DEFINE r == Reclaim(s, env)
           u == updateHistory(s, FALSE, env)
<1>1. r = u \/ r = s
  BY DEF Reclaim
<1>2. Holds(u, n) /\ (Frame(s, u) \/ Aborted(u)) /\ (s.state # "CLOSED" => Frame(s, u))
  BY UpdateHistoryHolds
<1>3. s \in AnySocket
  BY HoldsIs
<1>4. Frame(s, s)
  BY <1>3 DEF Frame, AnySocket
<1>5. Frame(s, u) => u.state = s.state /\ u.waiting = s.waiting
  BY <1>3, FrameIs
<1> HIDE DEF u, r
<1>6. Kept(s, r)
  BY <1>1, <1>2, <1>5 DEF Kept, Aborted
<1> QED BY <1>1, <1>2, <1>4, <1>6 DEF r

\* Whether there is a buffer does not depend on the state.
LEMMA RequestInState ==
  ASSUME NEW s, NEW n, Holds(s, n), NEW env, s.state # "CLOSED",
         NEW st \in States, st # "CLOSED", requestSendBufferTCP(s, env)
  PROVE  requestSendBufferTCP([s EXCEPT !.state = st], env)
<1> DEFINE t == [s EXCEPT !.state = st]
<1>1. s \in AnySocket
  BY HoldsIs
<1>2. /\ t \in AnySocket /\ t.state = st /\ t.history = s.history /\ t.mempool = s.mempool
      /\ t.seqnum_unacked = s.seqnum_unacked /\ t.receiveBuffer = s.receiveBuffer
      /\ t.packetbuffer = s.packetbuffer
  BY <1>1 DEF AnySocket
<1> HIDE DEF t
<1>3. Holds(t, n)
  BY <1>2, SameHolds
<1>4. Remaining(t, t.history, env) = Remaining(s, s.history, env)
  BY <1>2, Zenon DEF Remaining, Obsolete
<1> DEFINE a == updateHistory(s, FALSE, env)
           b == updateHistory(t, FALSE, env)
<1>5. /\ a.history = Remaining(s, s.history, env)
      /\ a.mempool = (s.mempool + Len(s.history)) - Len(a.history)
  BY UpdateHistoryHolds
<1>6. /\ b.history = Remaining(t, t.history, env)
      /\ b.mempool = (t.mempool + Len(t.history)) - Len(b.history)
  <2>1. t.state # "CLOSED"
    BY <1>2
  <2> QED BY <1>3, <2>1, UpdateHistoryHolds
<1>7. a.history = b.history /\ a.mempool = b.mempool
  BY <1>2, <1>4, <1>5, <1>6
<1>8. requestSendBufferTCP(t, env)
  BY <1>2, <1>7 DEF requestSendBufferTCP, Reclaim
<1> QED BY <1>8 DEF t

-----------------------------------------------------------------------------
(* Headers and transmission.                                                *)

LEMMA MinIs ==
  ASSUME NEW a \in Nat, NEW b \in Nat, NEW c \in Nat
  PROVE  LET m == Min({a, b, c})
         IN  m \in {a, b, c} /\ m <= a /\ m <= b /\ m <= c
<1> DEFINE S == {a, b, c}
<1>1. S \subseteq Nat /\ S # {} /\ a \in S /\ b \in S /\ c \in S
  OBVIOUS
<1> HIDE DEF S
<1>2. \E m \in S : \A k \in S : m <= k
  BY <1>1, LeastNatural
<1>3. Min(S) \in S /\ \A k \in S : Min(S) <= k
  BY <1>2 DEF Min
<1> QED BY <1>1, <1>3 DEF S

LEMMA MinPairIs ==
  ASSUME NEW a \in Nat, NEW b \in Nat
  PROVE  LET m == Min({a, b}) IN m \in Nat /\ m <= a /\ m <= b
<1>1. {a, b, b} = {a, b}
  OBVIOUS
<1>2. Min({a, b, b}) \in {a, b, b} /\ Min({a, b, b}) <= a /\ Min({a, b, b}) <= b
  BY MinIs
<1> QED BY <1>1, <1>2

LEMMA WindowType ==
  ASSUME NEW s \in AnySocket
  PROVE  getReceiveWindow(s) \in 0 .. WINDOW_MAX
<1>1. maxReceiveWindow_Bytes \in Nat
  <2>1. maxReceiveWindow_MSS * MSS \in Nat /\ UNSIGNED_MAX \in Nat
    <3>1. maxReceiveWindow_MSS \in Nat /\ MSS \in Nat /\ UNSIGNED_MAX \in Nat
      BY SocketAssumption
    <3>2. \A a, b \in Nat : a * b \in Nat
      OBVIOUS
    <3> QED BY <3>1, <3>2, Zenon
  <2> QED BY <2>1, MinPairIs DEF maxReceiveWindow_Bytes
<1>2. getRecvBytes(s.receiveBuffer) \in Nat
  BY DEF AnySocket, AnyBuffer, getRecvBytes
<1> QED BY <1>1, <1>2, Constants DEF getReceiveWindow

LEMMA AckNumType ==
  ASSUME NEW s, NEW n, Holds(s, n)
  PROVE  getAckNum(s.receiveBuffer) \in SeqNum
<1> DEFINE rb == s.receiveBuffer
           q == rb.list
<1>1. /\ q \in Seq(Element) /\ rb.recv_continuous \in Nat /\ rb.recv_continuous <= Len(q)
      /\ rb.read_firstSeqNum \in SeqNum
  BY DEF Holds, AnySocket, AnyBuffer
<1>2. \A e \in Element : getNextSeqNum(e) \in SeqNum
  <2> SUFFICES ASSUME NEW e \in Element PROVE SeqAdd(e.seqNum, e.len) \in SeqNum
    BY DEF getNextSeqNum
  <2>1. e.seqNum \in SeqNum /\ e.len \in Int
    BY DEF Element
  <2>2. e.seqNum \in Int
    BY <2>1, SeqNumInt
  <2> QED BY <2>1, <2>2, SeqAddType
<1> HIDE DEF q
<1>3. rb.recv_continuous # 0 => q[rb.recv_continuous] \in Element
  BY <1>1
<1> QED BY <1>1, <1>2, <1>3 DEF getAckNum, q

LEMMA HeaderType ==
  ASSUME NEW s \in AnySocket, NEW flags \in SUBSET Flags, NEW ack \in SeqNum
  PROVE  /\ writeHeader(s, flags) \in AnySegment
         /\ writeHeaderWithAck(s, flags, ack) \in AnySegment
<1>1. s.seqnum_next \in SeqNum /\ getReceiveWindow(s) \in 0 .. WINDOW_MAX /\ 0 \in SeqNum
  BY WindowType, Constants DEF AnySocket
<1>2. flags \cup {"ACK"} \in SUBSET Flags
  BY DEF Flags
<1> QED BY <1>1, <1>2 DEF writeHeader, writeHeaderWithAck, Segment, AnySegment

\* A segment that is sent takes a block from the mempool to the history.
LEMMA TransmitHolds ==
  ASSUME NEW s, NEW n, Holds(s, n), NEW env, requestSendBufferTCP(s, env),
         NEW seg \in AnySegment, NEW timed \in BOOLEAN
  PROVE  LET t == Transmit(s, env, seg, timed)
         IN  Holds(t, n) /\ Kept(s, t) /\ (s.state # "CLOSED" => Frame(s, t))
<1> DEFINE r == Reclaim(s, env)
           rec == Record(seg, timed)
           h == <<rec>> \o r.history
           m == r.mempool - 1
           o == r.out \cup {seg}
           t == Transmit(s, env, seg, timed)
<1>1. t = [[r EXCEPT !.out = o] EXCEPT !.mempool = m, !.history = h]
  <2>1. send(r, seg).mempool = r.mempool /\ send(r, seg).history = r.history
    <3>1. r \in AnySocket
      BY ReclaimHolds, HoldsIs
    <3> HIDE DEF r
    <3> QED BY <3>1 DEF send, AnySocket
  <2>2. send(r, seg) = [r EXCEPT !.out = o]
    BY DEF send
  <2>3. t = [send(r, seg) EXCEPT !.mempool = send(r, seg).mempool - 1,
                                 !.history = <<rec>> \o send(r, seg).history]
    BY DEF Transmit
  <2> HIDE DEF t, r, o, rec
  <2> QED BY <2>1, <2>2, <2>3
<1>2. Holds(r, n) /\ Kept(s, r) /\ (s.state # "CLOSED" => Frame(s, r)) /\ s \in AnySocket
  BY ReclaimHolds, HoldsIs
<1>3. r \in AnySocket /\ r.mempool \in Nat /\ Len(r.history) \in Nat
  BY <1>2, HoldsIs
<1>4. Len(r.history) < TCP_HISTORY_MAX_PACKETS /\ r.mempool > 0
  BY DEF requestSendBufferTCP
<1>5. rec \in AnyRecord
  BY DEF Record, AnyRecord
<1> HIDE DEF r, rec
<1>6. h \in Seq(AnyRecord) /\ Len(h) = Len(r.history) + 1
  <2> DEFINE q == r.history
  <2>1. q \in Seq(AnyRecord)
    BY <1>3 DEF AnySocket
  <2> HIDE DEF q
  <2>2. <<rec>> \o q \in Seq(AnyRecord) /\ Len(<<rec>> \o q) = Len(q) + 1
    BY <1>5, <2>1
  <2> QED BY <2>2 DEF q
<1>7. m \in Nat /\ o \in SUBSET AnySegment
  <2>1. m \in Nat
    BY <1>3, <1>4
  <2> QED BY <1>3, <2>1 DEF AnySocket
<1>m. r.mempool = m + 1
  BY <1>3
<1> HIDE DEF t, m, o, h
<1>8. /\ t \in AnySocket /\ t.history = h /\ t.mempool = m /\ t.out = o
      /\ t.packetbuffer = r.packetbuffer /\ t.receiveBuffer = r.receiveBuffer
      /\ t.state = r.state /\ t.waiting = r.waiting
  BY <1>1, <1>3, <1>6, <1>7 DEF AnySocket
<1>9. Bounded(t)
  <2>1. Len(t.history) <= TCP_HISTORY_MAX_PACKETS
    BY <1>3, <1>4, <1>6, <1>8, Constants
  <2> QED BY <1>2, <1>8, <2>1 DEF Holds, Bounded
<1>10. Gained(r, t) = 0
  <2>1. Len(r.packetbuffer) \in Nat /\ Len(r.receiveBuffer.list) \in Nat
    BY <1>2, HoldsIs
  <2>2. (m - (m + 1)) + ((Len(r.history) + 1) - Len(r.history)) = 0
    BY <1>3, <1>7
  <2> QED BY <1>3, <1>6, <1>7, <1>m, <1>8, <2>1, <2>2 DEF Gained
<1>11. Holds(t, n)
  <2>1. Holds(t, n + 0) /\ n \in Nat
    BY <1>2, <1>9, <1>10, GainHolds, HoldsIs
  <2> QED BY <2>1
<1>12. Frame(s, r) => Frame(s, t)
  <2> SUFFICES ASSUME Frame(s, r) PROVE Frame(s, t)
    OBVIOUS
  <2>1. t = [[[s EXCEPT !.history = r.history, !.mempool = r.mempool, !.out = r.out]
                EXCEPT !.out = o] EXCEPT !.mempool = m, !.history = h]
    BY <1>1 DEF Frame
  <2> QED BY <1>2, <1>8, <2>1 DEF Frame, AnySocket
<1>13. Kept(s, t)
  BY <1>2, <1>8 DEF Kept
<1> QED BY <1>2, <1>11, <1>12, <1>13 DEF t

-----------------------------------------------------------------------------
(* Fields that hold no block.                                               *)

LEMMA SetState ==
  ASSUME NEW s, NEW n, Holds(s, n), NEW st \in States
  PROVE  LET r == [s EXCEPT !.state = st]
         IN  Holds(r, n) /\ r.state = st /\ r.waiting = s.waiting
<1>1. s \in AnySocket
  BY HoldsIs
<1> QED BY <1>1, SameHolds DEF AnySocket

LEMMA SetWaiting ==
  ASSUME NEW s, NEW n, Holds(s, n), NEW w \in BOOLEAN
  PROVE  LET r == [s EXCEPT !.waiting = w]
         IN  Holds(r, n) /\ r.state = s.state /\ r.waiting = w
<1>1. s \in AnySocket
  BY HoldsIs
<1> QED BY <1>1, SameHolds DEF AnySocket

LEMMA SetReturn ==
  ASSUME NEW s, NEW n, Holds(s, n)
  PROVE  LET r == [s EXCEPT !.receiving = FALSE, !.waiting = FALSE]
         IN  Holds(r, n) /\ r.state = s.state
<1>1. s \in AnySocket
  BY HoldsIs
<1> QED BY <1>1, SameHolds DEF AnySocket

LEMMA SetTriggered ==
  ASSUME NEW s, NEW n, Holds(s, n), NEW w \in BOOLEAN
  PROVE  LET r == [s EXCEPT !.ACK_triggered = w]
         IN  Holds(r, n) /\ Kept(s, r)
<1>1. s \in AnySocket
  BY HoldsIs
<1> QED BY <1>1, SameHolds DEF AnySocket, Kept

LEMMA SetNext ==
  ASSUME NEW s, NEW n, Holds(s, n), NEW k \in Int
  PROVE  LET r == [s EXCEPT !.seqnum_next = SeqAdd(@, k)]
         IN  Holds(r, n) /\ Kept(s, r)
<1> DEFINE x == SeqAdd(s.seqnum_next, k)
<1>1. s \in AnySocket
  BY HoldsIs
<1>2. s.seqnum_next \in SeqNum
  BY <1>1 DEF AnySocket
<1>3. x \in SeqNum
  BY <1>2, SeqNumInt, SeqAddType
<1> HIDE DEF x
<1>4. Holds([s EXCEPT !.seqnum_next = x], n) /\ Kept(s, [s EXCEPT !.seqnum_next = x])
  BY <1>1, <1>3, SameHolds DEF AnySocket, Kept
<1> QED BY <1>4 DEF x

LEMMA SetFirst ==
  ASSUME NEW s, NEW n, Holds(s, n), NEW x \in SeqNum
  PROVE  LET r == [s EXCEPT !.receiveBuffer = setFirstSeqNum(@, x)]
         IN  Holds(r, n) /\ Kept(s, r)
<1> DEFINE rb == [s.receiveBuffer EXCEPT !.read_firstSeqNum = x]
<1>1. s \in AnySocket
  BY HoldsIs
<1>2. s.receiveBuffer \in AnyBuffer
  BY <1>1 DEF AnySocket
<1>3. /\ rb \in AnyBuffer /\ rb.list = s.receiveBuffer.list
      /\ rb.recv_continuous = s.receiveBuffer.recv_continuous
  BY <1>2 DEF AnyBuffer
<1> HIDE DEF rb
<1>4. LET r == [s EXCEPT !.receiveBuffer = rb] IN Holds(r, n) /\ Kept(s, r)
  BY <1>1, <1>3, SameHolds DEF AnySocket, Kept
<1> QED BY <1>4 DEF rb, setFirstSeqNum

LEMMA SendWindowHolds ==
  ASSUME NEW s, NEW n, Holds(s, n), NEW seg \in AnySegment
  PROVE  /\ Holds(initSendWindow(s, seg), n) /\ Kept(s, initSendWindow(s, seg))
         /\ Holds(updateSendWindow(s, seg), n) /\ Kept(s, updateSendWindow(s, seg))
<1> DEFINE r == initSendWindow(s, seg)
<1>1. s \in AnySocket /\ seg.wnd \in 0 .. WINDOW_MAX /\ seg.seq \in SeqNum /\ seg.ack \in SeqNum
  BY HoldsIs DEF AnySegment
<1>2. Holds(r, n) /\ Kept(s, r)
  BY <1>1, SameHolds DEF AnySocket, Kept, initSendWindow
<1>3. updateSendWindow(s, seg) = s \/ updateSendWindow(s, seg) = r
  BY DEF updateSendWindow
<1> QED BY <1>2, <1>3 DEF Kept

LEMMA HandleACKHolds ==
  ASSUME NEW s, NEW n, Holds(s, n), NEW ack \in SeqNum
  PROVE  LET r == handleACK(s, ack)
         IN  Holds(r, n) /\ Kept(s, r)
<1> DEFINE r == [s EXCEPT !.seqnum_unacked = ack]
<1>1. s \in AnySocket
  BY HoldsIs
<1>2. Holds(r, n) /\ Kept(s, r)
  BY <1>1, SameHolds DEF AnySocket, Kept
<1>3. handleACK(s, ack) = s \/ handleACK(s, ack) = r
  BY DEF handleACK
<1> QED BY <1>2, <1>3 DEF Kept

LEMMA HandleFINHolds ==
  ASSUME NEW s, NEW n, Holds(s, n), NEW seg \in AnySegment
  PROVE  LET r == handleFIN(s, seg)
         IN  Holds(r, n) /\ Kept(s, r)
<1> DEFINE x == SeqAdd(seg.seq, seg.len)
           r == [s EXCEPT !.FIN_received = TRUE, !.FIN_seqnum = x]
<1>1. s \in AnySocket
  BY HoldsIs
<1>2. x \in SeqNum
  <2>1. seg.seq \in SeqNum /\ seg.len \in Int
    BY DEF AnySegment
  <2> QED BY <2>1, SeqNumInt, SeqAddType
<1>3. handleFIN(s, seg) = s \/ handleFIN(s, seg) = r
  BY DEF handleFIN
<1> HIDE DEF x
<1>4. Holds(r, n) /\ Kept(s, r)
  BY <1>1, <1>2, SameHolds DEF AnySocket, Kept
<1> QED BY <1>3, <1>4 DEF Kept

LEMMA AckIfHolds ==
  ASSUME NEW s, NEW n, Holds(s, n), NEW seg \in AnySegment
  PROVE  LET r == ackIf(s, seg)
         IN  Holds(r, n) /\ Kept(s, r)
<1>1. seg.ack \in SeqNum
  BY DEF AnySegment
<1> QED BY <1>1, HandleACKHolds DEF ackIf, Kept

LEMMA FreeKept ==
  ASSUME NEW s, NEW n, Holds(s, n)
  PROVE  Kept(s, freeReceivedSegment(s))
<1>1. s \in AnySocket
  BY HoldsIs
<1> QED BY <1>1 DEF AnySocket, Kept, freeReceivedSegment

-----------------------------------------------------------------------------
(* Acknowledgements.                                                        *)

LEMMA SendACKNumHolds ==
  ASSUME NEW s, NEW n, Holds(s, n), NEW env, NEW ack \in SeqNum
  PROVE  LET r == sendACKNum(s, env, ack)
         IN  Holds(r, n) /\ Kept(s, r) /\ (s.state # "CLOSED" => Frame(s, r))
<1>1. s \in AnySocket /\ {} \in SUBSET Flags
  BY HoldsIs
<1>2. writeHeaderWithAck(s, {}, ack) \in AnySegment
  BY <1>1, HeaderType
<1>3. FALSE \in BOOLEAN
  OBVIOUS
<1>4. CASE requestSendBufferTCP(s, env)
  BY <1>2, <1>3, <1>4, TransmitHolds DEF sendACKNum
<1>5. CASE ~requestSendBufferTCP(s, env)
  BY <1>5, ReclaimHolds DEF sendACKNum
<1> QED BY <1>4, <1>5

LEMMA SendACKHolds ==
  ASSUME NEW s, NEW n, Holds(s, n), NEW env
  PROVE  LET r == sendACK(s, env)
         IN  /\ Holds(r, n) /\ Kept(s, r)
             /\ s.state # "CLOSED" => /\ r.buflen = s.buflen /\ r.receiving = s.receiving
                                     /\ r.sendWindow = s.sendWindow
<1> DEFINE a == [s EXCEPT !.ACK_triggered = FALSE]
           x == getAckNum(s.receiveBuffer)
           r == sendACKNum(a, env, x)
<1>1. s \in AnySocket /\ x \in SeqNum
  BY HoldsIs, AckNumType
<1>2. Holds(a, n) /\ a \in AnySocket
  BY SetTriggered, HoldsIs
<1>3. /\ a.state = s.state /\ a.waiting = s.waiting /\ a.receiving = s.receiving
      /\ a.buflen = s.buflen /\ a.sendWindow = s.sendWindow
  BY <1>1 DEF AnySocket
<1>4. sendACK(s, env) = r
  BY DEF sendACK
<1> HIDE DEF a, x
<1>5. Holds(r, n) /\ Kept(a, r) /\ (a.state # "CLOSED" => Frame(a, r))
  BY <1>1, <1>2, SendACKNumHolds
<1> HIDE DEF r
<1> QED BY <1>2, <1>3, <1>4, <1>5, FrameIs DEF Kept

LEMMA ProcessACKHolds ==
  ASSUME NEW s, NEW n, Holds(s, n), NEW env
  PROVE  LET r == processACK(s, env)
         IN  /\ Holds(r, n) /\ Kept(s, r)
             /\ s.state # "CLOSED" => /\ r.buflen = s.buflen /\ r.receiving = s.receiving
                                     /\ r.sendWindow = s.sendWindow
BY SendACKHolds DEF processACK, Kept

LEMMA AckFINHolds ==
  ASSUME NEW s, NEW n, Holds(s, n), NEW env
  PROVE  LET r == AckFIN(s, env) IN Holds(r, n) /\ Kept(s, r)
<1>1. s.FIN_seqnum \in SeqNum
  BY HoldsIs DEF AnySocket
<1>2. SeqAdd(s.FIN_seqnum, 1) \in SeqNum
  BY <1>1, SeqNumInt, SeqAddType
<1> QED BY <1>2, SendACKNumHolds DEF AckFIN

LEMMA HandleRSTHolds ==
  ASSUME NEW s, NEW n, Holds(s, n)
  PROVE  LET r == handleRST(s) IN Holds(r, n + 1) /\ Aborted(r)
BY FreeHolds, AbortHolds DEF handleRST

LEMMA HandleSYNHolds ==
  ASSUME NEW s, NEW n, Holds(s, n), NEW env
  PROVE  /\ Holds(handleSYN(s, env), n + 1) /\ Kept(s, handleSYN(s, env))
         /\ Holds(handleSYN_final(s, env), n + 1) /\ Kept(s, handleSYN_final(s, env))
<1> DEFINE f == freeReceivedSegment(s)
<1>1. Holds(f, n + 1) /\ Kept(s, f)
  BY FreeHolds, FreeKept
<1> HIDE DEF f
<1>2. Holds(sendACK(f, env), n + 1) /\ Kept(f, sendACK(f, env))
  BY <1>1, SendACKHolds
<1>3. Holds(AckFIN(f, env), n + 1) /\ Kept(f, AckFIN(f, env))
  BY <1>1, AckFINHolds
<1> QED BY <1>1, <1>2, <1>3 DEF handleSYN, handleSYN_final, f, Kept

-----------------------------------------------------------------------------
(* The receive buffer.                                                      *)

\* updateContinuous() moves recv_continuous within the list.
LEMMA UpdateContinuousType ==
  ASSUME NEW rb \in AnyBuffer, rb.recv_continuous <= Len(rb.list)
  PROVE  LET u == updateContinuous(rb)
         IN  /\ u \in AnyBuffer /\ u.list = rb.list
             /\ u.recv_continuous <= Len(rb.list)
<1> DEFINE q == rb.list
           c == rb.recv_continuous
           headStarts == q # <<>> /\ rb.read_firstSeqNum = q[1].seqNum
           start == IF c = 0 THEN 1 ELSE c
           bytes == IF c = 0 THEN q[1].len ELSE rb.recv_bytes
           end == EndOfRun(q, start)
           sum == bytes + Bytes(SubSeq(q, start + 1, end))
           v == [rb EXCEPT !.recv_continuous = end, !.recv_bytes = sum]
<1>1. updateContinuous(rb) = IF c = 0 /\ ~headStarts THEN rb ELSE v
  BY DEF updateContinuous
<1>2. q \in Seq(Element) /\ c \in Nat /\ Len(q) \in Nat /\ c <= Len(q) /\ rb.recv_bytes \in Nat
  BY DEF AnyBuffer
<1>3. CASE c = 0 /\ ~headStarts
  BY <1>1, <1>2, <1>3
<1>4. CASE ~(c = 0 /\ ~headStarts)
  <2>1. start \in 1 .. Len(q)
    <3>1. c = 0 => q # <<>>
      BY <1>4
    <3>2. q # <<>> => Len(q) > 0
      BY <1>2
    <3> HIDE DEF q, c
    <3> QED BY <1>2, <3>1, <3>2
  <2>2. bytes \in Nat
    <3>1. q[1] \in Element \/ c # 0
      <4>1. c = 0 => 1 \in 1 .. Len(q)
        BY <2>1
      <4> QED BY <1>2, <4>1
    <3> QED BY <1>2, <3>1 DEF Element
  <2> HIDE DEF start, bytes, headStarts
  <2>3. end \in start .. Len(q)
    BY <1>2, <2>1, EndOfRunIs
  <2> HIDE DEF end
  <2>4. SubSeq(q, start + 1, end) \in Seq(Element)
    <3> HIDE DEF q
    <3> QED BY <1>2, <2>1, <2>3
  <2>5. Bytes(SubSeq(q, start + 1, end)) \in Nat
    <3> DEFINE z == SubSeq(q, start + 1, end)
    <3>1. z \in Seq(Element) /\ Len(z) \in Nat
      BY <2>4
    <3> HIDE DEF z
    <3>2. PICK sum2 \in [0 .. Len(z) -> Nat] : Bytes(z) = sum2[Len(z)]
      BY <3>1, BytesSum
    <3>3. Bytes(z) \in Nat
      BY <3>1, <3>2
    <3> QED BY <3>3 DEF z
  <2>6. sum \in Nat /\ end \in Nat /\ end <= Len(q)
    <3> HIDE DEF q
    <3> QED BY <1>2, <2>1, <2>2, <2>3, <2>5
  <2> HIDE DEF sum
  <2>7. v \in AnyBuffer /\ v.list = rb.list /\ v.recv_continuous = end
    BY <2>6 DEF AnyBuffer
  <2> QED BY <1>1, <1>4, <2>6, <2>7
<1> QED BY <1>3, <1>4

LEMMA InsertType ==
  ASSUME NEW rb \in AnyBuffer, rb.recv_continuous <= Len(rb.list), NEW seg \in AnySegment
  PROVE  LET i == insert(rb, seg, seg.seq, seg.len)
         IN  /\ i \in AnyBuffer /\ Len(i.list) = Len(rb.list) + 1
             /\ i.recv_continuous <= Len(i.list)
<1> DEFINE q == rb.list
           e == [seqNum |-> seg.seq, len |-> seg.len, data |-> seg.data]
           pos == InsertPosition(rb, seg.seq)
           z == InsertAt(q, pos, e)
           linked == [rb EXCEPT !.list = z]
           u == updateContinuous(linked)
           push == u.pushFlag \/ has(seg, "PSH")
<1>1. insert(rb, seg, seg.seq, seg.len) = [u EXCEPT !.pushFlag = push]
  BY DEF insert
<1>2. /\ q \in Seq(Element) /\ Len(q) \in Nat /\ rb.recv_continuous \in Nat
      /\ rb.recv_continuous \in 0 .. Len(q)
  BY DEF AnyBuffer
<1>3. e \in Element
  BY DEF AnySegment, Element
<1>4. pos \in 1 .. Len(q) + 1
  <2>1. pos \in First(rb) .. Len(q) + 1
    BY <1>2, InsertPositionIs
  <2>2. First(rb) \in Nat /\ First(rb) >= 1
    BY <1>2 DEF First
  <2> HIDE DEF q, pos
  <2> QED BY <1>2, <2>1, <2>2
<1> HIDE DEF e, pos
<1>5. z \in Seq(Element) /\ Len(z) = Len(q) + 1
  BY <1>2, <1>3, <1>4, InsertAtIs
<1> HIDE DEF z
<1>6. /\ linked \in AnyBuffer /\ linked.list = z
      /\ linked.recv_continuous = rb.recv_continuous
  BY <1>5 DEF AnyBuffer
<1>7. linked.recv_continuous <= Len(linked.list)
  <2> HIDE DEF q, linked
  <2> QED BY <1>2, <1>5, <1>6
<1> HIDE DEF linked
<1>8. u \in AnyBuffer /\ u.list = z /\ u.recv_continuous <= Len(z)
  BY <1>6, <1>7, UpdateContinuousType
<1> HIDE DEF u
<1>9. push \in BOOLEAN
  OBVIOUS
<1> HIDE DEF push
<1>10. LET i == [u EXCEPT !.pushFlag = push]
       IN  i \in AnyBuffer /\ i.list = z /\ i.recv_continuous = u.recv_continuous
  BY <1>8, <1>9 DEF AnyBuffer
<1> QED BY <1>1, <1>5, <1>8, <1>10

\* A received segment is stored or freed.
LEMMA HandleDataHolds ==
  ASSUME NEW s, NEW n, Holds(s, n), NEW seg \in AnySegment
  PROVE  LET r == handleData(s, seg) IN Holds(r, n + 1) /\ Kept(s, r)
<1> DEFINE f == freeReceivedSegment(s)
           i == insert(s.receiveBuffer, seg, seg.seq, seg.len)
           a == [f EXCEPT !.ACK_triggered = TRUE]
           b == [s EXCEPT !.receiveBuffer = i, !.ACK_triggered = TRUE]
<1>1. handleData(s, seg) \in {f, a, b}
  BY DEF handleData
<1>2. Holds(f, n + 1) /\ Kept(s, f)
  BY FreeHolds, FreeKept
<1>3. Holds(a, n + 1) /\ Kept(s, a)
  <2> HIDE DEF f
  <2>1. Holds(a, n + 1) /\ Kept(f, a)
    BY <1>2, SetTriggered
  <2> QED BY <1>2, <2>1 DEF Kept
<1>4. s \in AnySocket /\ s.receiveBuffer \in AnyBuffer
      /\ s.receiveBuffer.recv_continuous <= Len(s.receiveBuffer.list)
  BY DEF Holds, AnySocket
<1>5. /\ i \in AnyBuffer /\ Len(i.list) = Len(s.receiveBuffer.list) + 1
      /\ i.recv_continuous <= Len(i.list)
  BY <1>4, InsertType
<1> HIDE DEF i
<1>6. /\ b \in AnySocket /\ b.receiveBuffer = i /\ b.mempool = s.mempool
      /\ b.history = s.history /\ b.packetbuffer = s.packetbuffer /\ Kept(s, b)
  BY <1>4, <1>5 DEF AnySocket, Kept
<1> HIDE DEF b
<1>7. Bounded(b)
  BY <1>5, <1>6 DEF Bounded, Holds
<1>8. Gained(s, b) = 1
  <2>1. /\ s.mempool \in Nat /\ Len(s.packetbuffer) \in Nat /\ Len(s.history) \in Nat
        /\ Len(s.receiveBuffer.list) \in Nat
    BY HoldsIs
  <2>2. Len(b.receiveBuffer.list) = Len(s.receiveBuffer.list) + 1
    BY <1>5, <1>6
  <2> QED BY <1>6, <2>1, <2>2 DEF Gained
<1>9. Holds(b, n + 1)
  BY <1>7, <1>8, GainHolds
<1> QED BY <1>1, <1>2, <1>3, <1>6, <1>9

\* Sequences put one behind the other are a sequence.
LEMMA FlattenType ==
  ASSUME NEW T, NEW b \in Seq(Seq(T))
  PROVE  FlattenSeq(b) \in Seq(T)
<1> DEFINE k == Len(b)
           A == Seq(T)
           cat(x, i) == x \o b[i]
           Is(g) == g = [i \in 1 .. k |-> IF i = 1 THEN b[i] ELSE cat(g[i - 1], i)]
           flat == CHOOSE g : Is(g)
           step == [x \in (1 .. k) \X A |-> IF x[1] = 1 THEN b[x[1]] ELSE cat(x[2], x[1])]
<1>1. k \in Nat /\ \A i \in 1 .. k : b[i] \in A
  OBVIOUS
<1>2. <<>> \in A /\ \A x \in A, i \in 1 .. k : cat(x, i) \in A
  BY <1>1
<1>3. CASE k = 0
  <2>1. FlattenSeq(b) = b
    BY <1>3 DEF FlattenSeq
  <2>2. b = <<>>
    BY <1>3
  <2> QED BY <1>2, <2>1, <2>2
<1>4. CASE k # 0
  <2>1. FlattenSeq(b) = flat[k]
    BY <1>4 DEF FlattenSeq
  <2> HIDE DEF k, A, cat
  <2>2. step \in [(1 .. k) \X A -> A]
    BY <1>1, <1>2
  <2> HIDE DEF step
  <2>3. PICK f : IsRecursive(f, A, <<>>, k, step)
    BY <1>1, <1>2, <2>2, Recursion, Zenon
  <2> DEFINE g == [i \in 1 .. k |-> f[i]]
  <2>4. \A i \in 1 .. k : f[i] = IF i = 1 THEN b[i] ELSE cat(g[i - 1], i)
    <3> TAKE i \in 1 .. k
    <3>1. i - 1 \in 0 .. k /\ (i # 1 => i - 1 \in 1 .. k)
      BY <1>1
    <3>2. f[i - 1] \in A /\ f[i] = step[<<i, f[i - 1]>>]
      BY <2>3, <3>1 DEF IsRecursive
    <3>3. <<i, f[i - 1]>> \in (1 .. k) \X A
      BY <3>2
    <3>4. step[<<i, f[i - 1]>>] = IF i = 1 THEN b[i] ELSE cat(f[i - 1], i)
      BY <3>3 DEF step
    <3> QED BY <3>1, <3>2, <3>4
  <2>5. Is(g)
    <3> DEFINE v(i) == IF i = 1 THEN b[i] ELSE cat(g[i - 1], i)
    <3>1. \A i \in 1 .. k : f[i] = v(i)
      BY <2>4
    <3> HIDE DEF v
    <3>2. g = [i \in 1 .. k |-> v(i)]
      BY <3>1
    <3> QED BY <3>2 DEF v
  <2>6. Is(flat)
    <3> HIDE DEF g
    <3> QED BY <2>5
  <2> HIDE DEF flat
  <2>7. \A i \in 1 .. k : flat[i] = IF i = 1 THEN b[i] ELSE cat(flat[i - 1], i)
    <3> DEFINE v(i) == IF i = 1 THEN b[i] ELSE cat(flat[i - 1], i)
    <3>1. flat = [i \in 1 .. k |-> v(i)]
      BY <2>6
    <3> HIDE DEF v
    <3>2. \A i \in 1 .. k : flat[i] = v(i)
      BY <3>1
    <3> QED BY <3>2 DEF v
  <2> DEFINE m == k - 1
             S == {j \in 0 .. m : flat[j + 1] \in A}
  <2>8. 0 \in S
    <3>1. 1 \in 1 .. k /\ 0 \in 0 .. m /\ 0 + 1 = 1
      BY <1>1, <1>4
    <3>2. flat[1] \in A
      BY <1>1, <2>7, <3>1
    <3> QED BY <3>1, <3>2
  <2>9. ASSUME NEW j \in 0 .. m - 1, j \in S PROVE j + 1 \in S
    <3>1. j + 2 \in 1 .. k /\ j + 2 # 1 /\ (j + 2) - 1 = j + 1 /\ j + 1 \in 0 .. m /\ (j + 1) + 1 = j + 2
      BY <1>1
    <3>2. flat[j + 2] = cat(flat[j + 1], j + 2)
      BY <2>7, <3>1
    <3>3. flat[j + 1] \in A
      BY <2>9
    <3>4. flat[j + 2] \in A
      BY <1>2, <3>1, <3>2, <3>3
    <3> QED BY <3>1, <3>4
  <2>10. m \in Nat /\ m + 1 = k
    BY <1>1, <1>4
  <2> HIDE DEF S, m
  <2>11. \A j \in 0 .. m : j \in S
    BY <2>8, <2>9, <2>10, IntervalInduction
  <2>12. m \in S
    BY <2>10, <2>11
  <2> QED BY <2>1, <2>10, <2>12 DEF S, A
<1> QED BY <1>3, <1>4

LEMMA RemainderIs ==
  ASSUME NEW rb \in AnyBuffer, NEW len \in Nat
  PROVE  LET k == Consumed(rb, len)
             part == Remainder(rb, len)
         IN  /\ k \in 0 .. Len(rb.list) /\ part \in Nat
             /\ k < Len(rb.list) => rb.list[k + 1] \in Element /\ part < rb.list[k + 1].len
<1> DEFINE q == rb.list
           k == Consumed(rb, len)
           part == Remainder(rb, len)
           B(j) == Bytes(SubSeq(q, 1, j))
<1>1. q \in Seq(Element) /\ Len(q) \in Nat
  BY DEF AnyBuffer
<1>2. k \in 0 .. Len(q) /\ B(k) <= len /\ (k < Len(q) => B(k + 1) > len)
  BY <1>1, ConsumedIs
<1>3. part = len - B(k)
  BY DEF Remainder
<1>4. /\ \A j \in 0 .. Len(q) : B(j) \in Nat
      /\ \A j \in 1 .. Len(q) : B(j) = B(j - 1) + q[j].len
  BY <1>1, BytesPrefix
<1> HIDE DEF B, k, part
<1>5. part \in Nat /\ B(k) \in Nat
  BY <1>2, <1>3, <1>4
<1>6. k < Len(q) => q[k + 1] \in Element /\ part < q[k + 1].len
  <2> SUFFICES ASSUME k < Len(q) PROVE q[k + 1] \in Element /\ part < q[k + 1].len
    OBVIOUS
  <2>1. k + 1 \in 1 .. Len(q) /\ (k + 1) - 1 = k
    BY <1>1, <1>2
  <2>2. q[k + 1] \in Element
    BY <1>1, <2>1
  <2>3. q[k + 1].len \in Nat
    BY <2>2 DEF Element
  <2>4. B(k + 1) = B(k) + q[k + 1].len
    BY <1>4, <2>1
  <2> HIDE DEF q
  <2> QED BY <1>2, <1>3, <1>5, <2>2, <2>3, <2>4
<1> QED BY <1>2, <1>5, <1>6 DEF k, part

LEMMA CopyDataType ==
  ASSUME NEW rb \in AnyBuffer, rb.recv_continuous <= Len(rb.list),
         NEW len \in Nat, len <= rb.recv_bytes
  PROVE  LET c == copyData(rb, len)
         IN  /\ c \in AnyBuffer /\ Len(c.list) = Len(rb.list) - Consumed(rb, len)
             /\ c.recv_continuous <= Len(c.list)
<1> DEFINE q == rb.list
           k == Consumed(rb, len)
           rest == SubSeq(q, k + 1, Len(q))
           part == Remainder(rb, len)
           e == increment(rest[1], part)
           list == IF part > 0 /\ rest # <<>> THEN [rest EXCEPT ![1] = increment(@, part)] ELSE rest
           cont == IF rb.recv_continuous <= k THEN 0 ELSE rb.recv_continuous - k
           bytes == rb.recv_bytes - len
           first == SeqAdd(rb.read_firstSeqNum, len)
           push == rb.pushFlag /\ ~(k > 0 /\ rest = <<>>)
           c == copyData(rb, len)
<1>1. c = [list |-> list, recv_continuous |-> cont, recv_bytes |-> bytes,
           read_firstSeqNum |-> first, pushFlag |-> push]
  BY DEF copyData
<1>2. /\ q \in Seq(Element) /\ Len(q) \in Nat /\ rb.recv_continuous \in Nat
      /\ rb.recv_continuous <= Len(q) /\ rb.recv_bytes \in Nat
      /\ rb.read_firstSeqNum \in SeqNum /\ rb.pushFlag \in BOOLEAN
  BY DEF AnyBuffer
<1>3. /\ k \in 0 .. Len(q) /\ part \in Nat
      /\ k < Len(q) => q[k + 1] \in Element /\ part < q[k + 1].len
  BY RemainderIs
<1>4. first \in SeqNum /\ push \in BOOLEAN
  <2>1. first \in SeqNum
    BY <1>2, SeqAddSeqNum
  <2> QED BY <2>1
<1> HIDE DEF q, k, part, first, push, c
<1>5. rest \in Seq(Element) /\ Len(rest) = Len(q) - k /\ (rest # <<>> => k < Len(q) /\ rest[1] = q[k + 1])
  BY <1>2, <1>3
<1>6. list \in Seq(Element) /\ Len(list) = Len(q) - k
  <2>1. CASE ~(part > 0 /\ rest # <<>>)
    BY <1>5, <2>1
  <2>2. CASE part > 0 /\ rest # <<>>
    <3>1. list = [rest EXCEPT ![1] = e]
      BY <2>2
    <3>2. e \in Element
      <4> DEFINE x == rest[1]
      <4>1. x \in Element /\ part < x.len
        BY <1>3, <1>5, <2>2
      <4> HIDE DEF x
      <4>2. x.seqNum \in SeqNum /\ x.len \in Nat /\ x.data \in Nat
        BY <4>1 DEF Element
      <4>3. SeqAdd(x.seqNum, part) \in SeqNum
        BY <1>3, <4>2, SeqAddSeqNum
      <4>4. x.len - part \in Nat /\ x.data + part \in Nat
        BY <1>3, <4>1, <4>2
      <4>5. increment(x, part) \in Element
        BY <4>3, <4>4 DEF increment, Element
      <4> QED BY <4>5 DEF x
    <3> DEFINE j == Len(rest)
    <3> HIDE DEF rest
    <3>3. rest \in [1 .. j -> Element] /\ j \in Nat
      BY <1>5
    <3> HIDE DEF e, list, j
    <3>4. list \in [1 .. j -> Element]
      BY <3>1, <3>2, <3>3
    <3>5. list \in Seq(Element) /\ Len(list) = j
      BY <3>3, <3>4
    <3> QED BY <1>5, <3>5 DEF j
  <2> QED BY <2>1, <2>2
<1>7. cont \in Nat /\ cont <= Len(q) - k
  BY <1>2, <1>3
<1>8. bytes \in Nat
  BY <1>2
<1> HIDE DEF list, cont, bytes
<1>9. c \in AnyBuffer /\ c.list = list /\ c.recv_continuous = cont
  BY <1>1, <1>4, <1>6, <1>7, <1>8 DEF AnyBuffer
<1> QED BY <1>6, <1>7, <1>9 DEF c, q, k

LEMMA CopiedBytesType ==
  ASSUME NEW rb \in AnyBuffer, NEW len \in Nat
  PROVE  copiedBytes(rb, len) \in Seq(Nat)
<1> DEFINE q == rb.list
           k == Consumed(rb, len)
           part == Remainder(rb, len)
           whole == [i \in 1 .. k |-> BytesOf(q[i], q[i].len)]
           last == IF k < Len(q) THEN BytesOf(q[k + 1], part) ELSE <<>>
<1>1. copiedBytes(rb, len) = FlattenSeq(whole) \o last
  BY DEF copiedBytes
<1>2. q \in Seq(Element) /\ Len(q) \in Nat
  BY DEF AnyBuffer
<1>3. /\ k \in 0 .. Len(q) /\ part \in Nat
      /\ k < Len(q) => q[k + 1] \in Element
  BY RemainderIs
<1> HIDE DEF q, k, part
<1>4. ASSUME NEW e \in Element, NEW j \in Nat PROVE BytesOf(e, j) \in Seq(Nat)
  <2>1. e.data \in Nat
    BY DEF Element
  <2> DEFINE v(i) == e.data + i - 1
  <2>2. \A i \in 1 .. j : v(i) \in Nat
    BY <2>1
  <2>3. BytesOf(e, j) = [i \in 1 .. j |-> v(i)]
    BY DEF BytesOf
  <2> HIDE DEF v
  <2>4. BytesOf(e, j) \in [1 .. j -> Nat]
    BY <2>2, <2>3
  <2> QED BY <2>4
<1>5. whole \in Seq(Seq(Nat))
  <2> DEFINE v(i) == BytesOf(q[i], q[i].len)
  <2>1. \A i \in 1 .. k : v(i) \in Seq(Nat)
    <3> TAKE i \in 1 .. k
    <3>1. q[i] \in Element
      BY <1>2, <1>3
    <3>2. q[i].len \in Nat
      BY <3>1 DEF Element
    <3> QED BY <1>4, <3>1, <3>2
  <2> HIDE DEF v
  <2>2. whole = [i \in 1 .. k |-> v(i)] /\ k \in Nat
    BY <1>3 DEF v
  <2> HIDE DEF whole
  <2>3. whole \in [1 .. k -> Seq(Nat)]
    BY <2>1, <2>2
  <2> QED BY <2>2, <2>3
<1>6. last \in Seq(Nat)
  <2>1. <<>> \in Seq(Nat)
    OBVIOUS
  <2> QED BY <1>3, <1>4, <2>1
<1> HIDE DEF whole, last
<1>7. FlattenSeq(whole) \in Seq(Nat)
  BY <1>5, FlattenType
<1> QED BY <1>1, <1>6, <1>7

\* A read frees the elements it consumes.
LEMMA ReadBytesHolds ==
  ASSUME NEW s, NEW n, Holds(s, n), NEW len \in Nat,
         len <= s.receiveBuffer.recv_bytes, len <= s.buflen
  PROVE  LET r == ReadBytes(s, len)
         IN  Holds(r, n) /\ r.state = s.state /\ r.waiting = s.waiting
<1> DEFINE rb == s.receiveBuffer
           c == copyData(rb, len)
           d == s.read \o copiedBytes(rb, len)
           k == Consumed(rb, len)
           m == s.mempool + k
           a == s.recv_len + len
           b == s.buflen - len
           r == ReadBytes(s, len)
<1>1. r = [s EXCEPT !.receiveBuffer = c, !.read = d, !.mempool = m, !.recv_len = a, !.buflen = b]
  BY DEF ReadBytes
<1>2. /\ s \in AnySocket /\ rb \in AnyBuffer /\ rb.recv_continuous <= Len(rb.list)
      /\ Len(rb.list) \in Nat /\ s.mempool \in Nat
  BY HoldsIs DEF Holds, AnySocket
<1>3. s.read \in Seq(Nat) /\ s.recv_len \in Nat /\ s.buflen \in Nat
  BY <1>2 DEF AnySocket
<1>4. /\ c \in AnyBuffer /\ Len(c.list) = Len(rb.list) - k
      /\ c.recv_continuous <= Len(c.list) /\ k \in 0 .. Len(rb.list)
  BY <1>2, CopyDataType, RemainderIs
<1>5. d \in Seq(Nat)
  <2>1. copiedBytes(rb, len) \in Seq(Nat)
    BY <1>2, CopiedBytesType
  <2> QED BY <1>3, <2>1
<1> HIDE DEF c, d, k, r
<1>6. m \in Nat /\ a \in Nat /\ b \in Nat /\ k \in Nat
  <2>1. k \in Nat
    BY <1>2, <1>4
  <2> QED BY <1>2, <1>3, <2>1, SMTT(30)
<1> HIDE DEF m, a, b
<1>7. /\ r \in AnySocket /\ r.receiveBuffer = c /\ r.mempool = m
      /\ r.history = s.history /\ r.packetbuffer = s.packetbuffer
      /\ r.state = s.state /\ r.waiting = s.waiting
  BY <1>1, <1>2, <1>4, <1>5, <1>6 DEF AnySocket
<1>8. Bounded(r)
  BY <1>4, <1>7 DEF Bounded, Holds
<1>9. Gained(s, r) = 0
  <2>1. Len(s.packetbuffer) \in Nat /\ Len(s.history) \in Nat
    BY HoldsIs
  <2>2. r.mempool = s.mempool + k /\ Len(r.receiveBuffer.list) = Len(s.receiveBuffer.list) - k
    BY <1>4, <1>7 DEF m
  <2> QED BY <1>2, <1>6, <1>7, <2>1, <2>2, SMTT(30) DEF Gained
<1>10. Holds(r, n + 0) /\ n \in Nat
  BY <1>8, <1>9, GainHolds, HoldsIs
<1> QED BY <1>7, <1>10 DEF r

-----------------------------------------------------------------------------
(* Sending.                                                                 *)

LEMMA SendSegmentHolds ==
  ASSUME NEW s, NEW n, Holds(s, n), s.state # "CLOSED", NEW env, NEW len \in Nat,
         len <= s.buflen, s.sendWindow = 0 \/ len <= s.sendWindow
  PROVE  LET r == sendSegment(s, env, len)
         IN  Holds(r, n) /\ Kept(s, r)
<1> DEFINE flags == IF s.buflen = len THEN {"PSH"} ELSE {}
           ack == getAckNum(s.receiveBuffer)
           hdr == writeHeaderWithAck(s, flags, ack)
           seg == [hdr EXCEPT !.len = len, !.data = s.buf]
           T == Transmit(s, env, seg, TRUE)
           r == sendSegment(s, env, len)
<1>1. r = IF ~requestSendBufferTCP(s, env) THEN Reclaim(s, env)
          ELSE [T EXCEPT !.buflen = @ - len, !.buf = @ + len,
                         !.seqnum_next = SeqAdd(@, len),
                         !.sendWindow = IF @ = 0 THEN 0 ELSE @ - len]
  BY DEF sendSegment
<1>2. CASE ~requestSendBufferTCP(s, env)
  BY <1>1, <1>2, ReclaimHolds
<1>3. CASE requestSendBufferTCP(s, env)
  <2>1. s \in AnySocket /\ flags \in SUBSET Flags /\ ack \in SeqNum
    BY HoldsIs, AckNumType DEF Flags
  <2>2. hdr \in AnySegment
    BY <2>1, HeaderType
  <2>3. s.buf \in Nat /\ s.buflen \in Nat /\ s.sendWindow \in 0 .. WINDOW_MAX /\ s.seqnum_next \in SeqNum
    BY <2>1 DEF AnySocket
  <2> HIDE DEF hdr
  <2>4. seg \in AnySegment
    BY <2>2, <2>3 DEF AnySegment
  <2> HIDE DEF seg
  <2>5. Holds(T, n) /\ Kept(s, T) /\ Frame(s, T)
    BY <1>3, <2>4, TransmitHolds
  <2> HIDE DEF T
  <2>6. T.buflen = s.buflen /\ T.buf = s.buf /\ T.sendWindow = s.sendWindow /\ T.seqnum_next = s.seqnum_next
    BY <2>1, <2>5, FrameIs
  <2>7. T \in AnySocket
    BY <2>5, HoldsIs
  <2> DEFINE a == s.buflen - len
             b == s.buf + len
             x == SeqAdd(s.seqnum_next, len)
             w == IF s.sendWindow = 0 THEN 0 ELSE s.sendWindow - len
             u == [T EXCEPT !.buflen = a, !.buf = b, !.seqnum_next = x, !.sendWindow = w]
  <2>8. r = u
    BY <1>1, <1>3, <2>6
  <2>9. a \in Nat /\ b \in Nat /\ w \in 0 .. WINDOW_MAX
    BY <2>3, Constants
  <2>10. x \in SeqNum
    BY <2>3, SeqAddSeqNum
  <2> HIDE DEF a, b, x, w, r
  <2>11. Holds(u, n) /\ Kept(T, u)
    BY <2>5, <2>7, <2>9, <2>10, SameHolds DEF AnySocket, Kept
  <2> QED BY <2>5, <2>8, <2>11 DEF Kept, r
<1> QED BY <1>2, <1>3

LEMMA SendNextSegmentHolds ==
  ASSUME NEW s, NEW n, Holds(s, n), s.state # "CLOSED", NEW env
  PROVE  LET r == sendNextSegment(s, env)
         IN  Holds(r, n) /\ Kept(s, r)
<1> DEFINE len == Min({s.sendWindow, s.buflen, MSS})
<1>1. s.sendWindow \in Nat /\ s.buflen \in Nat /\ MSS \in Nat
  BY HoldsIs, Constants DEF AnySocket
<1>2. len \in Nat /\ len <= s.sendWindow /\ len <= s.buflen
  BY <1>1, MinIs
<1>3. sendNextSegment(s, env) = s \/ sendNextSegment(s, env) = sendSegment(s, env, len)
  BY DEF sendNextSegment
<1> HIDE DEF len
<1>4. Holds(sendSegment(s, env, len), n) /\ Kept(s, sendSegment(s, env, len))
  BY <1>2, SendSegmentHolds
<1> QED BY <1>3, <1>4 DEF Kept

\* Any number of rounds keeps the socket within its bounds.
LEMMA ProcessSendDataHolds ==
  ASSUME NEW s, NEW n, Holds(s, n), s.state # "CLOSED", NEW env
  PROVE  LET r == processSendData(s, env)
         IN  Holds(r, n) /\ Kept(s, r)
<1> DEFINE m == s.buflen
           A == {x \in AnySocket : Holds(x, n) /\ Kept(s, x)}
           Is(f) == f = [k \in 0 .. m |-> IF k = 0 THEN s ELSE sendNextSegment(f[k - 1], env)]
           rounds == CHOOSE f : Is(f)
           step == [x \in (1 .. m) \X A |-> sendNextSegment(x[2], env)]
           r == processSendData(s, env)
<1>1. s \in AnySocket /\ m \in Nat
  BY HoldsIs DEF AnySocket
<1>2. s \in A
  BY <1>1 DEF Kept
<1>3. \A x \in A : sendNextSegment(x, env) \in A
  <2> SUFFICES ASSUME NEW x \in A PROVE sendNextSegment(x, env) \in A
    OBVIOUS
  <2>1. Holds(x, n) /\ Kept(s, x) /\ x.state # "CLOSED"
    BY DEF Kept
  <2> DEFINE y == sendNextSegment(x, env)
  <2>2. Holds(y, n) /\ Kept(x, y)
    BY <2>1, SendNextSegmentHolds
  <2> HIDE DEF y
  <2>3. y \in AnySocket /\ Kept(s, y)
    BY <2>1, <2>2, HoldsIs DEF Kept
  <2> QED BY <2>2, <2>3 DEF y
<1> HIDE DEF A, m
<1>4. step \in [(1 .. m) \X A -> A]
  BY <1>3
<1> HIDE DEF step
<1>5. PICK f : IsRecursive(f, A, s, m, step)
  BY <1>1, <1>2, <1>4, Recursion, Zenon
<1>6. \A k \in 0 .. m : f[k] \in A /\ f[k] = IF k = 0 THEN s ELSE sendNextSegment(f[k - 1], env)
  <2> TAKE k \in 0 .. m
  <2>1. f[k] \in A
    BY <1>5 DEF IsRecursive
  <2>2. CASE k = 0
    BY <1>5, <2>1, <2>2 DEF IsRecursive
  <2>3. CASE k # 0
    <3>1. k \in 1 .. m /\ k - 1 \in 0 .. m
      BY <1>1, <2>3
    <3>2. f[k - 1] \in A /\ f[k] = step[<<k, f[k - 1]>>]
      BY <1>5, <3>1 DEF IsRecursive
    <3>3. <<k, f[k - 1]>> \in (1 .. m) \X A
      BY <3>1, <3>2
    <3>4. step[<<k, f[k - 1]>>] = sendNextSegment(f[k - 1], env)
      BY <3>3 DEF step
    <3> QED BY <2>1, <2>3, <3>2, <3>4
  <2> QED BY <2>2, <2>3
<1>7. Is(f)
  BY <1>5, <1>6 DEF IsRecursive
<1>8. Is(rounds)
  BY <1>7
<1> HIDE DEF rounds
<1>9. \A k \in 0 .. m : rounds[k] = IF k = 0 THEN s ELSE sendNextSegment(rounds[k - 1], env)
  BY <1>8
<1>10. rounds[m] \in A
  <2> DEFINE S == {k \in 0 .. m : rounds[k] \in A}
  <2>1. 0 \in S
    BY <1>1, <1>2, <1>9
  <2>2. ASSUME NEW k \in 0 .. m - 1, k \in S PROVE k + 1 \in S
    <3>1. k + 1 \in 0 .. m /\ k + 1 # 0 /\ (k + 1) - 1 = k
      BY <1>1
    <3>2. rounds[k + 1] = sendNextSegment(rounds[k], env)
      BY <1>9, <3>1
    <3> QED BY <1>3, <2>2, <3>1, <3>2
  <2> HIDE DEF S
  <2>3. \A k \in 0 .. m : k \in S
    BY <1>1, <2>1, <2>2, IntervalInduction
  <2> QED BY <1>1, <2>3 DEF S
<1>11. CASE s.buflen = 0
  <2>1. r = s
    BY <1>11 DEF processSendData
  <2> QED BY <2>1 DEF Kept
<1>12. CASE s.buflen > 0 /\ s.sendWindow = 0
  <2>1. r = s \/ r = sendSegment(s, env, 1)
    BY <1>12 DEF processSendData
  <2>2. 1 <= s.buflen
    BY <1>1, <1>12 DEF m
  <2>3. Holds(sendSegment(s, env, 1), n) /\ Kept(s, sendSegment(s, env, 1))
    BY <1>12, <2>2, SendSegmentHolds
  <2> QED BY <2>1, <2>3 DEF Kept
<1>13. CASE s.buflen # 0 /\ ~(s.buflen > 0 /\ s.sendWindow = 0)
  <2>1. r = rounds[m]
    BY <1>13 DEF processSendData, rounds, m
  <2> QED BY <1>10, <2>1 DEF A
<1> QED BY <1>11, <1>12, <1>13

LEMMA FinishSendingHolds ==
  ASSUME NEW s, NEW n, Holds(s, n)
  PROVE  LET r == FinishSending(s) IN Holds(r, n) /\ r.state = s.state
BY SetWaiting DEF FinishSending

-----------------------------------------------------------------------------
(* The state machine.                                                       *)

Opening == {"LISTEN", "SYNSENT", "SYNRCVD"}
Opened  == {"ESTABLISHED", "CLOSEWAIT"}
Ending  == {"FINWAIT1", "FINWAIT2", "CLOSING", "TIMEWAIT", "LASTACK"}

\* What one call of input() may make of a socket: it is opened, stays open
\* or comes to its end, and while it is opened or closed the call that
\* waits for this goes on waiting.  With the retransmission counter woven a
\* killed connection may stay behind in FINWAIT2 or TIMEWAIT, and nobody waits.
Leads(s, r) ==
    /\ s.state = "CLOSED" => r.state = "CLOSED"
    /\ s.state \in Opening =>
         \/ r.state \in Opening /\ r.waiting = s.waiting
         \/ r.state \in Opened \cup {"CLOSED"}
    /\ s.state \in Opened => r.state \in Opened \cup {"CLOSED"}
    /\ s.state \in Ending =>
         \/ r.state \in Ending /\ (r.waiting = s.waiting \/ RetransmissionCounter)
         \/ r.state = "CLOSED"

LEMMA KeptLeads == ASSUME NEW s, NEW r, Kept(s, r) PROVE Leads(s, r)
BY DEF Kept, Leads, Opening, Opened, Ending

LEMMA AbortedLeads == ASSUME NEW s, NEW r, Aborted(r) PROVE Leads(s, r)
BY DEF Aborted, Leads

LEMMA KeptTrans ==
  ASSUME NEW s, NEW t, NEW r, Kept(s, t), Kept(t, r) PROVE Kept(s, r)
BY DEF Kept

LEMMA ClosedHolds ==
  ASSUME NEW s, NEW n, Holds(s, n), NEW seg, s.state = "CLOSED"
  PROVE  /\ Holds(closed(s, seg), n + 1) /\ Leads(s, closed(s, seg))
         /\ Holds(closedIdle(s), n) /\ Leads(s, closedIdle(s))
<1> DEFINE f == freeReceivedSegment(s)
<1>1. Holds(f, n + 1) /\ Kept(s, f)
  BY FreeHolds, FreeKept
<1> HIDE DEF f
<1>2. Holds([f EXCEPT !.waiting = FALSE], n + 1) /\ [f EXCEPT !.waiting = FALSE].state = f.state
  BY <1>1, SetWaiting
<1>3. Holds([s EXCEPT !.waiting = FALSE], n) /\ [s EXCEPT !.waiting = FALSE].state = s.state
  BY SetWaiting
<1> QED BY <1>1, <1>2, <1>3 DEF closed, closedIdle, f, Kept, Leads, Opening, Opened, Ending

LEMMA SegmentIs ==
  ASSUME NEW seg \in AnySegment
  PROVE  /\ seg.seq \in SeqNum /\ seg.ack \in SeqNum
         /\ SeqAdd(seg.seq, 1) \in SeqNum
<1>1. seg.seq \in SeqNum /\ seg.ack \in SeqNum
  BY DEF AnySegment
<1> QED BY <1>1, SeqAddSeqNum

\* An answer to a SYN: requested before, sent after the state has changed.
LEMMA AnswerSYN ==
  ASSUME NEW s, NEW n, Holds(s, n), NEW env, s.state \in Opening,
         requestSendBufferTCP(s, env), NEW k \in SeqNum
  PROVE  LET rcv == [s EXCEPT !.state = "SYNRCVD"]
             hdr == writeHeaderWithAck(rcv, {"SYN"}, getAckNum(s.receiveBuffer))
             seg == [hdr EXCEPT !.seq = k]
         IN  /\ Holds(rcv, n) /\ hdr \in AnySegment /\ seg \in AnySegment
             /\ requestSendBufferTCP(rcv, env)
             /\ rcv.state = "SYNRCVD" /\ rcv.waiting = s.waiting
<1> DEFINE rcv == [s EXCEPT !.state = "SYNRCVD"]
           ack == getAckNum(s.receiveBuffer)
           hdr == writeHeaderWithAck(rcv, {"SYN"}, ack)
<1>1. "SYNRCVD" \in States /\ "SYNRCVD" # "CLOSED" /\ s.state # "CLOSED"
  BY DEF States, Opening
<1>2. Holds(rcv, n) /\ rcv.state = "SYNRCVD" /\ rcv.waiting = s.waiting
  BY <1>1, SetState
<1>3. requestSendBufferTCP(rcv, env)
  BY <1>1, RequestInState
<1>4. ack \in SeqNum /\ {"SYN"} \in SUBSET Flags
  BY AckNumType DEF Flags
<1> HIDE DEF rcv, ack
<1>5. rcv \in AnySocket
  BY <1>2, HoldsIs
<1>6. hdr \in AnySegment
  BY <1>4, <1>5, HeaderType
<1> HIDE DEF hdr
<1>7. [hdr EXCEPT !.seq = k] \in AnySegment
  BY <1>6 DEF AnySegment
<1> QED BY <1>2, <1>3, <1>6, <1>7 DEF rcv, ack, hdr

LEMMA ListenHolds ==
  ASSUME NEW s, NEW n, Holds(s, n), NEW env, NEW seg \in AnySegment, s.state = "LISTEN"
  PROVE  LET r == listen(s, env, seg) IN Holds(r, n + 1) /\ Leads(s, r)
<1> DEFINE a == [s EXCEPT !.receiveBuffer = setFirstSeqNum(@, SeqAdd(seg.seq, 1))]
           f == freeReceivedSegment(a)
           rcv == [f EXCEPT !.state = "SYNRCVD"]
           ack == writeHeaderWithAck(rcv, {"SYN"}, getAckNum(f.receiveBuffer))
           t == Transmit(rcv, env, ack, TRUE)
           u == [t EXCEPT !.seqnum_next = SeqAdd(@, 1)]
           r == listen(s, env, seg)
<1>1. r = IF has(seg, "RST") THEN handleRST(s)
          ELSE IF requestSendBufferTCP(f, env) THEN u ELSE Reclaim(f, env)
  BY DEF listen
<1>2. Holds(a, n) /\ Kept(s, a)
  BY SegmentIs, SetFirst
<1> HIDE DEF a
<1>3. Holds(f, n + 1) /\ Kept(a, f)
  BY <1>2, FreeHolds, FreeKept
<1> HIDE DEF f
<1>4. Kept(s, f) /\ f.state = "LISTEN" /\ f.waiting = s.waiting
  BY <1>2, <1>3 DEF Kept
<1>5. CASE has(seg, "RST")
  BY <1>1, <1>5, HandleRSTHolds, AbortedLeads
<1>6. CASE ~has(seg, "RST") /\ requestSendBufferTCP(f, env)
  <2>1. f.state \in Opening /\ 0 \in SeqNum
    BY <1>4, Constants DEF Opening
  <2>2. /\ Holds(rcv, n + 1) /\ ack \in AnySegment /\ requestSendBufferTCP(rcv, env)
        /\ rcv.state = "SYNRCVD" /\ rcv.waiting = f.waiting
    BY <1>3, <1>6, <2>1, AnswerSYN
  <2> HIDE DEF rcv, ack
  <2>3. Holds(t, n + 1) /\ Kept(rcv, t)
    BY <2>2, TransmitHolds
  <2> HIDE DEF t
  <2>4. Holds(u, n + 1) /\ Kept(t, u)
    BY <2>3, SetNext
  <2> HIDE DEF u
  <2>5. r = u
    BY <1>1, <1>6
  <2> QED BY <1>4, <2>2, <2>3, <2>4, <2>5 DEF Kept, Leads, Opening, Opened, Ending
<1>7. CASE ~has(seg, "RST") /\ ~requestSendBufferTCP(f, env)
  <2>1. Holds(Reclaim(f, env), n + 1) /\ Kept(f, Reclaim(f, env))
    BY <1>3, ReclaimHolds
  <2> QED BY <1>1, <1>4, <1>7, <2>1, KeptTrans, KeptLeads
<1> QED BY <1>5, <1>6, <1>7

LEMMA SynsentEstablishHolds ==
  ASSUME NEW s, NEW n, Holds(s, n), NEW env, NEW seg \in AnySegment
  PROVE  LET r == SynsentEstablish(s, env, seg)
         IN  Holds(r, n) /\ r.state = "ESTABLISHED"
<1> DEFINE i == initSendWindow(s, seg)
           x == SeqAdd(seg.seq, 1)
           a == [i EXCEPT !.state = "ESTABLISHED"]
           b == [a EXCEPT !.receiveBuffer = setFirstSeqNum(@, x)]
           e == clearHistory(b)
           t == sendACK(e, env)
           w == t.waiting /\ ~requestSendBufferTCP(e, env)
           r == SynsentEstablish(s, env, seg)
<1>1. r = [t EXCEPT !.waiting = w]
  <2>1. b = [i EXCEPT !.state = "ESTABLISHED",
                      !.receiveBuffer = setFirstSeqNum(@, x)]
    <3>1. i \in AnySocket
      BY SendWindowHolds, HoldsIs
    <3> HIDE DEF i
    <3>2. a.receiveBuffer = i.receiveBuffer
      BY <3>1 DEF AnySocket
    <3> QED BY <3>2
  <2> QED BY <2>1 DEF SynsentEstablish
<1>2. Holds(i, n)
  BY SendWindowHolds
<1> HIDE DEF i
<1>3. Holds(a, n) /\ a.state = "ESTABLISHED"
  BY <1>2, SetState DEF States
<1> HIDE DEF a
<1>4. Holds(b, n) /\ Kept(a, b)
  BY <1>3, SegmentIs, SetFirst
<1> HIDE DEF b
<1>5. Holds(e, n) /\ Frame(b, e) /\ b \in AnySocket
  BY <1>4, ClearHistoryHolds, HoldsIs
<1> HIDE DEF e
<1>6. e.state = "ESTABLISHED"
  BY <1>3, <1>4, <1>5, FrameIs DEF Kept
<1>7. Holds(t, n) /\ Kept(e, t)
  BY <1>5, SendACKHolds
<1> HIDE DEF t
<1>8. w \in BOOLEAN
  OBVIOUS
<1> HIDE DEF w, r
<1>9. Holds(r, n) /\ r.state = t.state
  BY <1>1, <1>7, <1>8, SetWaiting
<1> QED BY <1>6, <1>7, <1>9 DEF Kept, r

LEMMA SynsentResetHolds ==
  ASSUME NEW s, NEW n, Holds(s, n), NEW env, NEW seg \in AnySegment
  PROVE  LET r == SynsentReset(s, env, seg) IN Holds(r, n) /\ Kept(s, r)
<1> DEFINE hdr == writeHeader(s, {"RST"})
           rst == [hdr EXCEPT !.seq = seg.ack]
<1>1. s \in AnySocket /\ {"RST"} \in SUBSET Flags /\ 0 \in SeqNum /\ seg.ack \in SeqNum
  BY HoldsIs, Constants, SegmentIs DEF Flags
<1>2. hdr \in AnySegment
  BY <1>1, HeaderType
<1> HIDE DEF hdr
<1>3. rst \in AnySegment
  BY <1>1, <1>2 DEF AnySegment
<1> HIDE DEF rst
<1>4. CASE requestSendBufferTCP(s, env)
  <2>1. Holds(Transmit(s, env, rst, FALSE), n) /\ Kept(s, Transmit(s, env, rst, FALSE))
    BY <1>3, <1>4, TransmitHolds
  <2> QED BY <1>4, <2>1 DEF SynsentReset, rst, hdr
<1>5. CASE ~requestSendBufferTCP(s, env)
  BY <1>5, ReclaimHolds DEF SynsentReset
<1> QED BY <1>4, <1>5

LEMMA SynsentSimultaneousHolds ==
  ASSUME NEW s, NEW n, Holds(s, n), NEW env, NEW seg \in AnySegment, s.state \in Opening
  PROVE  LET r == SynsentSimultaneous(s, env, seg)
         IN  Holds(r, n) /\ r.state \in Opening /\ r.waiting = s.waiting
<1> DEFINE a == [s EXCEPT !.receiveBuffer = setFirstSeqNum(@, SeqAdd(seg.seq, 1))]
           c == clearHistory(a)
           rcv == [c EXCEPT !.state = "SYNRCVD"]
           hdr == writeHeaderWithAck(rcv, {"SYN"}, getAckNum(c.receiveBuffer))
           k == SeqAdd(hdr.seq, SEQMOD - 1)
           ack == [hdr EXCEPT !.seq = k]
           t == Transmit(rcv, env, ack, TRUE)
           r == SynsentSimultaneous(s, env, seg)
<1>1. r = IF requestSendBufferTCP(c, env) THEN t ELSE Reclaim(c, env)
  BY DEF SynsentSimultaneous
<1>2. Holds(a, n) /\ Kept(s, a)
  BY SegmentIs, SetFirst
<1> HIDE DEF a
<1>3. Holds(c, n) /\ Frame(a, c) /\ a \in AnySocket
  BY <1>2, ClearHistoryHolds, HoldsIs
<1> HIDE DEF c
<1>4. c.state = s.state /\ c.waiting = s.waiting
  <2>1. s.state # "CLOSED"
    BY DEF Opening
  <2> QED BY <1>2, <1>3, <2>1, FrameIs DEF Kept
<1>5. CASE requestSendBufferTCP(c, env)
  <2>1. 0 \in SeqNum /\ c.state \in Opening
    BY <1>4, Constants
  <2>2. hdr \in AnySegment
    BY <1>3, <1>5, <2>1, AnswerSYN
  <2>3. k \in SeqNum
    <3>1. hdr.seq \in SeqNum /\ SEQMOD - 1 \in Nat
      BY <2>2, Constants DEF AnySegment
    <3> QED BY <3>1, SeqAddSeqNum
  <2> HIDE DEF k
  <2>4. /\ Holds(rcv, n) /\ ack \in AnySegment /\ requestSendBufferTCP(rcv, env)
        /\ rcv.state = "SYNRCVD" /\ rcv.waiting = c.waiting
    BY <1>3, <1>5, <2>1, <2>3, AnswerSYN
  <2> HIDE DEF rcv, ack
  <2>5. Holds(t, n) /\ Kept(rcv, t)
    BY <2>4, TransmitHolds
  <2> HIDE DEF t
  <2> QED BY <1>1, <1>4, <1>5, <2>4, <2>5 DEF Kept, Opening
<1>6. CASE ~requestSendBufferTCP(c, env)
  <2>1. Holds(Reclaim(c, env), n) /\ Kept(c, Reclaim(c, env))
    BY <1>3, ReclaimHolds
  <2> QED BY <1>1, <1>4, <1>6, <2>1 DEF Kept, Opening
<1> QED BY <1>5, <1>6

LEMMA SynsentHolds ==
  ASSUME NEW s, NEW n, Holds(s, n), NEW env, NEW seg \in AnySegment, s.state = "SYNSENT"
  PROVE  LET r == synsent(s, env, seg) IN Holds(r, n + 1) /\ Leads(s, r)
<1> DEFINE f == freeReceivedSegment(s)
           h == handleACK(f, seg.ack)
           r == synsent(s, env, seg)
<1>1. r \in {SynsentEstablish(h, env, seg), SynsentReset(h, env, seg), abort(f), f,
             SynsentReset(f, env, seg), SynsentSimultaneous(f, env, seg)}
  BY DEF synsent
<1>2. Holds(f, n + 1) /\ Kept(s, f)
  BY FreeHolds, FreeKept
<1> HIDE DEF f
<1>3. Holds(h, n + 1) /\ Kept(f, h)
  BY <1>2, SegmentIs, HandleACKHolds
<1> HIDE DEF h, r
<1>4. CASE r = SynsentEstablish(h, env, seg)
  <2>1. Holds(r, n + 1) /\ r.state = "ESTABLISHED"
    BY <1>3, <1>4, SynsentEstablishHolds
  <2> QED BY <2>1 DEF Leads, Opening, Opened, Ending, r
<1>5. CASE r = SynsentReset(h, env, seg)
  <2>1. Holds(r, n + 1) /\ Kept(h, r)
    BY <1>3, <1>5, SynsentResetHolds
  <2>2. Kept(s, r)
    BY <1>2, <1>3, <2>1 DEF Kept
  <2> QED BY <2>1, <2>2, KeptLeads DEF r
<1>6. CASE r = abort(f)
  <2>1. Holds(r, n + 1) /\ Aborted(r)
    BY <1>2, <1>6, AbortHolds
  <2> QED BY <2>1, AbortedLeads DEF r
<1>7. CASE r = f
  BY <1>2, <1>7, KeptLeads DEF r
<1>8. CASE r = SynsentReset(f, env, seg)
  <2>1. Holds(r, n + 1) /\ Kept(f, r)
    BY <1>2, <1>8, SynsentResetHolds
  <2>2. Kept(s, r)
    BY <1>2, <2>1 DEF Kept
  <2> QED BY <2>1, <2>2, KeptLeads DEF r
<1>9. CASE r = SynsentSimultaneous(f, env, seg)
  <2>1. f.state \in Opening /\ f.waiting = s.waiting
    BY <1>2 DEF Kept, Opening
  <2>2. Holds(r, n + 1) /\ r.state \in Opening /\ r.waiting = f.waiting
    BY <1>2, <1>9, <2>1, SynsentSimultaneousHolds
  <2> QED BY <2>1, <2>2 DEF Leads, Opening, Opened, Ending, r
<1> QED BY <1>1, <1>4, <1>5, <1>6, <1>7, <1>8, <1>9

LEMMA SynrcvdHolds ==
  ASSUME NEW s, NEW n, Holds(s, n), NEW env, NEW seg \in AnySegment, s.state = "SYNRCVD"
  PROVE  LET r == synrcvd(s, env, seg) IN Holds(r, n + 1) /\ Leads(s, r)
<1> DEFINE h == handleACK(s, seg.ack)
           i == initSendWindow(h, seg)
           a == [i EXCEPT !.state = "ESTABLISHED"]
           b == [a EXCEPT !.waiting = FALSE]
           e == clearHistory(b)
           r == synrcvd(s, env, seg)
<1>1. r \in {handleRST(s), freeReceivedSegment(e), freeReceivedSegment(h), freeReceivedSegment(s)}
  <2>1. b = [i EXCEPT !.state = "ESTABLISHED", !.waiting = FALSE]
    OBVIOUS
  <2> HIDE DEF b
  <2> QED BY <2>1 DEF synrcvd
<1>2. Holds(h, n) /\ Kept(s, h)
  BY SegmentIs, HandleACKHolds
<1> HIDE DEF h
<1>3. Holds(i, n)
  BY <1>2, SendWindowHolds
<1> HIDE DEF i
<1>4. Holds(a, n) /\ a.state = "ESTABLISHED"
  BY <1>3, SetState DEF States
<1> HIDE DEF a
<1>5. Holds(b, n) /\ b.state = "ESTABLISHED"
  BY <1>4, SetWaiting
<1> HIDE DEF b
<1>6. Holds(e, n) /\ e.state = "ESTABLISHED"
  <2>1. Holds(e, n) /\ Frame(b, e) /\ b \in AnySocket
    BY <1>5, ClearHistoryHolds, HoldsIs
  <2> HIDE DEF e
  <2> QED BY <1>5, <2>1, FrameIs
<1> HIDE DEF e
<1>7. \A x : Holds(x, n) => Holds(freeReceivedSegment(x), n + 1) /\ Kept(x, freeReceivedSegment(x))
  BY FreeHolds, FreeKept
<1>8. Holds(handleRST(s), n + 1) /\ Leads(s, handleRST(s))
  BY HandleRSTHolds, AbortedLeads
<1>9. Holds(freeReceivedSegment(h), n + 1) /\ Leads(s, freeReceivedSegment(h))
  BY <1>2, <1>7, KeptTrans, KeptLeads
<1>10. Holds(freeReceivedSegment(s), n + 1) /\ Leads(s, freeReceivedSegment(s))
  BY <1>7, KeptLeads
<1>11. Holds(freeReceivedSegment(e), n + 1) /\ Leads(s, freeReceivedSegment(e))
  BY <1>6, <1>7 DEF Kept, Leads, Opening, Opened, Ending
<1> QED BY <1>1, <1>8, <1>9, <1>10, <1>11

\* The new state of a socket that is acknowledging a FIN.
LEMMA AckFINState ==
  ASSUME NEW s, NEW n, Holds(s, n), NEW env, NEW st \in States
  PROVE  LET r == [AckFIN(s, env) EXCEPT !.state = st]
         IN  /\ Holds(r, n) /\ r.state = st
             /\ s.state # "CLOSED" => r.waiting = s.waiting
<1> DEFINE a == AckFIN(s, env)
<1>1. Holds(a, n) /\ Kept(s, a)
  BY AckFINHolds
<1> HIDE DEF a
<1>2. Holds([a EXCEPT !.state = st], n) /\ [a EXCEPT !.state = st].state = st
      /\ [a EXCEPT !.state = st].waiting = a.waiting
  BY <1>1, SetState
<1> QED BY <1>1, <1>2 DEF Kept, a

\* The segment's ACK, FIN and data.
LEMMA SegmentHandled ==
  ASSUME NEW s, NEW n, Holds(s, n), NEW seg \in AnySegment
  PROVE  /\ LET d == handleData(handleFIN(ackIf(s, seg), seg), seg)
            IN  Holds(d, n + 1) /\ Kept(s, d)
         /\ LET d == handleData(handleFIN(s, seg), seg)
            IN  Holds(d, n + 1) /\ Kept(s, d)
<1> DEFINE a == ackIf(s, seg)
           b == handleFIN(a, seg)
           c == handleFIN(s, seg)
<1>1. Holds(a, n) /\ Kept(s, a)
  BY AckIfHolds
<1> HIDE DEF a
<1>2. Holds(b, n) /\ Kept(a, b) /\ Holds(c, n) /\ Kept(s, c)
  BY <1>1, HandleFINHolds
<1> HIDE DEF b, c
<1>3. Holds(handleData(b, seg), n + 1) /\ Kept(b, handleData(b, seg))
  BY <1>2, HandleDataHolds
<1>4. Holds(handleData(c, seg), n + 1) /\ Kept(c, handleData(c, seg))
  BY <1>2, HandleDataHolds
<1> QED BY <1>1, <1>2, <1>3, <1>4, KeptTrans DEF a, b, c

LEMMA EstablishedHolds ==
  ASSUME NEW s, NEW n, Holds(s, n), NEW env, NEW seg \in AnySegment, s.state = "ESTABLISHED"
  PROVE  LET r == established(s, env, seg) IN Holds(r, n + 1) /\ Leads(s, r)
<1> DEFINE g == handleData(handleFIN(ackIf(s, seg), seg), seg)
           d == updateSendWindow(g, seg)
           e == [AckFIN(d, env) EXCEPT !.state = "CLOSEWAIT"]
           c == IF FIN_complete(d) THEN e ELSE d
           a == [c EXCEPT !.ACK_triggered = TRUE]
           r == established(s, env, seg)
<1>1. r \in {handleRST(s), handleSYN(s, env), a, c}
  BY DEF established
<1>2. Holds(g, n + 1) /\ Kept(s, g)
  BY SegmentHandled
<1> HIDE DEF g
<1>3. Holds(d, n + 1) /\ Kept(g, d)
  BY <1>2, SendWindowHolds
<1> HIDE DEF d
<1>4. d.state = "ESTABLISHED"
  BY <1>2, <1>3 DEF Kept
<1>5. Holds(e, n + 1) /\ e.state = "CLOSEWAIT"
  <2>1. "CLOSEWAIT" \in States
    BY DEF States
  <2> QED BY <1>3, <2>1, AckFINState
<1> HIDE DEF e
<1>6. Holds(c, n + 1) /\ c.state \in Opened
  BY <1>3, <1>4, <1>5 DEF Opened
<1> HIDE DEF c
<1>7. Holds(a, n + 1) /\ Kept(c, a)
  BY <1>6, SetTriggered
<1> HIDE DEF a
<1>8. Holds(handleRST(s), n + 1) /\ Leads(s, handleRST(s))
  BY HandleRSTHolds, AbortedLeads
<1>9. Holds(handleSYN(s, env), n + 1) /\ Leads(s, handleSYN(s, env))
  BY HandleSYNHolds, KeptLeads
<1>10. Leads(s, a) /\ Leads(s, c)
  BY <1>6, <1>7 DEF Kept, Leads, Opening, Opened, Ending
<1> QED BY <1>1, <1>6, <1>7, <1>8, <1>9, <1>10

LEMMA Finwait1Holds ==
  ASSUME NEW s, NEW n, Holds(s, n), NEW env, NEW seg \in AnySegment, s.state = "FINWAIT1"
  PROVE  LET r == finwait1(s, env, seg) IN Holds(r, n + 1) /\ Leads(s, r)
<1> DEFINE d == handleData(handleFIN(ackIf(s, seg), seg), seg)
           acked == has(seg, "ACK") /\ seg.ack = s.seqnum_next
           st == IF acked THEN "TIMEWAIT" ELSE "CLOSING"
           e == [AckFIN(d, env) EXCEPT !.state = st]
           r == finwait1(s, env, seg)
<1>1. r \in {handleRST(s), handleSYN(s, env), e, d}
  BY DEF finwait1
<1>2. Holds(d, n + 1) /\ Kept(s, d)
  BY SegmentHandled
<1>3. st \in States /\ st \in Ending
  BY DEF States, Ending
<1> HIDE DEF d, st
<1>4. Holds(e, n + 1) /\ e.state = st /\ (d.state # "CLOSED" => e.waiting = d.waiting)
  BY <1>2, <1>3, AckFINState
<1> HIDE DEF e
<1>5. Leads(s, e) /\ Leads(s, d)
  BY <1>2, <1>3, <1>4 DEF Kept, Leads, Opening, Opened, Ending
<1>6. Holds(handleRST(s), n + 1) /\ Leads(s, handleRST(s))
  BY HandleRSTHolds, AbortedLeads
<1>7. Holds(handleSYN(s, env), n + 1) /\ Leads(s, handleSYN(s, env))
  BY HandleSYNHolds, KeptLeads
<1> QED BY <1>1, <1>2, <1>4, <1>5, <1>6, <1>7

LEMMA Finwait2Holds ==
  ASSUME NEW s, NEW n, Holds(s, n), NEW env, NEW seg \in AnySegment, s.state = "FINWAIT2"
  PROVE  LET r == finwait2(s, env, seg) IN Holds(r, n + 1) /\ Leads(s, r)
<1> DEFINE d == handleData(handleFIN(s, seg), seg)
           e == [AckFIN(d, env) EXCEPT !.state = "TIMEWAIT"]
           r == finwait2(s, env, seg)
<1>1. r \in {handleRST(s), handleSYN(s, env), e, d}
  BY DEF finwait2
<1>2. Holds(d, n + 1) /\ Kept(s, d)
  BY SegmentHandled
<1> HIDE DEF d
<1>4. Holds(e, n + 1) /\ e.state = "TIMEWAIT" /\ (d.state # "CLOSED" => e.waiting = d.waiting)
  <2>1. "TIMEWAIT" \in States
    BY DEF States
  <2> QED BY <1>2, <2>1, AckFINState
<1> HIDE DEF e
<1>5. Leads(s, e) /\ Leads(s, d)
  BY <1>2, <1>4 DEF Kept, Leads, Opening, Opened, Ending
<1>6. Holds(handleRST(s), n + 1) /\ Leads(s, handleRST(s))
  BY HandleRSTHolds, AbortedLeads
<1>7. Holds(handleSYN(s, env), n + 1) /\ Leads(s, handleSYN(s, env))
  BY HandleSYNHolds, KeptLeads
<1> QED BY <1>1, <1>2, <1>4, <1>5, <1>6, <1>7

\* The states behind the peer's FIN: nothing is stored any more.
LEMMA FinalHolds ==
  ASSUME NEW s, NEW n, Holds(s, n), NEW env, NEW seg \in AnySegment
  PROVE  /\ Holds(closewait(s, env, seg), n + 1) /\ Leads(s, closewait(s, env, seg))
         /\ Holds(lastack(s, env, seg), n + 1) /\ Leads(s, lastack(s, env, seg))
         /\ Holds(closing(s, env, seg), n + 1) /\ Leads(s, closing(s, env, seg))
         /\ Holds(timewait(s, env, seg), n + 1) /\ Leads(s, timewait(s, env, seg))
<1> DEFINE a == ackIf(s, seg)
           f == IF has(seg, "FIN") THEN AckFIN(a, env) ELSE a
           w == updateSendWindow(f, seg)
           g == IF has(seg, "FIN") THEN AckFIN(s, env) ELSE s
           Good(r) == Holds(r, n + 1) /\ Leads(s, r)
<1>1. Good(handleRST(s)) /\ Good(handleSYN_final(s, env))
  BY HandleRSTHolds, AbortedLeads, HandleSYNHolds, KeptLeads
<1>2. closewait(s, env, seg) \in {handleRST(s), handleSYN_final(s, env), freeReceivedSegment(w)}
  BY DEF closewait
<1>3. lastack(s, env, seg) \in {handleRST(s), handleSYN_final(s, env), freeReceivedSegment(a)}
  BY DEF lastack
<1>4. closing(s, env, seg) \in {handleRST(s), handleSYN_final(s, env), freeReceivedSegment(f)}
  BY DEF closing
<1>5. timewait(s, env, seg) \in {handleRST(s), handleSYN_final(s, env), freeReceivedSegment(g)}
  BY DEF timewait
<1>6. Holds(a, n) /\ Kept(s, a)
  BY AckIfHolds
<1> HIDE DEF a
<1>7. Holds(f, n) /\ Kept(a, f)
  BY <1>6, AckFINHolds DEF Kept
<1>8. Holds(g, n) /\ Kept(s, g)
  BY AckFINHolds DEF Kept
<1> HIDE DEF f, g
<1>9. Holds(w, n) /\ Kept(f, w)
  BY <1>7, SendWindowHolds
<1> HIDE DEF w
<1>10. \A x : Holds(x, n) /\ Kept(s, x) => Good(freeReceivedSegment(x))
  BY FreeHolds, FreeKept, KeptTrans, KeptLeads
<1>11. Kept(s, f) /\ Kept(s, w)
  BY <1>6, <1>7, <1>9, KeptTrans
<1>12. Good(freeReceivedSegment(a)) /\ Good(freeReceivedSegment(f))
       /\ Good(freeReceivedSegment(g)) /\ Good(freeReceivedSegment(w))
  BY <1>6, <1>7, <1>8, <1>9, <1>10, <1>11
<1> QED BY <1>1, <1>2, <1>3, <1>4, <1>5, <1>12

LEMMA InputHolds ==
  ASSUME NEW s, NEW n, Holds(s, n), NEW env, NEW seg \in AnySegment
  PROVE  LET r == input(s, env, seg) IN Holds(r, n + 1) /\ Leads(s, r)
<1>1. s.state \in States
  BY HoldsIs DEF AnySocket
<1>2. CASE s.state = "CLOSED" BY <1>2, ClosedHolds DEF input
<1>3. CASE s.state = "LISTEN" BY <1>3, ListenHolds DEF input
<1>4. CASE s.state = "SYNSENT" BY <1>4, SynsentHolds DEF input
<1>5. CASE s.state = "SYNRCVD" BY <1>5, SynrcvdHolds DEF input
<1>6. CASE s.state = "ESTABLISHED" BY <1>6, EstablishedHolds DEF input
<1>7. CASE s.state = "FINWAIT1" BY <1>7, Finwait1Holds DEF input
<1>8. CASE s.state = "FINWAIT2" BY <1>8, Finwait2Holds DEF input
<1>9. CASE s.state = "CLOSEWAIT" BY <1>9, FinalHolds DEF input
<1>10. CASE s.state = "LASTACK" BY <1>10, FinalHolds DEF input
<1>11. CASE s.state = "CLOSING" BY <1>11, FinalHolds DEF input
<1>12. CASE s.state = "TIMEWAIT" BY <1>12, FinalHolds DEF input
<1> QED
  BY <1>1, <1>2, <1>3, <1>4, <1>5, <1>6, <1>7, <1>8, <1>9, <1>10, <1>11, <1>12 DEF States

-----------------------------------------------------------------------------
(* An empty packetbuffer.                                                   *)

LEMMA UpdateHistoryLeads ==
  ASSUME NEW s, NEW n, Holds(s, n), NEW env, NEW b
  PROVE  LET u == updateHistory(s, b, env)
         IN  /\ Holds(u, n) /\ Leads(s, u)
             /\ Kept(s, u) \/ (RetransmissionCounter /\ Aborted(u))
<1> DEFINE u == updateHistory(s, b, env)
<1>1. /\ Holds(u, n) /\ s \in AnySocket
      /\ Frame(s, u) \/ (RetransmissionCounter /\ Aborted(u))
  BY UpdateHistoryHolds, HoldsIs
<1> HIDE DEF u
<1>2. Frame(s, u) => Kept(s, u)
  BY <1>1, FrameIs DEF Kept
<1>3. Leads(s, u) /\ (Kept(s, u) \/ (RetransmissionCounter /\ Aborted(u)))
  BY <1>1, <1>2, KeptLeads, AbortedLeads
<1> QED BY <1>1, <1>3 DEF u

LEMMA EstablishedReceiveHolds ==
  ASSUME NEW s, NEW n, Holds(s, n), NEW env
  PROVE  LET r == EstablishedReceive(s, env) IN Holds(r, n) /\ r.state = s.state
<1> DEFINE bytes == getRecvBytes(s.receiveBuffer)
           len == Min({bytes, s.buflen})
           b == ReadBytes(s, len)
           a == processACK(b, env)
           c == [a EXCEPT !.receiving = FALSE, !.waiting = FALSE]
           r == EstablishedReceive(s, env)
<1>1. r \in {processACK(s, env), c, a}
  BY DEF EstablishedReceive
<1>2. bytes \in Nat /\ s.buflen \in Nat /\ bytes = s.receiveBuffer.recv_bytes
  BY HoldsIs DEF getRecvBytes, AnySocket, AnyBuffer
<1> HIDE DEF bytes
<1>3. len \in Nat /\ len <= bytes /\ len <= s.buflen
  BY <1>2, MinPairIs
<1> HIDE DEF len
<1>4. Holds(b, n) /\ b.state = s.state
  BY <1>2, <1>3, ReadBytesHolds
<1> HIDE DEF b
<1>5. Holds(a, n) /\ Kept(b, a)
  BY <1>4, ProcessACKHolds
<1> HIDE DEF a
<1>6. Holds(c, n) /\ c.state = a.state
  BY <1>5, SetReturn
<1> HIDE DEF c
<1>7. Holds(processACK(s, env), n) /\ Kept(s, processACK(s, env))
  BY ProcessACKHolds
<1> QED BY <1>1, <1>4, <1>5, <1>6, <1>7 DEF Kept

LEMMA EstablishedIdleHolds ==
  ASSUME NEW s, NEW n, Holds(s, n), NEW env, s.state = "ESTABLISHED"
  PROVE  LET r == establishedIdle(s, env) IN Holds(r, n) /\ Leads(s, r)
<1> DEFINE u == updateHistory(s, TRUE, env)
           a == processACK(u, env)
           p == processSendData(a, env)
           r == establishedIdle(s, env)
<1>1. r = IF u.receiving THEN EstablishedReceive(u, env)
          ELSE IF u.waiting THEN FinishSending(p) ELSE u
  BY DEF establishedIdle
<1>2. Holds(u, n) /\ Leads(s, u) /\ (Kept(s, u) \/ Aborted(u))
  BY UpdateHistoryLeads
<1> HIDE DEF u, r
<1>3. CASE u.receiving
  <2>1. u.state = "ESTABLISHED"
    BY <1>2, <1>3 DEF Kept, Aborted
  <2>2. Holds(r, n) /\ r.state = u.state
    BY <1>1, <1>2, <1>3, EstablishedReceiveHolds
  <2> QED BY <2>1, <2>2 DEF Leads, Opening, Opened, Ending, r
<1>4. CASE ~u.receiving /\ u.waiting
  <2>1. u.state = "ESTABLISHED"
    BY <1>2, <1>4 DEF Kept, Aborted
  <2>2. Holds(a, n) /\ Kept(u, a)
    BY <1>2, ProcessACKHolds
  <2> HIDE DEF a
  <2>3. a.state = "ESTABLISHED" /\ a.state # "CLOSED"
    BY <2>1, <2>2 DEF Kept
  <2>4. Holds(p, n) /\ Kept(a, p)
    BY <2>2, <2>3, ProcessSendDataHolds
  <2> HIDE DEF p
  <2>5. Holds(r, n) /\ r.state = p.state
    BY <1>1, <1>4, <2>4, FinishSendingHolds
  <2> QED BY <2>3, <2>4, <2>5 DEF Kept, Leads, Opening, Opened, Ending, r
<1>5. CASE ~u.receiving /\ ~u.waiting
  BY <1>1, <1>2, <1>5 DEF r
<1> QED BY <1>3, <1>4, <1>5

LEMMA ClosewaitIdleHolds ==
  ASSUME NEW s, NEW n, Holds(s, n), NEW env, s.state = "CLOSEWAIT"
  PROVE  LET r == closewaitIdle(s, env) IN Holds(r, n) /\ Leads(s, r)
<1> DEFINE u == updateHistory(s, TRUE, env)
           len == Min({u.buflen, getRecvBytes(u.receiveBuffer)})
           v == [u EXCEPT !.buflen = len]
           b == ReadBytes(v, len)
           c == [b EXCEPT !.buflen = len, !.receiving = FALSE, !.waiting = FALSE]
           p == processSendData(u, env)
           r == closewaitIdle(s, env)
<1>1. r = IF u.receiving THEN c ELSE IF u.waiting THEN FinishSending(p) ELSE u
  BY DEF closewaitIdle
<1>2. Holds(u, n) /\ Leads(s, u) /\ (Kept(s, u) \/ Aborted(u))
  BY UpdateHistoryLeads
<1> HIDE DEF u, r
<1>3. CASE u.receiving
  <2>1. u.state = "CLOSEWAIT" /\ u \in AnySocket
    BY <1>2, <1>3, HoldsIs DEF Kept, Aborted
  <2>2. u.buflen \in Nat /\ u.receiveBuffer.recv_bytes \in Nat
    BY <2>1 DEF AnySocket, AnyBuffer
  <2>3. len \in Nat /\ len <= u.receiveBuffer.recv_bytes
    BY <2>2, MinPairIs DEF getRecvBytes
  <2> HIDE DEF len
  <2>4. Holds(v, n) /\ v.state = u.state /\ v.buflen = len /\ v.receiveBuffer = u.receiveBuffer
    BY <1>2, <2>1, <2>3, SameHolds DEF AnySocket
  <2> HIDE DEF v
  <2>5. len <= v.buflen /\ len <= v.receiveBuffer.recv_bytes
    BY <2>3, <2>4
  <2>6. Holds(b, n) /\ b.state = v.state
    BY <2>3, <2>4, <2>5, ReadBytesHolds
  <2> HIDE DEF b
  <2>7. b \in AnySocket
    BY <2>6, HoldsIs
  <2>8. Holds(c, n) /\ c.state = b.state
    BY <2>3, <2>6, <2>7, SameHolds DEF AnySocket
  <2> HIDE DEF c
  <2> QED BY <1>1, <1>3, <2>1, <2>4, <2>6, <2>8 DEF Leads, Opening, Opened, Ending, r
<1>4. CASE ~u.receiving /\ u.waiting
  <2>1. u.state = "CLOSEWAIT" /\ u.state # "CLOSED"
    BY <1>2, <1>4 DEF Kept, Aborted
  <2>2. Holds(p, n) /\ Kept(u, p)
    BY <1>2, <2>1, ProcessSendDataHolds
  <2> HIDE DEF p
  <2>3. Holds(r, n) /\ r.state = p.state
    BY <1>1, <1>4, <2>2, FinishSendingHolds
  <2> QED BY <2>1, <2>2, <2>3 DEF Kept, Leads, Opening, Opened, Ending, r
<1>5. CASE ~u.receiving /\ ~u.waiting
  BY <1>1, <1>2, <1>5 DEF r
<1> QED BY <1>3, <1>4, <1>5

LEMMA UpdateThenACK ==
  ASSUME NEW s, NEW n, Holds(s, n), NEW env
  PROVE  LET p == processACK(updateHistory(s, TRUE, env), env)
         IN  /\ Holds(p, n) /\ Leads(s, p)
             /\ Kept(s, p) \/ (RetransmissionCounter /\ p.state = "CLOSED")
<1> DEFINE u == updateHistory(s, TRUE, env)
           p == processACK(u, env)
<1>1. Holds(u, n) /\ (Kept(s, u) \/ (RetransmissionCounter /\ Aborted(u)))
  BY UpdateHistoryLeads
<1> HIDE DEF u
<1>2. Holds(p, n) /\ Kept(u, p)
  BY <1>1, ProcessACKHolds
<1> HIDE DEF p
<1>3. Kept(s, p) \/ (RetransmissionCounter /\ p.state = "CLOSED")
  BY <1>1, <1>2 DEF Kept, Aborted
<1>4. Leads(s, p)
  BY <1>3, KeptLeads DEF Leads
<1> QED BY <1>2, <1>3, <1>4 DEF p, u

LEMMA EndingIdleHolds ==
  ASSUME NEW s, NEW n, Holds(s, n), NEW env
  PROVE  /\ s.state = "FINWAIT1" => Holds(finwait1Idle(s, env), n) /\ Leads(s, finwait1Idle(s, env))
         /\ s.state = "FINWAIT2" => Holds(finwait2Idle(s, env), n) /\ Leads(s, finwait2Idle(s, env))
         /\ s.state = "LASTACK" => Holds(lastackIdle(s, env), n) /\ Leads(s, lastackIdle(s, env))
         /\ s.state = "CLOSING" => Holds(closingIdle(s, env), n) /\ Leads(s, closingIdle(s, env))
         /\ s.state = "TIMEWAIT" => Holds(timewaitIdle(s, env), n) /\ Leads(s, timewaitIdle(s, env))
<1> DEFINE u == updateHistory(s, TRUE, env)
           p == processACK(u, env)
           f == [p EXCEPT !.state = "FINWAIT2"]
           g == [u EXCEPT !.state = "TIMEWAIT"]
<1>1. /\ Holds(p, n) /\ Leads(s, p)
      /\ Kept(s, p) \/ (RetransmissionCounter /\ p.state = "CLOSED")
  BY UpdateThenACK
<1>2. /\ Holds(u, n) /\ Leads(s, u)
      /\ Kept(s, u) \/ (RetransmissionCounter /\ Aborted(u))
  BY UpdateHistoryLeads
<1>3. finwait2Idle(s, env) = p /\ finwait1Idle(s, env) \in {f, p}
  BY DEF finwait1Idle, finwait2Idle
<1>4. /\ closingIdle(s, env) \in {g, u}
      /\ lastackIdle(s, env) \in {abort(u), u} /\ timewaitIdle(s, env) \in {abort(u), u}
  BY DEF closingIdle, lastackIdle, timewaitIdle
<1> HIDE DEF u
<1>5. Holds(abort(u), n) /\ Leads(s, abort(u))
  BY <1>2, AbortHolds, AbortedLeads
<1> HIDE DEF p
<1>6. "FINWAIT2" \in States /\ "TIMEWAIT" \in States
  BY DEF States
<1>7. /\ Holds(f, n) /\ f.state = "FINWAIT2" /\ f.waiting = p.waiting
      /\ Holds(g, n) /\ g.state = "TIMEWAIT" /\ g.waiting = u.waiting
  BY <1>1, <1>2, <1>6, SetState
<1> HIDE DEF f, g
<1>8. s.state = "FINWAIT1" => Leads(s, f)
  BY <1>1, <1>7 DEF Leads, Kept, Opening, Opened, Ending
<1>9. s.state = "CLOSING" => Leads(s, g)
  BY <1>2, <1>7 DEF Leads, Kept, Aborted, Opening, Opened, Ending
<1> QED BY <1>1, <1>2, <1>3, <1>4, <1>5, <1>7, <1>8, <1>9

LEMMA InputIdleHolds ==
  ASSUME NEW s, NEW n, Holds(s, n), NEW env
  PROVE  LET r == inputIdle(s, env) IN Holds(r, n) /\ Leads(s, r)
<1>1. s.state \in States
  BY HoldsIs DEF AnySocket
<1>2. CASE s.state = "CLOSED" BY <1>2, ClosedHolds DEF inputIdle
<1>3. CASE s.state = "LISTEN"
  BY <1>3, KeptLeads DEF inputIdle, Kept
<1>4. CASE s.state \in {"SYNSENT", "SYNRCVD"}
  BY <1>4, UpdateHistoryLeads DEF inputIdle, synsentIdle, synrcvdIdle
<1>5. CASE s.state = "ESTABLISHED" BY <1>5, EstablishedIdleHolds DEF inputIdle
<1>6. CASE s.state = "CLOSEWAIT" BY <1>6, ClosewaitIdleHolds DEF inputIdle
<1>7. CASE s.state \in Ending BY <1>7, EndingIdleHolds DEF inputIdle, Ending
<1> QED BY <1>1, <1>2, <1>3, <1>4, <1>5, <1>6, <1>7 DEF States, Ending

-----------------------------------------------------------------------------
(* The connection.                                                          *)

\* The states a call may find its socket in.  A call that returned leaves an
\* open connection; a killed one may look as if it were still closing.
Phase(c, s) ==
    /\ c = "idle" => s.state \in Opened \/ (RetransmissionCounter /\ s.state \in Ending)
    /\ c \in {"connect", "listen"} => s.state \in Opening \cup Opened \cup {"CLOSED"}
    /\ c \in {"write", "receive", "poll"} => s.state \in Opened \cup {"CLOSED"}
    /\ c = "close" => s.state \in Opened \cup Ending \cup {"CLOSED"}

\* While a handshake or the end of the connection is on its way, the call
\* that began it is waiting.
Waits(s) ==
    /\ s.state \in Opening => s.waiting
    /\ s.state \in Ending => s.waiting \/ RetransmissionCounter

\* Before its first call a socket is as it was constructed, and unknown.
Fresh(n) == call[n] = "new" => sock[n] = NewSocket /\ demux[n] = "none"

IInv ==
    /\ sock \in [Node -> AnySocket]
    /\ call \in [Node -> Calls]
    /\ demux \in [Node -> {"none", "listen", "deaf", "bound"}]
    /\ net \in [Node -> SUBSET AnySegment]
    /\ \A n \in Node :
         /\ Holds(sock[n], COUNT) /\ sock[n].out = {}
         /\ Phase(call[n], sock[n]) /\ Waits(sock[n]) /\ Fresh(n)

LEMMA NodeIs == \A n \in Node : Peer(n) \in Node
BY DEF Node, Peer

\* A step of node n leaves the other node's task and socket alone.
Other(n) ==
    \A m \in Node \ {n} :
        sock'[m] = sock[m] /\ call'[m] = call[m] /\ demux'[m] = demux[m]

\* What has to be shown of a step of node n.
LEMMA StepKeepsIInv ==
  ASSUME IInv, NEW n \in Node, Other(n),
         sock' \in [Node -> AnySocket], call' \in [Node -> Calls],
         demux' \in [Node -> {"none", "listen", "deaf", "bound"}],
         net' \in [Node -> SUBSET AnySegment],
         Holds(sock'[n], COUNT), sock'[n].out = {},
         Phase(call'[n], sock'[n]), Waits(sock'[n]), Fresh(n)'
  PROVE  IInv'
<1> SUFFICES ASSUME NEW m \in Node
             PROVE  /\ Holds(sock'[m], COUNT) /\ sock'[m].out = {}
                    /\ Phase(call'[m], sock'[m]) /\ Waits(sock'[m]) /\ Fresh(m)'
  BY DEF IInv
<1>1. CASE m = n
  BY <1>1
<1>2. CASE m # n
  <2>1. sock'[m] = sock[m] /\ call'[m] = call[m] /\ demux'[m] = demux[m]
    BY <1>2 DEF Other
  <2>2. /\ Holds(sock[m], COUNT) /\ sock[m].out = {}
        /\ Phase(call[m], sock[m]) /\ Waits(sock[m]) /\ Fresh(m)
    BY DEF IInv
  <2> QED BY <2>1, <2>2 DEF Fresh
<1> QED BY <1>1, <1>2

LEMMA BecomeIs ==
  ASSUME IInv, NEW n \in Node, NEW s, Holds(s, COUNT), Become(n, s)
  PROVE  /\ sock' \in [Node -> AnySocket] /\ net' \in [Node -> SUBSET AnySegment]
         /\ \A m \in Node \ {n} : sock'[m] = sock[m]
         /\ Holds(sock'[n], COUNT) /\ sock'[n].out = {}
         /\ sock'[n].state = s.state /\ sock'[n].waiting = s.waiting
<1> DEFINE t == [s EXCEPT !.out = {}]
           arriving == net[Peer(n)] \cup s.out
<1>1. s \in AnySocket
  BY HoldsIs
<1>2. /\ t \in AnySocket /\ t.out = {} /\ t.state = s.state /\ t.waiting = s.waiting
      /\ t.mempool = s.mempool /\ t.packetbuffer = s.packetbuffer /\ t.history = s.history
      /\ t.receiveBuffer = s.receiveBuffer
  BY <1>1 DEF AnySocket
<1> HIDE DEF t
<1>3. Holds(t, COUNT)
  BY <1>2, SameHolds
<1>4. sock \in [Node -> AnySocket] /\ net \in [Node -> SUBSET AnySegment]
  BY DEF IInv
<1>5. sock' = [sock EXCEPT ![n] = t]
  BY DEF Become, t
<1>6. /\ sock' \in [Node -> AnySocket] /\ sock'[n] = t
      /\ \A m \in Node \ {n} : sock'[m] = sock[m]
  BY <1>2, <1>4, <1>5
<1>7. arriving \in SUBSET AnySegment
  BY <1>1, <1>4, NodeIs DEF AnySocket
<1>8. net' = [net EXCEPT ![Peer(n)] = arriving] \/ net' = net
  BY DEF Become
<1>9. net' \in [Node -> SUBSET AnySegment]
  BY <1>4, <1>7, <1>8
<1> QED BY <1>2, <1>3, <1>6, <1>9

\* A step of node n inside a call: the socket becomes s, and where it leads
\* the call may stay.
LEMMA InCallKeepsIInv ==
  ASSUME IInv, NEW n \in Node, NEW s, Holds(s, COUNT), Become(n, s),
         Leads(sock[n], s), call' = call, call[n] # "new", call[n] # "idle",
         demux' \in [Node -> {"none", "listen", "deaf", "bound"}],
         \A m \in Node \ {n} : demux'[m] = demux[m]
  PROVE  IInv'
<1>1. /\ sock' \in [Node -> AnySocket] /\ net' \in [Node -> SUBSET AnySegment]
      /\ \A m \in Node \ {n} : sock'[m] = sock[m]
      /\ Holds(sock'[n], COUNT) /\ sock'[n].out = {}
      /\ sock'[n].state = s.state /\ sock'[n].waiting = s.waiting
  BY BecomeIs
<1>2. Phase(call[n], sock[n]) /\ Waits(sock[n]) /\ sock[n].state \in States
  BY DEF IInv, AnySocket
<1>3. sock[n].state \in Opening \cup Opened \cup Ending \cup {"CLOSED"}
  BY <1>2 DEF States, Opening, Opened, Ending
<1>4. Phase(call'[n], sock'[n])
  BY <1>1, <1>2, <1>3 DEF Phase, Leads
<1>5. Waits(sock'[n])
  BY <1>1, <1>2, <1>3 DEF Waits, Leads, Opening, Opened, Ending
<1>6. Fresh(n)' /\ call' \in [Node -> Calls]
  BY DEF Fresh, IInv
<1>7. Other(n)
  BY <1>1 DEF Other
<1> QED BY <1>1, <1>4, <1>5, <1>6, <1>7, StepKeepsIInv

-----------------------------------------------------------------------------
(* The actions.                                                             *)

LEMMA GenHolds ==
  ASSUME NEW s, NEW k, Holds(s, k), NEW n \in Node
  PROVE  LET r == gen_initial_seqnum(s, n)
         IN  /\ Holds(r, k) /\ r.state = s.state
             /\ r.history = s.history /\ r.mempool = s.mempool
<1>1. s \in AnySocket /\ ISN[n] \in SeqNum /\ 0 \in 0 .. WINDOW_MAX
  BY HoldsIs, ConnectionAssumption, Constants
<1> QED BY <1>1, SameHolds DEF AnySocket, gen_initial_seqnum

\* The node of a call and what it changes of the tasks.
LEMMA CallIs ==
  ASSUME IInv, NEW n \in Node, NEW c \in Calls, call' = [call EXCEPT ![n] = c]
  PROVE  /\ call' \in [Node -> Calls] /\ call'[n] = c
         /\ \A m \in Node \ {n} : call'[m] = call[m]
BY DEF IInv

LEMMA DemuxIs ==
  ASSUME IInv, NEW n \in Node, NEW d \in {"none", "listen", "deaf", "bound"},
         demux' = [demux EXCEPT ![n] = d]
  PROVE  /\ demux' \in [Node -> {"none", "listen", "deaf", "bound"}] /\ demux'[n] = d
         /\ \A m \in Node \ {n} : demux'[m] = demux[m]
BY DEF IInv

\* A new socket has a buffer for its SYN.
LEMMA ConnectKeepsIInv == IInv /\ connect => IInv'
<1> SUFFICES ASSUME IInv, connect PROVE IInv'
  OBVIOUS
<1> DEFINE n == Client
           s == gen_initial_seqnum(sock[n], n)
           env == [sent |-> TRUE, timedOut |-> {}, elapsed |-> FALSE]
           syn == writeHeader(s, {"SYN"})
           t == Transmit(s, env, syn, TRUE)
           k == SeqAdd(t.seqnum_next, 1)
           r == [t EXCEPT !.seqnum_next = k, !.state = "SYNSENT", !.waiting = TRUE]
<1>1. n \in Node /\ "connect" \in Calls /\ "bound" \in {"none", "listen", "deaf", "bound"}
  BY DEF Node, Calls
<1>2. /\ call[n] = "new" /\ call' = [call EXCEPT ![n] = "connect"]
      /\ demux' = [demux EXCEPT ![n] = "bound"] /\ Become(n, r)
  BY DEF connect
<1>3. Holds(sock[n], COUNT) /\ sock[n] = NewSocket
  BY <1>1, <1>2 DEF IInv, Fresh
<1>4. Holds(s, COUNT) /\ s.history = <<>> /\ s.mempool = COUNT
  BY <1>1, <1>3, GenHolds DEF NewSocket
<1> HIDE DEF s, env
<1>5. requestSendBufferTCP(s, env)
  <2>1. Len(s.history) = 0 /\ Len(s.history) # TCP_HISTORY_MAX_PACKETS
    BY <1>4, Constants
  <2>2. Reclaim(s, env) = s
    BY <2>1 DEF Reclaim
  <2> QED BY <1>4, <2>1, <2>2, Constants DEF requestSendBufferTCP
<1>6. syn \in AnySegment
  BY <1>4, HoldsIs, HeaderType, Constants DEF Flags
<1> HIDE DEF syn
<1>7. Holds(t, COUNT)
  BY <1>4, <1>5, <1>6, TransmitHolds
<1> HIDE DEF t
<1>8. k \in SeqNum /\ "SYNSENT" \in States
  <2>1. t.seqnum_next \in SeqNum
    BY <1>7, HoldsIs DEF AnySocket
  <2> QED BY <2>1, SeqAddSeqNum DEF States
<1> HIDE DEF k
<1>9. Holds(r, COUNT) /\ r.state = "SYNSENT" /\ r.waiting
  <2>1. t \in AnySocket
    BY <1>7, HoldsIs
  <2> QED BY <1>7, <1>8, <2>1, SameHolds DEF AnySocket
<1> HIDE DEF r, n
<1>10. /\ sock' \in [Node -> AnySocket] /\ net' \in [Node -> SUBSET AnySegment]
       /\ \A m \in Node \ {n} : sock'[m] = sock[m]
       /\ Holds(sock'[n], COUNT) /\ sock'[n].out = {}
       /\ sock'[n].state = "SYNSENT" /\ sock'[n].waiting
  BY <1>1, <1>2, <1>9, BecomeIs
<1>11. /\ call' \in [Node -> Calls] /\ call'[n] = "connect"
       /\ \A m \in Node \ {n} : call'[m] = call[m]
  BY <1>1, <1>2, CallIs
<1>12. /\ demux' \in [Node -> {"none", "listen", "deaf", "bound"}]
       /\ \A m \in Node \ {n} : demux'[m] = demux[m]
  BY <1>1, <1>2, DemuxIs
<1>13. Phase(call'[n], sock'[n]) /\ Waits(sock'[n]) /\ Fresh(n)' /\ Other(n)
  BY <1>10, <1>11, <1>12 DEF Phase, Waits, Fresh, Other, Opening, Opened, Ending
<1> QED BY <1>1, <1>10, <1>11, <1>12, <1>13, StepKeepsIInv

LEMMA ListenKeepsIInv ==
  ASSUME IInv, StartListening, call' \in [Node -> Calls], call'[Server] = "listen",
         \A m \in Node \ {Server} : call'[m] = call[m]
  PROVE  IInv'
<1> DEFINE n == Server
           s == gen_initial_seqnum(sock[n], n)
           r == [s EXCEPT !.state = "LISTEN", !.waiting = TRUE]
<1>1. n \in Node /\ "listen" \in {"none", "listen", "deaf", "bound"} /\ "LISTEN" \in States
  BY DEF Node, States
<1>2. demux' = [demux EXCEPT ![n] = "listen"] /\ Become(n, r)
  BY DEF StartListening
<1>3. Holds(s, COUNT) /\ s \in AnySocket
  BY <1>1, GenHolds, HoldsIs DEF IInv
<1> HIDE DEF s
<1>4. Holds(r, COUNT) /\ r.state = "LISTEN" /\ r.waiting
  BY <1>1, <1>3, SameHolds DEF AnySocket
<1> HIDE DEF r, n
<1>5. /\ sock' \in [Node -> AnySocket] /\ net' \in [Node -> SUBSET AnySegment]
      /\ \A m \in Node \ {n} : sock'[m] = sock[m]
      /\ Holds(sock'[n], COUNT) /\ sock'[n].out = {}
      /\ sock'[n].state = "LISTEN" /\ sock'[n].waiting
  BY <1>1, <1>2, <1>4, BecomeIs
<1>6. /\ demux' \in [Node -> {"none", "listen", "deaf", "bound"}]
      /\ \A m \in Node \ {n} : demux'[m] = demux[m]
  BY <1>1, <1>2, DemuxIs
<1>7. /\ call'[n] = "listen" /\ \A m \in Node \ {n} : call'[m] = call[m]
  BY DEF n
<1>8. Phase(call'[n], sock'[n]) /\ Waits(sock'[n]) /\ Fresh(n)' /\ Other(n)
  BY <1>5, <1>6, <1>7 DEF Phase, Waits, Fresh, Other, Opening, Opened, Ending
<1> QED BY <1>1, <1>5, <1>6, <1>8, StepKeepsIInv

LEMMA ListenCallKeepsIInv == IInv /\ (listenCall \/ listenAgain) => IInv'
<1> SUFFICES ASSUME IInv, listenCall \/ listenAgain PROVE IInv'
  OBVIOUS
<1>1. Server \in Node /\ "listen" \in Calls
  BY DEF Node, Calls
<1>2. StartListening
  BY DEF listenCall, listenAgain
<1>3. /\ call' \in [Node -> Calls] /\ call'[Server] = "listen"
      /\ \A m \in Node \ {Server} : call'[m] = call[m]
  <2>1. CASE listenCall
    BY <1>1, <2>1, CallIs DEF listenCall
  <2>2. CASE listenAgain
    BY <2>2 DEF listenAgain, IInv
  <2> QED BY <2>1, <2>2
<1> QED BY <1>2, <1>3, ListenKeepsIInv

\* The calls that only note what the application asked for.
LEMMA RequestKeepsIInv ==
  ASSUME IInv, NEW n \in Node, NEW c \in {"write", "receive"}, Open(n),
         call' = [call EXCEPT ![n] = c], demux' = demux,
         NEW s, Holds(s, COUNT), s.state = sock[n].state, Become(n, s)
  PROVE  IInv'
<1>1. c \in Calls
  BY DEF Calls
<1>2. /\ call' \in [Node -> Calls] /\ call'[n] = c
      /\ \A m \in Node \ {n} : call'[m] = call[m]
  BY <1>1, CallIs
<1>3. /\ sock' \in [Node -> AnySocket] /\ net' \in [Node -> SUBSET AnySegment]
      /\ \A m \in Node \ {n} : sock'[m] = sock[m]
      /\ Holds(sock'[n], COUNT) /\ sock'[n].out = {}
      /\ sock'[n].state = s.state
  BY BecomeIs
<1>4. sock'[n].state \in Opened
  BY <1>3 DEF Open, Opened
<1>5. Phase(call'[n], sock'[n]) /\ Waits(sock'[n]) /\ Fresh(n)' /\ Other(n)
  BY <1>2, <1>3, <1>4 DEF Phase, Waits, Fresh, Other, Opening, Opened, Ending
<1>6. demux' \in [Node -> {"none", "listen", "deaf", "bound"}]
  BY DEF IInv
<1> QED BY <1>2, <1>3, <1>5, <1>6, StepKeepsIInv

LEMMA WriteKeepsIInv ==
  ASSUME IInv, NEW n \in Node, NEW len \in Nat, write(n, len) PROVE IInv'
<1> DEFINE s == [sock[n] EXCEPT !.buflen = len, !.waiting = TRUE]
<1>1. Holds(sock[n], COUNT) /\ sock[n] \in AnySocket
  BY DEF IInv
<1>2. Holds(s, COUNT) /\ s.state = sock[n].state
  BY <1>1, SameHolds DEF AnySocket
<1>3. Open(n) /\ call' = [call EXCEPT ![n] = "write"] /\ demux' = demux /\ Become(n, s)
  BY DEF write
<1> HIDE DEF s
<1> QED BY <1>2, <1>3, RequestKeepsIInv

LEMMA ReceiveKeepsIInv ==
  ASSUME IInv, NEW n \in Node, NEW len \in Nat, receive(n, len) PROVE IInv'
<1> DEFINE s == [sock[n] EXCEPT !.buflen = len, !.recv_len = 0,
                                !.receiving = TRUE, !.waiting = TRUE]
<1>1. Holds(sock[n], COUNT) /\ sock[n] \in AnySocket
  BY DEF IInv
<1>2. Holds(s, COUNT) /\ s.state = sock[n].state
  BY <1>1, SameHolds DEF AnySocket
<1>3. Open(n) /\ call' = [call EXCEPT ![n] = "receive"] /\ demux' = demux /\ Become(n, s)
  BY DEF receive
<1> HIDE DEF s
<1> QED BY <1>2, <1>3, RequestKeepsIInv

LEMMA PollKeepsIInv == ASSUME IInv, NEW n \in Node, poll(n) PROVE IInv'
<1>1. "poll" \in Calls
  BY DEF Calls
<1>2. call' = [call EXCEPT ![n] = "poll"] /\ sock' = sock /\ net' = net /\ demux' = demux
  BY DEF poll
<1>3. /\ call' \in [Node -> Calls] /\ call'[n] = "poll"
      /\ \A m \in Node \ {n} : call'[m] = call[m]
  BY <1>1, <1>2, CallIs
<1>4. sock[n].state \in Opened
  BY DEF poll, Open, Opened
<1>5. Phase(call'[n], sock'[n]) /\ Fresh(n)' /\ Other(n)
  BY <1>2, <1>3, <1>4 DEF Phase, Fresh, Other, Opening, Opened, Ending
<1> QED BY <1>2, <1>3, <1>5, StepKeepsIInv DEF IInv

\* close(): the FIN goes out from an open socket that has a buffer for it.
LEMMA FinHolds ==
  ASSUME NEW s, NEW n, Holds(s, n), NEW env, requestSendBufferTCP(s, env),
         s.state \in Opened, NEW st \in States
  PROVE  LET fin == writeHeaderWithAck(s, {"FIN"}, getAckNum(s.receiveBuffer))
             r   == [Transmit(s, env, fin, TRUE) EXCEPT
                       !.seqnum_next = SeqAdd(@, 1), !.waiting = TRUE, !.state = st]
         IN  Holds(r, n) /\ r.state = st /\ r.waiting
<1> DEFINE fin == writeHeaderWithAck(s, {"FIN"}, getAckNum(s.receiveBuffer))
           t == Transmit(s, env, fin, TRUE)
           k == SeqAdd(t.seqnum_next, 1)
           r == [t EXCEPT !.seqnum_next = k, !.waiting = TRUE, !.state = st]
<1>1. fin \in AnySegment
  BY HoldsIs, AckNumType, HeaderType DEF Flags
<1> HIDE DEF fin
<1>2. Holds(t, n) /\ t \in AnySocket
  BY <1>1, TransmitHolds, HoldsIs
<1> HIDE DEF t
<1>3. k \in SeqNum
  BY <1>2, SeqAddSeqNum DEF AnySocket
<1> HIDE DEF k
<1>4. Holds(r, n) /\ r.state = st /\ r.waiting
  BY <1>2, <1>3, SameHolds DEF AnySocket
<1> QED BY <1>4 DEF k, t, fin

LEMMA CloseKeepsIInv == ASSUME IInv, NEW n \in Node, close(n) PROVE IInv'
<1> DEFINE s == sock[n]
           st == IF s.state = "CLOSEWAIT" THEN "LASTACK" ELSE "FINWAIT1"
           fin == writeHeaderWithAck(s, {"FIN"}, getAckNum(s.receiveBuffer))
<1>1. "close" \in Calls /\ st \in States /\ st \in Ending
  BY DEF Calls, States, Ending
<1>2. /\ call[n] = "idle" /\ call' = [call EXCEPT ![n] = "close"] /\ demux' = demux
  BY DEF close
<1>3. /\ call' \in [Node -> Calls] /\ call'[n] = "close"
      /\ \A m \in Node \ {n} : call'[m] = call[m]
  BY <1>1, <1>2, CallIs
<1>4. Holds(s, COUNT) /\ s.state \in States /\ Phase("idle", s) /\ Waits(s)
  BY <1>2 DEF IInv, AnySocket
<1>5. PICK env \in Env(s) :
         IF Open(n) /\ requestSendBufferTCP(s, env)
         THEN Become(n, [Transmit(s, env, fin, TRUE) EXCEPT
                           !.seqnum_next = SeqAdd(@, 1), !.waiting = TRUE, !.state = st])
         ELSE IF Open(n) THEN Become(n, Reclaim(s, env))
                         ELSE UNCHANGED <<sock, net>>
  BY DEF close
<1> DEFINE r == [Transmit(s, env, fin, TRUE) EXCEPT
                   !.seqnum_next = SeqAdd(@, 1), !.waiting = TRUE, !.state = st]
<1>6. demux' \in [Node -> {"none", "listen", "deaf", "bound"}]
  BY <1>2 DEF IInv
<1>7. CASE Open(n) /\ requestSendBufferTCP(s, env)
  <2>1. s.state \in Opened
    BY <1>7 DEF Open, Opened
  <2>2. Holds(r, COUNT) /\ r.state = st /\ r.waiting
    <3> HIDE DEF st
    <3> QED BY <1>1, <1>4, <1>7, <2>1, FinHolds
  <2>3. Become(n, r)
    BY <1>5, <1>7
  <2> HIDE DEF r, st
  <2>4. /\ sock' \in [Node -> AnySocket] /\ net' \in [Node -> SUBSET AnySegment]
        /\ \A m \in Node \ {n} : sock'[m] = sock[m]
        /\ Holds(sock'[n], COUNT) /\ sock'[n].out = {}
        /\ sock'[n].state = st /\ sock'[n].waiting
    BY <2>2, <2>3, BecomeIs
  <2>5. Phase(call'[n], sock'[n]) /\ Waits(sock'[n]) /\ Fresh(n)' /\ Other(n)
    BY <1>1, <1>2, <1>3, <2>4 DEF Phase, Waits, Fresh, Other
  <2> QED BY <1>3, <1>6, <2>4, <2>5, StepKeepsIInv
<1>8. CASE Open(n) /\ ~requestSendBufferTCP(s, env)
  <2>1. Holds(Reclaim(s, env), COUNT) /\ Kept(s, Reclaim(s, env)) /\ Become(n, Reclaim(s, env))
    BY <1>4, <1>5, <1>8, ReclaimHolds
  <2>2. /\ sock' \in [Node -> AnySocket] /\ net' \in [Node -> SUBSET AnySegment]
        /\ \A m \in Node \ {n} : sock'[m] = sock[m]
        /\ Holds(sock'[n], COUNT) /\ sock'[n].out = {}
        /\ sock'[n].state = s.state
    BY <2>1, BecomeIs DEF Kept
  <2>3. sock'[n].state \in Opened
    BY <1>8, <2>2 DEF Open, Opened
  <2>4. Phase(call'[n], sock'[n]) /\ Waits(sock'[n]) /\ Fresh(n)' /\ Other(n)
    BY <1>2, <1>3, <2>2, <2>3 DEF Phase, Waits, Fresh, Other, Opening, Opened, Ending
  <2> QED BY <1>3, <1>6, <2>2, <2>4, StepKeepsIInv
<1>9. CASE ~Open(n)
  <2>1. sock' = sock /\ net' = net
    BY <1>5, <1>9
  <2>2. Phase(call'[n], sock'[n]) /\ Fresh(n)' /\ Other(n)
    BY <1>2, <1>3, <1>4, <2>1 DEF Phase, Fresh, Other, Opening, Opened, Ending
  <2> QED BY <1>3, <1>6, <2>1, <2>2, StepKeepsIInv DEF IInv
<1> QED BY <1>7, <1>8, <1>9

\* The first segment of packetbuffer is taken out; its block belongs to input().
LEMMA PopHolds ==
  ASSUME NEW s, NEW n, Holds(s, n), s.packetbuffer # <<>>
  PROVE  LET r == Pop(s)
         IN  /\ Holds(r, n - 1) /\ Head(s.packetbuffer) \in AnySegment
             /\ r.state = s.state /\ r.waiting = s.waiting
<1> DEFINE q == s.packetbuffer
           t == Tail(q)
           r == [s EXCEPT !.packetbuffer = t]
<1>1. s \in AnySocket /\ q \in Seq(AnySegment)
  BY HoldsIs DEF AnySocket
<1>2. t \in Seq(AnySegment) /\ Len(t) = Len(q) - 1 /\ Head(q) \in AnySegment /\ Len(q) \in Nat
  BY <1>1
<1>q. Len(q) < PACKET_LIMIT
  BY DEF Holds
<1> HIDE DEF t
<1>3. /\ r \in AnySocket /\ r.packetbuffer = t /\ r.mempool = s.mempool
      /\ r.history = s.history /\ r.receiveBuffer = s.receiveBuffer
      /\ r.state = s.state /\ r.waiting = s.waiting
  BY <1>1, <1>2 DEF AnySocket
<1> HIDE DEF r
<1>4. Len(r.packetbuffer) < PACKET_LIMIT
  <2> HIDE DEF q
  <2> QED BY <1>2, <1>3, <1>q, Constants
<1>5. Bounded(r)
  BY <1>3, <1>4 DEF Holds, Bounded
<1>6. Gained(s, r) = 0 - 1
  <2>1. /\ s.mempool \in Nat /\ Len(s.history) \in Nat /\ Len(s.receiveBuffer.list) \in Nat
    BY HoldsIs
  <2> QED BY <1>2, <1>3, <2>1 DEF Gained
<1>7. Holds(r, n + (0 - 1)) /\ n \in Nat
  BY <1>5, <1>6, GainHolds, HoldsIs
<1>8. Holds(r, n - 1)
  BY <1>7
<1> QED BY <1>2, <1>3, <1>8 DEF r, t, Pop

LEMMA RecvSegmentKeepsIInv == ASSUME IInv, NEW n \in Node, RecvSegment(n) PROVE IInv'
<1> DEFINE s == sock[n]
           p == Pop(s)
           seg == Head(s.packetbuffer)
           d == IF s.state = "LISTEN" THEN "bound" ELSE demux[n]
<1>1. call[n] # "new" /\ call[n] # "idle" /\ s.packetbuffer # <<>> /\ call' = call
  BY DEF RecvSegment, Blocking
<1>2. Holds(s, COUNT) /\ COUNT \in Nat
  BY Constants DEF IInv
<1>3. Holds(p, COUNT - 1) /\ seg \in AnySegment /\ p.state = s.state /\ p.waiting = s.waiting
  BY <1>1, <1>2, PopHolds
<1>4. PICK env \in Env(s) : Become(n, input(p, env, seg))
  BY DEF RecvSegment
<1> DEFINE r == input(p, env, seg)
<1> HIDE DEF p, seg
<1>5. Holds(r, (COUNT - 1) + 1) /\ Leads(p, r)
  BY <1>3, InputHolds
<1>6. Holds(r, COUNT)
  <2>1. (COUNT - 1) + 1 = COUNT
    BY <1>2
  <2> QED BY <1>5, <2>1
<1>7. Leads(s, r)
  BY <1>3, <1>5 DEF Leads
<1>8. demux' = [demux EXCEPT ![n] = d] /\ d \in {"none", "listen", "deaf", "bound"}
  BY DEF RecvSegment, IInv
<1> HIDE DEF r, d
<1>9. /\ demux' \in [Node -> {"none", "listen", "deaf", "bound"}]
      /\ \A m \in Node \ {n} : demux'[m] = demux[m]
  BY <1>8, DemuxIs
<1> QED BY <1>1, <1>4, <1>6, <1>7, <1>9, InCallKeepsIInv DEF r

LEMMA RecvNothingKeepsIInv == ASSUME IInv, NEW n \in Node, RecvNothing(n) PROVE IInv'
<1>1. call[n] # "new" /\ call[n] # "idle" /\ call' = call /\ demux' = demux
  BY DEF RecvNothing, RecvNothingIn, Blocking
<1>2. PICK env \in Env(sock[n]) : Become(n, inputIdle(sock[n], env))
  BY DEF RecvNothing, RecvNothingIn
<1>3. Holds(sock[n], COUNT) /\ demux \in [Node -> {"none", "listen", "deaf", "bound"}]
  BY DEF IInv
<1>4. Holds(inputIdle(sock[n], env), COUNT) /\ Leads(sock[n], inputIdle(sock[n], env))
  BY <1>3, InputIdleHolds
<1> QED BY <1>1, <1>2, <1>3, <1>4, InCallKeepsIInv

LEMMA PollEndKeepsIInv == ASSUME IInv, NEW n \in Node, pollEnd(n) PROVE IInv'
<1> DEFINE s == sock[n]
           c == IF sock'[n].state = "CLOSED" THEN "done" ELSE "idle"
<1>1. call[n] = "poll" /\ call' = [call EXCEPT ![n] = c] /\ demux' = demux
  BY DEF pollEnd
<1>2. c \in Calls
  BY DEF Calls
<1>3. PICK env \in Env(s) : Become(n, processACK(updateHistory(s, TRUE, env), env))
  BY DEF pollEnd
<1> DEFINE r == processACK(updateHistory(s, TRUE, env), env)
<1>4. Holds(s, COUNT) /\ Phase("poll", s)
  BY <1>1 DEF IInv
<1>5. Holds(r, COUNT) /\ (Kept(s, r) \/ r.state = "CLOSED") /\ Become(n, r)
  BY <1>3, <1>4, UpdateThenACK
<1> HIDE DEF r
<1>6. r.state \in Opened \cup {"CLOSED"}
  BY <1>4, <1>5 DEF Phase, Kept
<1>7. /\ sock' \in [Node -> AnySocket] /\ net' \in [Node -> SUBSET AnySegment]
      /\ \A m \in Node \ {n} : sock'[m] = sock[m]
      /\ Holds(sock'[n], COUNT) /\ sock'[n].out = {}
      /\ sock'[n].state = r.state
  BY <1>5, BecomeIs
<1>8. sock'[n].state # "CLOSED" => sock'[n].state \in Opened
  BY <1>6, <1>7
<1>a. c = "done" \/ (c = "idle" /\ sock'[n].state \in Opened)
  BY <1>8
<1>b. Waits(sock'[n])
  BY <1>6, <1>7 DEF Waits, Opening, Opened, Ending
<1> HIDE DEF c
<1>9. /\ call' \in [Node -> Calls] /\ call'[n] = c
      /\ \A m \in Node \ {n} : call'[m] = call[m]
  BY <1>1, <1>2, CallIs
<1>10. Phase(call'[n], sock'[n]) /\ Fresh(n)' /\ Other(n)
  BY <1>1, <1>7, <1>9, <1>a DEF Phase, Fresh, Other
<1>11. demux' \in [Node -> {"none", "listen", "deaf", "bound"}]
  BY <1>1 DEF IInv
<1> QED BY <1>7, <1>9, <1>10, <1>11, <1>b, StepKeepsIInv

\* A call returns only from an open or a closed socket, or a killed one.
LEMMA ReturnKeepsIInv == ASSUME IInv, NEW n \in Node, Return(n) PROVE IInv'
<1> DEFINE s == sock[n]
           c == IF s.state = "CLOSED" THEN "done" ELSE "idle"
           d == IF call[n] = "close" THEN "none" ELSE demux[n]
<1>1. /\ call[n] \in Blocking /\ ~s.waiting
      /\ call' = [call EXCEPT ![n] = c] /\ demux' = [demux EXCEPT ![n] = d]
      /\ sock' = sock /\ net' = net
  BY DEF Return
<1>2. c \in Calls /\ d \in {"none", "listen", "deaf", "bound"}
  BY DEF Calls, IInv
<1>3. Phase(call[n], s) /\ Waits(s)
  BY DEF IInv
<1>4. c = "done" \/ (c = "idle" /\ s.state # "CLOSED")
  OBVIOUS
<1> HIDE DEF c, d
<1>5. /\ call' \in [Node -> Calls] /\ call'[n] = c
      /\ \A m \in Node \ {n} : call'[m] = call[m]
  BY <1>1, <1>2, CallIs
<1>6. /\ demux' \in [Node -> {"none", "listen", "deaf", "bound"}]
      /\ \A m \in Node \ {n} : demux'[m] = demux[m]
  BY <1>1, <1>2, DemuxIs
<1>7. /\ s.state \in Opened \cup Ending \cup {"CLOSED"}
      /\ s.state \in Ending => RetransmissionCounter
  BY <1>1, <1>3 DEF Phase, Waits, Blocking
<1>8. Phase(c, s)
  BY <1>4, <1>7 DEF Phase
<1>9. Fresh(n)' /\ Other(n)
  BY <1>1, <1>4, <1>5, <1>6 DEF Fresh, Other
<1> QED BY <1>1, <1>5, <1>6, <1>8, <1>9, StepKeepsIInv DEF IInv

\* A queued segment takes a block of the mempool into packetbuffer.
LEMMA QueuedHolds ==
  ASSUME NEW s, NEW n, Holds(s, n), NEW seg \in AnySegment,
         Len(s.packetbuffer) < PACKET_LIMIT - 1, s.mempool > 0
  PROVE  LET r == [s EXCEPT !.packetbuffer = Append(@, seg), !.mempool = @ - 1]
         IN  /\ Holds(r, n) /\ r.out = s.out
             /\ r.state = s.state /\ r.waiting = s.waiting
<1> DEFINE q == s.packetbuffer
           a == Append(q, seg)
           m == s.mempool - 1
           r == [s EXCEPT !.packetbuffer = a, !.mempool = m]
<1>1. s \in AnySocket /\ q \in Seq(AnySegment) /\ s.mempool \in Nat
  BY HoldsIs DEF AnySocket
<1>2. a \in Seq(AnySegment) /\ Len(a) = Len(q) + 1 /\ Len(q) \in Nat /\ m \in Nat
  BY <1>1
<1>q. Len(q) + 1 < PACKET_LIMIT
  <2>1. Len(q) < PACKET_LIMIT - 1
    OBVIOUS
  <2> HIDE DEF q, a
  <2> QED BY <1>2, <2>1, Constants
<1> HIDE DEF a
<1>m. m = s.mempool - 1
  OBVIOUS
<1> HIDE DEF m
<1>3. /\ r \in AnySocket /\ r.packetbuffer = a /\ r.mempool = m
      /\ r.history = s.history /\ r.receiveBuffer = s.receiveBuffer
      /\ r.state = s.state /\ r.waiting = s.waiting /\ r.out = s.out
  BY <1>1, <1>2 DEF AnySocket
<1> HIDE DEF r
<1>4. Bounded(r)
  BY <1>2, <1>3, <1>q DEF Holds, Bounded
<1>5. Gained(s, r) = 0
  <2>1. /\ s.mempool \in Nat /\ Len(s.history) \in Nat /\ Len(s.receiveBuffer.list) \in Nat
    BY HoldsIs
  <2> QED BY <1>2, <1>3, <1>m, <2>1 DEF Gained
<1>6. Holds(r, n + 0) /\ n \in Nat
  BY <1>4, <1>5, GainHolds, HoldsIs
<1>7. Holds(r, n)
  BY <1>6
<1> QED BY <1>3, <1>7 DEF r, a, m

LEMMA DeliverKeepsIInv == ASSUME IInv, NEW n \in Node, Deliver(n) PROVE IInv'
<1> DEFINE s == sock[n]
<1>1. PICK seg \in net[n] :
         /\ addToReceiveQueue(n, seg)
         /\ net' = [net EXCEPT ![n] = @ \ {seg}] \/ net' = net
  BY DEF Deliver
<1>2. call' = call
  BY DEF Deliver
<1>3. /\ Holds(s, COUNT) /\ s.out = {} /\ Phase(call[n], s) /\ Waits(s) /\ Fresh(n)
      /\ sock \in [Node -> AnySocket] /\ net \in [Node -> SUBSET AnySegment]
      /\ call \in [Node -> Calls] /\ demux \in [Node -> {"none", "listen", "deaf", "bound"}]
  BY DEF IInv
<1>4. seg \in AnySegment /\ net' \in [Node -> SUBSET AnySegment]
  BY <1>1, <1>3
<1>5. CASE /\ Matches(n, seg) /\ Len(s.packetbuffer) < PACKET_LIMIT - 1 /\ s.mempool > 0
  <2> DEFINE r == [s EXCEPT !.packetbuffer = Append(@, seg), !.mempool = @ - 1]
             d == IF demux[n] = "listen" THEN "deaf" ELSE demux[n]
  <2>1. sock' = [sock EXCEPT ![n] = r] /\ demux' = [demux EXCEPT ![n] = d]
    BY <1>1, <1>3, <1>5 DEF addToReceiveQueue
  <2>2. Holds(r, COUNT) /\ r.out = {} /\ r.state = s.state /\ r.waiting = s.waiting
    BY <1>3, <1>4, <1>5, QueuedHolds
  <2>3. d \in {"none", "listen", "deaf", "bound"}
    BY <1>3
  <2> HIDE DEF r, d
  <2>4. /\ demux' \in [Node -> {"none", "listen", "deaf", "bound"}]
        /\ \A m \in Node \ {n} : demux'[m] = demux[m]
    BY <2>1, <2>3, DemuxIs
  <2>5. r \in AnySocket
    BY <2>2, HoldsIs
  <2>6. /\ sock' \in [Node -> AnySocket] /\ sock'[n] = r
        /\ \A m \in Node \ {n} : sock'[m] = sock[m]
    BY <1>3, <2>1, <2>5
  <2>7. Phase(call'[n], sock'[n]) /\ Waits(sock'[n])
    BY <1>2, <1>3, <2>2, <2>6 DEF Phase, Waits
  <2>8. call[n] # "new"
    BY <1>3, <1>5 DEF Fresh, Matches
  <2>9. Fresh(n)' /\ Other(n)
    BY <1>2, <2>4, <2>6, <2>8 DEF Fresh, Other
  <2> QED BY <1>2, <1>3, <1>4, <2>2, <2>4, <2>6, <2>7, <2>9, StepKeepsIInv
<1>6. CASE ~(/\ Matches(n, seg) /\ Len(s.packetbuffer) < PACKET_LIMIT - 1 /\ s.mempool > 0)
  <2>1. sock' = sock /\ demux' = demux
    BY <1>1, <1>6 DEF addToReceiveQueue
  <2> QED BY <1>2, <1>4, <2>1 DEF IInv, Fresh
<1> QED BY <1>5, <1>6

LEMMA LoseKeepsIInv == ASSUME IInv, NEW n \in Node, Lose(n) PROVE IInv'
<1>1. PICK seg \in net[n] : net' = [net EXCEPT ![n] = @ \ {seg}]
  BY DEF Lose
<1>2. sock' = sock /\ call' = call /\ demux' = demux
  BY DEF Lose
<1>3. net' \in [Node -> SUBSET AnySegment]
  BY <1>1 DEF IInv
<1> QED BY <1>2, <1>3 DEF IInv, Fresh

-----------------------------------------------------------------------------
(* The initial states, the next-state relation and the theorems.            *)

LEMMA InitIInv == Init => IInv
<1> SUFFICES ASSUME Init PROVE IInv
  OBVIOUS
<1>1. NewSocket \in AnySocket /\ Holds(NewSocket, COUNT)
  BY NewSocketHolds, HoldsIs
<1>2. NewSocket.state = "CLOSED" /\ NewSocket.out = {}
  BY DEF NewSocket
<1>3. \A n \in Node : /\ sock[n] = NewSocket /\ call[n] = "new" /\ demux[n] = "none"
  BY DEF Init
<1>4. \A n \in Node : Phase(call[n], sock[n]) /\ Waits(sock[n]) /\ Fresh(n)
  BY <1>2, <1>3 DEF Phase, Waits, Fresh, Opening, Opened, Ending
<1>5. /\ sock \in [Node -> AnySocket] /\ call \in [Node -> Calls]
      /\ demux \in [Node -> {"none", "listen", "deaf", "bound"}]
      /\ net \in [Node -> SUBSET AnySegment]
  BY <1>1 DEF Init, Calls
<1> QED BY <1>1, <1>2, <1>3, <1>4, <1>5 DEF IInv

\* connect() and listen() have returned: the client's last ACK is in its history.
LEMMA EstablishedSocketHolds ==
  ASSUME NEW n \in Node
  PROVE  LET s == EstablishedSocket(n)
         IN  Holds(s, COUNT) /\ s.state = "ESTABLISHED" /\ s.out = {}
<1> DEFINE next == SeqAdd(ISN[n], 1)
           peer == SeqAdd(ISN[Peer(n)], 1)
           wnd == Min({maxReceiveWindow_Bytes, WINDOW_MAX})
           ack == Segment({"ACK"}, next, peer, wnd, 0, 0)
           lwseq == IF n = Client THEN ISN[Peer(n)] ELSE peer
           rb == setFirstSeqNum(EmptyReceiveBuffer, peer)
           hist == IF n = Server THEN <<>> ELSE <<Record(ack, FALSE)>>
           pool == IF n = Server THEN COUNT ELSE COUNT - 1
           s == EstablishedSocket(n)
<1>1. ISN[n] \in SeqNum /\ ISN[Peer(n)] \in SeqNum
  BY ConnectionAssumption, NodeIs
<1>2. next \in SeqNum /\ peer \in SeqNum /\ lwseq \in SeqNum
  BY <1>1, SeqAddSeqNum
<1>3. wnd \in 0 .. WINDOW_MAX
  <2>1. maxReceiveWindow_MSS * MSS \in Nat /\ UNSIGNED_MAX \in Nat
    BY SocketAssumption
  <2>2. maxReceiveWindow_Bytes \in Nat
    BY <2>1, MinPairIs DEF maxReceiveWindow_Bytes
  <2> QED BY <2>2, MinPairIs, Constants
<1> HIDE DEF next, peer, wnd, lwseq
<1>4. ack \in AnySegment
  BY <1>2, <1>3 DEF Segment, AnySegment, Flags
<1> HIDE DEF ack
<1>5. hist \in Seq(AnyRecord) /\ pool \in Nat /\ pool + Len(hist) = COUNT /\ Len(hist) <= 1
  <2> DEFINE rec == Record(ack, FALSE)
  <2>1. rec \in AnyRecord
    BY <1>4 DEF Record, AnyRecord
  <2> HIDE DEF rec
  <2>2. CASE n = Server
    BY <2>2, Constants
  <2>3. CASE n # Server
    <3>1. hist = <<rec>> /\ pool = COUNT - 1
      BY <2>3 DEF rec
    <3> HIDE DEF hist, pool
    <3>2. hist \in Seq(AnyRecord) /\ Len(hist) = 1
      BY <2>1, <3>1
    <3> QED BY <3>1, <3>2, Constants
  <2> QED BY <2>2, <2>3
<1>6. rb \in AnyBuffer /\ Len(rb.list) = 0 /\ rb.recv_continuous = 0
  <2> DEFINE e == EmptyReceiveBuffer
  <2>1. e \in AnyBuffer /\ Len(e.list) = 0 /\ e.recv_continuous = 0
    BY Constants DEF EmptyReceiveBuffer, AnyBuffer
  <2> HIDE DEF e
  <2>2. LET r == [e EXCEPT !.read_firstSeqNum = peer]
        IN  r \in AnyBuffer /\ r.list = e.list /\ r.recv_continuous = e.recv_continuous
    BY <1>2, <2>1 DEF AnyBuffer
  <2>3. rb = [e EXCEPT !.read_firstSeqNum = peer]
    BY DEF setFirstSeqNum, e
  <2> HIDE DEF rb
  <2> QED BY <2>1, <2>2, <2>3
<1>7. s = [NewSocket EXCEPT !.state = "ESTABLISHED", !.seqnum_next = next,
             !.seqnum_unacked = next, !.sendWindow = wnd, !.lwack = next, !.lwseq = lwseq,
             !.receiveBuffer = rb, !.history = hist, !.mempool = pool]
  BY DEF EstablishedSocket, next, peer, wnd, ack, lwseq, NewSocket
<1> DEFINE new == NewSocket
<1>n. /\ new \in AnySocket /\ new.out = {} /\ Len(new.packetbuffer) = 0
      /\ "ESTABLISHED" \in States
  BY NewSocketHolds, HoldsIs DEF NewSocket, States
<1>e. s = [new EXCEPT !.state = "ESTABLISHED", !.seqnum_next = next,
             !.seqnum_unacked = next, !.sendWindow = wnd, !.lwack = next, !.lwseq = lwseq,
             !.receiveBuffer = rb, !.history = hist, !.mempool = pool]
  BY <1>7
<1> HIDE DEF rb, hist, pool, s, new
<1>8. /\ s \in AnySocket /\ s.state = "ESTABLISHED" /\ s.out = new.out /\ s.history = hist
      /\ s.mempool = pool /\ s.receiveBuffer = rb /\ s.packetbuffer = new.packetbuffer
  BY <1>2, <1>3, <1>5, <1>6, <1>n, <1>e DEF AnySocket
<1>9. Holds(s, COUNT)
  <2>1. Len(s.history) <= TCP_HISTORY_MAX_PACKETS /\ Len(s.packetbuffer) < PACKET_LIMIT
    BY <1>5, <1>8, <1>n, Constants
  <2>2. s.receiveBuffer.recv_continuous <= Len(s.receiveBuffer.list)
    BY <1>6, <1>8
  <2>3. Blocks(s) = s.mempool + Len(s.packetbuffer) + Len(s.history) + Len(s.receiveBuffer.list)
    BY DEF Blocks
  <2>4. /\ s.mempool = pool /\ Len(s.packetbuffer) = 0 /\ Len(s.history) = Len(hist)
        /\ Len(s.receiveBuffer.list) = 0 /\ Len(hist) \in Nat
    BY <1>5, <1>6, <1>8, <1>n
  <2>5. Blocks(s) = COUNT
    BY <1>5, <2>3, <2>4
  <2> QED BY <1>8, <2>1, <2>2, <2>5 DEF Holds
<1> QED BY <1>8, <1>9, <1>n DEF s

LEMMA InitEstablishedIInv == InitEstablished => IInv
<1> SUFFICES ASSUME InitEstablished PROVE IInv
  OBVIOUS
<1>1. \A n \in Node : /\ sock[n] = EstablishedSocket(n) /\ call[n] = "idle"
  BY DEF InitEstablished
<1>2. \A n \in Node : /\ Holds(sock[n], COUNT) /\ sock[n].state = "ESTABLISHED"
                      /\ sock[n].out = {}
  BY <1>1, EstablishedSocketHolds
<1>3. \A n \in Node : Phase(call[n], sock[n]) /\ Waits(sock[n]) /\ Fresh(n)
  BY <1>1, <1>2 DEF Phase, Waits, Fresh, Opening, Opened, Ending
<1>4. sock \in [Node -> AnySocket]
  <2>1. \A n \in Node : sock[n] \in AnySocket
    BY <1>2, HoldsIs
  <2> QED BY <2>1 DEF InitEstablished
<1>5. /\ call \in [Node -> Calls]
      /\ demux \in [Node -> {"none", "listen", "deaf", "bound"}]
      /\ net \in [Node -> SUBSET AnySegment]
  BY DEF InitEstablished, Calls
<1> QED BY <1>2, <1>3, <1>4, <1>5 DEF IInv

LEMMA NextKeepsIInv == IInv /\ [Next]_vars => IInv'
<1> SUFFICES ASSUME IInv, [Next]_vars PROVE IInv'
  OBVIOUS
<1>1. CASE connect
  BY <1>1, ConnectKeepsIInv
<1>2. CASE listenCall \/ listenAgain
  BY <1>2, ListenCallKeepsIInv
<1>3. ASSUME NEW n \in Node, NEW len \in 1 .. ToWrite[n], write(n, len) PROVE IInv'
  <2>1. len \in Nat
    BY ConnectionAssumption
  <2> QED BY <1>3, <2>1, WriteKeepsIInv
<1>4. ASSUME NEW n \in Node, NEW len \in ReadSizes, receive(n, len) PROVE IInv'
  <2>1. len \in Nat
    BY ConnectionAssumption
  <2> QED BY <1>4, <2>1, ReceiveKeepsIInv
<1>5. ASSUME NEW n \in Node, poll(n) PROVE IInv'
  BY <1>5, PollKeepsIInv
<1>6. ASSUME NEW n \in Node, close(n) PROVE IInv'
  BY <1>6, CloseKeepsIInv
<1>7. ASSUME NEW n \in Node, RecvSegment(n) PROVE IInv'
  BY <1>7, RecvSegmentKeepsIInv
<1>8. ASSUME NEW n \in Node, RecvNothing(n) PROVE IInv'
  BY <1>8, RecvNothingKeepsIInv
<1>9. ASSUME NEW n \in Node, pollEnd(n) PROVE IInv'
  BY <1>9, PollEndKeepsIInv
<1>10. ASSUME NEW n \in Node, Return(n) PROVE IInv'
  BY <1>10, ReturnKeepsIInv
<1>11. ASSUME NEW n \in Node, Deliver(n) PROVE IInv'
  BY <1>11, DeliverKeepsIInv
<1>12. ASSUME NEW n \in Node, Lose(n) PROVE IInv'
  BY <1>12, LoseKeepsIInv
<1>13. CASE UNCHANGED vars
  BY <1>13 DEF vars, IInv, Fresh
<1> QED BY <1>1, <1>2, <1>3, <1>4, <1>5, <1>6, <1>7, <1>8, <1>9, <1>10, <1>11, <1>12,
           <1>13 DEF Next

LEMMA ConnectionIInv == Spec \/ EstablishedSpec => []IInv
<1>1. Init => IInv
  BY InitIInv
<1>2. InitEstablished => IInv
  BY InitEstablishedIInv
<1>3. IInv /\ [Next]_vars => IInv'
  BY NextKeepsIInv
<1> QED BY <1>1, <1>2, <1>3, PTL DEF Spec, EstablishedSpec

\* Whatever the network and the timers do, every socket stays in its states
\* and inside the bounds of its history, its packetbuffer and its mempool.
THEOREM ConnectionType == Spec \/ EstablishedSpec => []TypeOK
<1>1. IInv => TypeOK
  <2> SUFFICES ASSUME IInv, NEW n \in Node
               PROVE  /\ sock[n].state \in States /\ sock[n].out = {}
                      /\ sock[n].seqnum_unacked \in SeqNum /\ sock[n].seqnum_next \in SeqNum
                      /\ sock[n].mempool \in 0 .. COUNT
                      /\ Len(sock[n].history) <= TCP_HISTORY_MAX_PACKETS
                      /\ Len(sock[n].packetbuffer) < PACKET_LIMIT
                      /\ sock[n].sendWindow \in 0 .. WINDOW_MAX
    BY DEF TypeOK, IInv
  <2> DEFINE s == sock[n]
  <2>1. Holds(s, COUNT) /\ s.out = {}
    BY DEF IInv
  <2> HIDE DEF s
  <2>2. /\ s \in AnySocket /\ s.mempool \in Nat /\ Len(s.packetbuffer) \in Nat
        /\ Len(s.history) \in Nat /\ Len(s.receiveBuffer.list) \in Nat
    BY <2>1, HoldsIs
  <2>3. s.mempool + Len(s.packetbuffer) + Len(s.history) + Len(s.receiveBuffer.list) = COUNT
    BY <2>1 DEF Holds, Blocks
  <2>4. s.mempool \in 0 .. COUNT
    BY <2>2, <2>3, Constants, SMTT(30)
  <2> QED BY <2>1, <2>2, <2>4 DEF Holds, AnySocket, s
<1> QED BY <1>1, ConnectionIInv, PTL

\* Every block of the mempool is always free, or in exactly one of the
\* packetbuffer, the history and the receiveBuffer: no path of the state
\* machine, no abort(), no retransmission limit loses a block or frees it twice.
THEOREM ConnectionBlocks == Spec \/ EstablishedSpec => []BlocksConserved
<1>1. IInv => BlocksConserved
  BY DEF IInv, Holds, Blocks, BlocksConserved
<1> QED BY <1>1, ConnectionIInv, PTL

\* Without the retransmission counter no call leaves the socket between
\* ESTABLISHED and CLOSED: close() waits until the connection is over, and a
\* connect(), listen(), write() or receive() never begins its end.
THEOREM CloseCompletes ==
  ASSUME ~RetransmissionCounter
  PROVE  Spec \/ EstablishedSpec => []CloseEndsClosed
<1>1. IInv => CloseEndsClosed
  BY DEF IInv, Phase, Opened, CloseEndsClosed
<1> QED BY <1>1, ConnectionIInv, PTL

-----------------------------------------------------------------------------
(* Numbers, segments and the view of a socket.                              *)

\* Positions in the numbering of node n: 0 is its SYN, k + 1 the byte k of
\* its stream, and the number behind the last byte is its FIN.
At(n, k) == SeqAdd(ISN[n], k)
Pos(n, x) == SeqDiff(x, ISN[n])
Una(n, s) == Pos(n, s.seqnum_unacked)
Nxt(n, s) == Pos(n, s.seqnum_next)

\* The bytes of the peer's stream that socket s has acknowledged.
Got(s) == Len(s.read) + s.receiveBuffer.recv_bytes

AtEnd == {"CLOSEWAIT", "LASTACK", "CLOSING", "TIMEWAIT"}

\* How far the handshake is in call c: 0 before the SYN, 2 behind it.
Stage(c, s) ==
    IF c = "new" \/ s.state = "LISTEN" THEN 0
    ELSE IF s.state \in {"SYNSENT", "SYNRCVD"} THEN 1 ELSE 2

FinSent(n, c, s) == Stage(c, s) = 2 /\ Nxt(n, s) = s.buf + 2

\* The segments that s may still hand to the interface, or just has, and
\* those it sends again until they are acknowledged.
Segs(s) == s.out \cup {s.history[i].seg : i \in DOMAIN s.history}
Timed(s) == {s.history[i].seg : i \in TimedRecords(s)}

\* The segments that have not reached node n's socket.
Queue(n) == net[n] \cup Range(sock[n].packetbuffer)

Straddles(g, k) == g.len > 0 /\ g.data < k /\ k < End(g)

\* Node n's end of the connection.
Side(n) == [c |-> call[n], k |-> confirmed[n], w |-> written[n], s |-> sock[n],
            q |-> Queue(Peer(n))]

\* The positions at which no segment of node n, with its side a, has bytes
\* both before and behind.
Cuts(n, a) ==
    IF Stage(a.c, a.s) = 0 THEN {}
    ELSE {k \in 0 .. Nxt(n, a.s) - 1 : \A g \in a.q \cup Segs(a.s) : ~Straddles(g, k)}
Ends(n, a) == {k \in Cuts(n, a) : k <= a.s.buf}

\* The positions s may acknowledge when the peer's stream can end at ends:
\* what it has got, and the FIN behind the last byte v.
Acks(s, ends, v, fin) ==
    {k + 1 : k \in {x \in ends : x <= Got(s)}}
      \cup IF fin /\ s.state \in AtEnd \cup {"CLOSED"} /\ Got(s) = v
           THEN {v + 2} ELSE {}

\* What a step of node n, with side a, relies on and leaves as it is at the
\* peer's side b.
View(n, a, b) ==
    [c      |-> a.c,                          \* its call
     k      |-> a.k,
     w      |-> a.w,
     v      |-> b.w,
     stage  |-> Stage(b.c, b.s),
     fin    |-> FinSent(Peer(n), b.c, b.s),
     flight |-> a.q,                          \* its segments on their way
     cuts   |-> Cuts(n, a),
     ends   |-> Ends(Peer(n), b),
     acks   |-> Acks(b.s, Ends(n, a), a.w, FinSent(n, a.c, a.s))]

\* A segment that node n sent at that stage, with w bytes written and an
\* acknowledgement out of acks.
SegOK(n, g, stage, w, fin, acks) ==
    /\ has(g, "ACK") => Pos(Peer(n), g.ack) \in acks
    /\ \/ /\ g.flags = IF n = Client THEN {"SYN"} ELSE {"SYN", "ACK"}
          /\ g.len = 0 /\ g.seq = At(n, 0) /\ stage >= 1
       \/ /\ g.flags \subseteq {"ACK", "PSH", "FIN"} /\ has(g, "ACK") /\ stage = 2
          /\ has(g, "FIN") => g.len = 0 /\ g.seq = At(n, 1 + w) /\ fin
          /\ g.len > 0 => g.seq = At(n, 1 + g.data)

-----------------------------------------------------------------------------
(* What holds of node n's socket s with the view e of the connection.       *)

Sending(n, s, e) ==
    /\ s.buf <= e.w
    /\ Stage(e.c, s) < 2 => s.buf = 0 /\ e.w = 0
    /\ s.state = "LISTEN" => Nxt(n, s) = 0
    /\ Stage(e.c, s) = 1 => Nxt(n, s) = 1
    /\ Stage(e.c, s) = 2 => Nxt(n, s) \in {s.buf + 1, s.buf + 2} /\ Una(n, s) >= 1
    /\ e.c # "new" => Una(n, s) <= Nxt(n, s) /\ (Una(n, s) = 0 \/ Una(n, s) \in e.acks)
    /\ s.state \in Opened => Nxt(n, s) = s.buf + 1
    /\ s.state \in Ending => Nxt(n, s) = s.buf + 2
    /\ FinSent(n, e.c, s) => s.buf = e.w
    /\ e.k <= e.w /\ (e.k = 0 \/ e.k < Una(n, s))

\* What the task asks of the socket.
Tasks(n, s, e) ==
    /\ s.state \in Opened =>
         /\ IF e.c = "write" THEN s.buf + s.buflen = e.w /\ (~s.waiting => Una(n, s) = 1 + e.w)
                             ELSE s.buf = e.w
         /\ e.c = "connect" => s.buflen = 0
         /\ e.c \in {"idle", "poll", "close", "listen"} => ~s.waiting
         /\ s.receiving <=> (e.c = "receive" /\ s.waiting)
    /\ s.state \in {"LISTEN", "SYNRCVD"} => n = Server /\ e.c = "listen" /\ s.waiting
    /\ s.state = "SYNSENT" => n = Client /\ e.c = "connect" /\ s.waiting
    /\ e.c = "listen" => s.state \in {"LISTEN", "SYNRCVD", "ESTABLISHED"}
    /\ e.c = "poll" => s.state \in Opened
    /\ e.c = "new" => s.state = "CLOSED"
    /\ s.state \in Opening \/ e.c = "new" =>
         ~RetransmissionCounter /\ s.buflen = 0 /\ ~s.receiving

Unsynchronised(c, s) == c = "new" \/ s.state \in {"LISTEN", "SYNSENT"}

Receiving(n, s, e) ==
    LET rb == s.receiveBuffer
    IN  IF Unsynchronised(e.c, s)
        THEN s.read = <<>> /\ rb.list = <<>> /\ rb.recv_continuous = 0 /\ rb.recv_bytes = 0
        ELSE /\ \A i \in DOMAIN s.read : s.read[i] = i - 1
             /\ Consistent(At(Peer(n), 1), ToWrite[Peer(n)], rb, Len(s.read))
             /\ Got(s) \in e.ends
             /\ \A i \in DOMAIN rb.list : End(rb.list[i]) \in e.ends

Finishing(n, s, e) ==
    /\ s.FIN_received \/ s.state \in AtEnd => s.FIN_seqnum = At(Peer(n), 1 + e.v) /\ e.fin
    /\ s.state \in AtEnd => Got(s) = e.v
    /\ e.c = "new" \/ s.state \in Opening => ~s.FIN_received

\* Every byte handed to the interface is acknowledged or in the history.
Covered(n, s, e) ==
    s.state \in Opened \/ (~RetransmissionCounter /\ s.state \in Ending) =>
      /\ \A k \in 0 .. s.buf - 1 : 
           k + 1 < Una(n, s) \/ \E g \in Timed(s) : g.data <= k /\ k < End(g)
      /\ FinSent(n, e.c, s) => Una(n, s) = Nxt(n, s) \/ \E g \in Timed(s) : has(g, "FIN")
      /\ s.state \in {"FINWAIT2", "TIMEWAIT"} => Una(n, s) = Nxt(n, s)

\* The segments cut the stream in one way only.
Sent(n, s, e) ==
    \A g \in e.flight \cup Segs(s) :
        /\ SegOK(n, g, Stage(e.c, s), e.w, FinSent(n, e.c, s), Acks(s, e.ends, e.v, e.fin))
        /\ g.len > 0 => End(g) <= s.buf
        /\ g.len > 0 => \A h \in e.flight \cup Segs(s) : ~Straddles(h, End(g))

\* The cuts of the view are still cuts.
Uncut(n, s, e) == \A k \in e.cuts : k < Nxt(n, s) /\ \A g \in Segs(s) : ~Straddles(g, k)

\* The server cannot be through with the handshake before the client.
Handshake(n, s, e) ==
    IF n = Client THEN /\ e.stage = 2 => Stage(e.c, s) = 2
                       /\ Stage(e.c, s) = 2 => e.stage >= 1
                  ELSE /\ Stage(e.c, s) = 2 => e.stage = 2
                       /\ e.stage = 2 => Stage(e.c, s) >= 1

-----------------------------------------------------------------------------
(* Positions.                                                               *)

LEMMA NodeFacts ==
  ASSUME NEW n \in Node
  PROVE  /\ Peer(n) \in Node /\ Peer(n) # n /\ Peer(Peer(n)) = n
         /\ \A m \in Node : m = n \/ m = Peer(n)
         /\ ISN[n] \in SeqNum /\ ToWrite[n] \in Nat /\ ToWrite[Peer(n)] \in Nat
         /\ ToWrite[n] + 2 < SEQMOD \div 2 /\ ToWrite[Peer(n)] + 2 < SEQMOD \div 2
         /\ SEQMOD \div 2 \in Nat /\ SEQMOD \div 2 <= SEQMOD /\ SEQMOD \in Nat
<1>1. Client # Server /\ ISN \in [Node -> SeqNum] /\ ToWrite \in [Node -> Nat]
      /\ \A m \in Node : ToWrite[m] + 2 < SEQMOD \div 2
  BY ConnectionAssumption
<1>2. Peer(n) \in Node /\ Peer(n) # n /\ Peer(Peer(n)) = n /\ \A m \in Node : m = n \/ m = Peer(n)
  BY <1>1 DEF Node, Peer
<1>3. SEQMOD \div 2 \in Nat /\ SEQMOD \div 2 <= SEQMOD /\ SEQMOD \in Nat
  BY SeqModAssumption
<1> QED BY <1>1, <1>2, <1>3

LEMMA PosAt ==
  ASSUME NEW n \in Node, NEW k \in Nat, k < SEQMOD
  PROVE  At(n, k) \in SeqNum /\ Pos(n, At(n, k)) = k
<1> DEFINE i == ISN[n]
           x == SeqAdd(i, k)
<1>1. SEQMOD \in Nat /\ SEQMOD >= 2 /\ k \in 0 .. SEQMOD /\ i \in 0 .. SEQMOD - 1
  BY SeqModAssumption, NodeFacts DEF SeqNum
<1>2. x \in SeqNum /\ x = IF i + k < SEQMOD THEN i + k ELSE i + k - SEQMOD
  BY <1>1, SeqAddValue DEF SeqNum
<1>3. ASSUME NEW z \in 0 .. SEQMOD - 1 PROVE z % SEQMOD = z
  BY <1>1
<1>4. ASSUME NEW z \in -SEQMOD .. -1 PROVE z % SEQMOD = z + SEQMOD
  BY <1>1
<1> HIDE DEF x, i
<1>5. SeqDiff(x, i) = k
  <2>1. CASE i + k < SEQMOD
    <3>1. x - i = k /\ k \in 0 .. SEQMOD - 1
      BY <1>1, <1>2, <2>1
    <3> QED BY <1>3, <3>1 DEF SeqDiff
  <2>2. CASE i + k >= SEQMOD
    <3>1. x - i = k - SEQMOD /\ k - SEQMOD \in -SEQMOD .. -1 /\ (k - SEQMOD) + SEQMOD = k
      BY <1>1, <1>2, <2>2
    <3> QED BY <1>4, <3>1 DEF SeqDiff
  <2> QED BY <1>1, <2>1, <2>2
<1> QED BY <1>2, <1>5 DEF At, Pos, x, i

LEMMA PosIs ==
  ASSUME NEW n \in Node, NEW x \in SeqNum
  PROVE  Pos(n, x) \in SeqNum /\ Pos(n, x) \in Nat /\ Pos(n, x) < SEQMOD /\ At(n, Pos(n, x)) = x
<1> DEFINE i == ISN[n]
           d == SeqDiff(x, i)
<1>1. SEQMOD \in Nat /\ SEQMOD >= 2 /\ i \in 0 .. SEQMOD - 1 /\ x \in 0 .. SEQMOD - 1
  BY SeqModAssumption, NodeFacts DEF SeqNum
<1>2. ASSUME NEW z \in 0 .. SEQMOD - 1 PROVE z % SEQMOD = z
  BY <1>1
<1>3. ASSUME NEW z \in -SEQMOD .. -1 PROVE z % SEQMOD = z + SEQMOD
  BY <1>1
<1> HIDE DEF i
<1>4. d = IF x >= i THEN x - i ELSE x - i + SEQMOD
  <2>1. CASE x >= i
    <3>1. x - i \in 0 .. SEQMOD - 1
      BY <1>1, <2>1
    <3> QED BY <1>2, <2>1, <3>1 DEF SeqDiff
  <2>2. CASE x < i
    <3>1. x - i \in -SEQMOD .. -1
      BY <1>1, <2>2
    <3> QED BY <1>1, <1>3, <2>2, <3>1 DEF SeqDiff
  <2> QED BY <1>1, <2>1, <2>2
<1> HIDE DEF d
<1>5. d \in 0 .. SEQMOD - 1
  BY <1>1, <1>4
<1>6. SeqAdd(i, d) = x
  <2>1. SeqAdd(i, d) = IF i + d < SEQMOD THEN i + d ELSE i + d - SEQMOD
    BY <1>1, <1>5, SeqAddValue DEF SeqNum
  <2> QED BY <1>1, <1>4, <1>5, <2>1
<1>7. d \in SeqNum /\ d \in Nat /\ d < SEQMOD /\ SeqAdd(i, d) = x
  BY <1>1, <1>5, <1>6 DEF SeqNum
<1> QED BY <1>7 DEF d, i, Pos, At

\* Sequence numbers compare as their positions.
LEMMA PosCompare ==
  ASSUME NEW n \in Node, NEW x \in SeqNum, NEW y \in SeqNum,
         Pos(n, x) < SEQMOD \div 2, Pos(n, y) < SEQMOD \div 2
  PROVE  /\ x = y <=> Pos(n, x) = Pos(n, y)
         /\ SEQ_LT(x, y) <=> Pos(n, x) < Pos(n, y)
         /\ SEQ_LEQ(x, y) <=> Pos(n, x) <= Pos(n, y)
         /\ SEQ_GT(x, y) <=> Pos(n, x) > Pos(n, y)
         /\ SEQ_GEQ(x, y) <=> Pos(n, x) >= Pos(n, y)
<1> DEFINE a == Pos(n, x)
           b == Pos(n, y)
<1>1. a \in Nat /\ b \in Nat /\ x = SeqAdd(ISN[n], a) /\ y = SeqAdd(ISN[n], b) /\ ISN[n] \in SeqNum
  BY PosIs, NodeFacts DEF At
<1>2. a < SEQMOD \div 2 /\ b < SEQMOD \div 2
  OBVIOUS
<1> HIDE DEF a, b
<1>3. (x = y <=> a = b) /\ (SEQ_LT(x, y) <=> a < b) /\ (SEQ_GEQ(x, y) <=> a >= b)
  BY <1>1, <1>2, SeqCompare
<1>4. SEQ_LEQ(x, y) <=> a <= b
  BY <1>1, <1>3 DEF SEQ_LEQ
<1>5. SEQ_GT(x, y) <=> a > b
  BY <1>1, <1>4 DEF SEQ_GT
<1> QED BY <1>3, <1>4, <1>5 DEF a, b

LEMMA PosAdd ==
  ASSUME NEW n \in Node, NEW x \in SeqNum, NEW m \in Nat, Pos(n, x) + m < SEQMOD \div 2
  PROVE  SeqAdd(x, m) \in SeqNum /\ Pos(n, SeqAdd(x, m)) = Pos(n, x) + m
<1> DEFINE a == Pos(n, x)
<1>1. a \in Nat /\ x = SeqAdd(ISN[n], a) /\ ISN[n] \in SeqNum /\ a + m < SEQMOD \div 2
  BY PosIs, NodeFacts DEF At
<1> HIDE DEF a
<1>2. SeqAdd(x, m) = At(n, a + m) /\ a + m \in Nat /\ a + m < SEQMOD
  BY <1>1, SeqAddAdd, NodeFacts DEF At
<1> QED BY <1>2, PosAt DEF a

-----------------------------------------------------------------------------
(* A step of the socket.                                                    *)

\* A view as the connection can offer it.
ViewOK(n, e) ==
    /\ e.w \in 0 .. ToWrite[n] /\ e.v \in 0 .. ToWrite[Peer(n)] /\ e.k \in Nat
    /\ e.stage \in 0 .. 2 /\ e.fin \in BOOLEAN /\ e.flight \subseteq AnySegment
    /\ e.cuts \subseteq Nat /\ e.ends \subseteq 0 .. e.v
    /\ \A a \in e.acks : a \in Nat /\ a - 1 \in e.cuts
    /\ e.stage >= 1 => 0 \in e.ends

Sound(s) == \E b : Holds(s, b)

\* The invariant of node n's socket s in the view e.
Local(n, s, e) ==
    /\ ViewOK(n, e) /\ Sound(s)
    /\ Sending(n, s, e) /\ Tasks(n, s, e) /\ Receiving(n, s, e) /\ Finishing(n, s, e)
    /\ Covered(n, s, e) /\ Sent(n, s, e) /\ Uncut(n, s, e) /\ Handshake(n, s, e)

\* What the peer has come to rely on, a step of s to r leaves true.
Grows(e, n, s, r) ==
    /\ s.buf <= r.buf /\ Stage(e.c, s) <= Stage(e.c, r)
    /\ FinSent(n, e.c, s) => FinSent(n, e.c, r)
    /\ Acks(s, e.ends, e.v, e.fin) \subseteq Acks(r, e.ends, e.v, e.fin)
    /\ r.packetbuffer \in {s.packetbuffer, <<>>}

Moves(n, e, s, r) == Local(n, r, e) /\ Grows(e, n, s, r)

\* An acknowledgement, or another segment without data.
Empty(n, s, e, g) ==
    /\ g \in AnySegment /\ g.len = 0
    /\ SegOK(n, g, Stage(e.c, s), e.w, FinSent(n, e.c, s), Acks(s, e.ends, e.v, e.fin))

LEMMA SoundIs ==
  ASSUME NEW s, Sound(s)
  PROVE  /\ s \in AnySocket
         /\ s.state \in States /\ s.buf \in Nat /\ s.buflen \in Nat /\ s.read \in Seq(Nat) /\ Len(s.read) \in Nat
         /\ s.seqnum_unacked \in SeqNum /\ s.seqnum_next \in SeqNum /\ s.FIN_seqnum \in SeqNum
         /\ s.history \in Seq(AnyRecord) /\ s.out \subseteq AnySegment
         /\ s.receiveBuffer \in AnyBuffer /\ s.receiveBuffer.recv_bytes \in Nat
         /\ Got(s) \in Nat /\ s.packetbuffer \in Seq(AnySegment)
         /\ s.waiting \in BOOLEAN /\ s.receiving \in BOOLEAN /\ s.FIN_received \in BOOLEAN
<1>1. s \in AnySocket
  BY HoldsIs DEF Sound
<1>2. /\ s.state \in States /\ s.buf \in Nat /\ s.buflen \in Nat /\ s.read \in Seq(Nat)
      /\ s.seqnum_unacked \in SeqNum /\ s.seqnum_next \in SeqNum /\ s.FIN_seqnum \in SeqNum
      /\ s.history \in Seq(AnyRecord) /\ s.out \subseteq AnySegment
      /\ s.receiveBuffer \in AnyBuffer /\ s.packetbuffer \in Seq(AnySegment)
      /\ s.waiting \in BOOLEAN /\ s.receiving \in BOOLEAN /\ s.FIN_received \in BOOLEAN
  BY <1>1 DEF AnySocket
<1>3. s.receiveBuffer.recv_bytes \in Nat
  BY <1>2 DEF AnyBuffer
<1>4. Len(s.read) \in Nat
  BY <1>2
<1>5. Got(s) \in Nat
  BY <1>3, <1>4 DEF Got
<1> QED BY <1>1, <1>2, <1>3, <1>4, <1>5

LEMMA HoldsSound == \A s, b : Holds(s, b) => Sound(s)
BY DEF Sound

\* The segments of a socket are segments.
LEMMA SegsType ==
  ASSUME NEW s, Sound(s)
  PROVE  Segs(s) \subseteq AnySegment /\ Timed(s) \subseteq Segs(s)
<1>1. s.history \in Seq(AnyRecord) /\ s.out \subseteq AnySegment
  BY SoundIs
<1>2. \A i \in DOMAIN s.history : s.history[i] \in AnyRecord
  BY <1>1
<1>3. \A i \in DOMAIN s.history : s.history[i].seg \in AnySegment
  BY <1>2 DEF AnyRecord
<1> QED BY <1>1, <1>3 DEF Segs, Timed, TimedRecords

LEMMA StageIs ==
  ASSUME NEW c, NEW s
  PROVE  /\ Stage(c, s) \in {0, 1, 2} /\ Stage(c, s) \in Nat
         /\ Stage(c, s) = 2 <=> c # "new" /\ s.state \notin Opening
         /\ s.state \in Opened \cup Ending \cup {"CLOSED"} /\ c # "new" => Stage(c, s) = 2
BY DEF Stage, Opening, Opened, Ending

LEMMA MovesTrans ==
  ASSUME NEW n, NEW e, NEW s, NEW t, NEW r, Local(n, s, e), Moves(n, e, s, t), Moves(n, e, t, r)
  PROVE  Moves(n, e, s, r)
<1>1. s.buf \in Nat /\ t.buf \in Nat /\ r.buf \in Nat
  BY SoundIs DEF Local, Moves
<1>2. Stage(e.c, s) \in Nat /\ Stage(e.c, t) \in Nat /\ Stage(e.c, r) \in Nat
  BY StageIs
<1>3. Grows(e, n, s, t) /\ Grows(e, n, t, r) /\ Local(n, r, e)
  BY DEF Moves
<1>4. s.buf <= r.buf
  BY <1>1, <1>3 DEF Grows
<1>5. Stage(e.c, s) <= Stage(e.c, r)
  BY <1>2, <1>3 DEF Grows
<1>6. /\ FinSent(n, e.c, s) => FinSent(n, e.c, r)
      /\ Acks(s, e.ends, e.v, e.fin) \subseteq Acks(r, e.ends, e.v, e.fin)
      /\ r.packetbuffer \in {s.packetbuffer, <<>>}
  BY <1>3 DEF Grows
<1> QED BY <1>3, <1>4, <1>5, <1>6 DEF Moves, Grows

LEMMA GrowsSelf ==
  ASSUME NEW n, NEW e, NEW s, Local(n, s, e) PROVE Moves(n, e, s, s)
<1>1. s.buf \in Nat /\ Stage(e.c, s) \in Nat
  BY SoundIs, StageIs DEF Local
<1>2. s.buf <= s.buf /\ Stage(e.c, s) <= Stage(e.c, s)
  BY <1>1
<1> QED BY <1>2 DEF Moves, Grows

-----------------------------------------------------------------------------
(* Fields that a part of the invariant does not look at.                    *)

SameNumbers(s, r) ==
    r.state = s.state /\ r.buf = s.buf
      /\ r.seqnum_unacked = s.seqnum_unacked /\ r.seqnum_next = s.seqnum_next
SameStream(s, r) == r.state = s.state /\ r.read = s.read /\ r.receiveBuffer = s.receiveBuffer

LEMMA SameSending ==
  ASSUME NEW n, NEW e, NEW s, NEW r, SameNumbers(s, r), Sending(n, s, e) PROVE Sending(n, r, e)
BY DEF SameNumbers, Sending, Stage, FinSent, Una, Nxt
LEMMA SameTasks ==
  ASSUME NEW n, NEW e, NEW s, NEW r, SameNumbers(s, r), Tasks(n, s, e),
         r.buflen = s.buflen, r.waiting = s.waiting, r.receiving = s.receiving
  PROVE  Tasks(n, r, e)
BY DEF SameNumbers, Tasks, Una
LEMMA SameReceiving ==
  ASSUME NEW n, NEW e, NEW s, NEW r, SameStream(s, r), Receiving(n, s, e) PROVE Receiving(n, r, e)
BY DEF SameStream, Receiving, Unsynchronised, Got
LEMMA SameFinishing ==
  ASSUME NEW n, NEW e, NEW s, NEW r, SameStream(s, r), Finishing(n, s, e),
         r.FIN_received = s.FIN_received, r.FIN_seqnum = s.FIN_seqnum
  PROVE  Finishing(n, r, e)
BY DEF SameStream, Finishing, Got
LEMMA SameAcks ==
  ASSUME NEW e, NEW s, NEW r, SameStream(s, r)
  PROVE  Acks(r, e.ends, e.v, e.fin) = Acks(s, e.ends, e.v, e.fin)
BY DEF SameStream, Acks, Got
LEMMA SameFinSent ==
  ASSUME NEW n, NEW e, NEW s, NEW r, SameNumbers(s, r)
  PROVE  FinSent(n, e.c, r) = FinSent(n, e.c, s) /\ Stage(e.c, r) = Stage(e.c, s)
BY DEF SameNumbers, FinSent, Stage, Nxt
LEMMA SameSegs ==
  ASSUME NEW s, NEW r, r.history = s.history, r.out = s.out
  PROVE  Segs(r) = Segs(s) /\ Timed(r) = Timed(s)
BY DEF Segs, Timed, TimedRecords
LEMMA SameCovered ==
  ASSUME NEW n, NEW e, NEW s, NEW r, SameNumbers(s, r), Covered(n, s, e), Timed(r) = Timed(s)
  PROVE  Covered(n, r, e)
BY DEF SameNumbers, Covered, FinSent, Stage, Una, Nxt
LEMMA SameHandshake ==
  ASSUME NEW n, NEW e, NEW s, NEW r, Handshake(n, s, e), Stage(e.c, r) = Stage(e.c, s)
  PROVE  Handshake(n, r, e)
BY DEF Handshake
LEMMA SameUncut ==
  ASSUME NEW n, NEW e, NEW s, NEW r, SameNumbers(s, r), Uncut(n, s, e), Segs(r) \subseteq Segs(s)
  PROVE  Uncut(n, r, e)
BY DEF SameNumbers, Uncut, Nxt

\* The rest of the invariant does not change.
SameRest(s, r) ==
    /\ r.buflen = s.buflen /\ r.waiting = s.waiting /\ r.receiving = s.receiving
    /\ r.FIN_received = s.FIN_received /\ r.FIN_seqnum = s.FIN_seqnum
    /\ r.packetbuffer \in {s.packetbuffer, <<>>}

LEMMA SameGrows ==
  ASSUME NEW n, NEW e, NEW s, NEW r, Local(n, s, e), SameNumbers(s, r), SameStream(s, r),
         r.packetbuffer \in {s.packetbuffer, <<>>}
  PROVE  Grows(e, n, s, r)
<1>1. s.buf \in Nat /\ Stage(e.c, s) \in Nat
  BY SoundIs, StageIs DEF Local
<1>2. Stage(e.c, r) = Stage(e.c, s) /\ FinSent(n, e.c, r) = FinSent(n, e.c, s) /\ r.buf = s.buf
      /\ Acks(r, e.ends, e.v, e.fin) = Acks(s, e.ends, e.v, e.fin)
  BY SameFinSent, SameAcks DEF SameNumbers
<1>3. s.buf <= r.buf /\ Stage(e.c, s) <= Stage(e.c, r)
  BY <1>1, <1>2
<1> QED BY <1>2, <1>3 DEF Grows

\* New segments that carry no data.
LEMMA EmptySent ==
  ASSUME NEW n, NEW e, NEW s, NEW r, NEW G, Sent(n, s, e), Uncut(n, s, e),
         s.buf <= r.buf, s.buf \in Nat, r.buf \in Nat, Segs(s) \subseteq AnySegment, e.flight \subseteq AnySegment,
         \A g \in e.flight \cup Segs(s) :
            SegOK(n, g, Stage(e.c, r), e.w, FinSent(n, e.c, r), Acks(r, e.ends, e.v, e.fin)),
         Segs(r) \subseteq Segs(s) \cup G, \A g \in G : Empty(n, r, e, g),
         \A k \in e.cuts : k < Nxt(n, r)
  PROVE  Sent(n, r, e) /\ Uncut(n, r, e)
<1>1. \A g \in Segs(r) : g \in Segs(s) \/ Empty(n, r, e, g)
  OBVIOUS
<1>2. \A g : Empty(n, r, e, g) => g.len = 0 /\ \A k : ~Straddles(g, k)
  <2>1. \A g : Empty(n, r, e, g) => g.len = 0
    BY DEF Empty
  <2>2. ~(0 > 0)
    OBVIOUS
  <2> QED BY <2>1, <2>2 DEF Straddles
<1>3. ASSUME NEW g \in e.flight \cup Segs(r)
      PROVE  /\ SegOK(n, g, Stage(e.c, r), e.w, FinSent(n, e.c, r), Acks(r, e.ends, e.v, e.fin))
             /\ g.len > 0 => End(g) <= r.buf
             /\ g.len > 0 => \A h \in e.flight \cup Segs(r) : ~Straddles(h, End(g))
  <2>1. CASE g \in e.flight \cup Segs(s)
    <3>1. /\ g.len > 0 => End(g) <= s.buf
          /\ g.len > 0 => \A h \in e.flight \cup Segs(s) : ~Straddles(h, End(g))
      BY <2>1 DEF Sent
    <3>2. g.len \in Nat /\ g.data \in Nat /\ End(g) \in Int
      BY <2>1 DEF AnySegment, End
    <3>3. g.len > 0 => End(g) <= r.buf
      BY <3>1, <3>2
    <3>4. g.len > 0 => \A h \in e.flight \cup Segs(r) : ~Straddles(h, End(g))
      BY <1>1, <1>2, <3>1
    <3> QED BY <2>1, <3>3, <3>4
  <2>2. CASE Empty(n, r, e, g)
    <3>1. ~(g.len > 0)
      BY <1>2, <2>2
    <3> QED BY <2>2, <3>1 DEF Empty
  <2> QED BY <1>1, <2>1, <2>2
<1>4. Sent(n, r, e)
  BY <1>3 DEF Sent
<1>5. Uncut(n, r, e)
  BY <1>1, <1>2 DEF Uncut
<1> QED BY <1>4, <1>5

-----------------------------------------------------------------------------
(* Segments that leave the history, or come to it, without data.           *)

LEMMA NumbersIs ==
  ASSUME NEW n \in Node, NEW e, NEW s, Local(n, s, e), e.c # "new"
  PROVE  /\ Una(n, s) \in Nat /\ Nxt(n, s) \in Nat /\ s.buf \in Nat
         /\ Una(n, s) <= Nxt(n, s) /\ Nxt(n, s) <= s.buf + 2 /\ s.buf <= e.w
         /\ e.w \in Nat /\ e.w + 2 < SEQMOD \div 2 /\ Una(n, s) < SEQMOD \div 2 /\ Nxt(n, s) < SEQMOD \div 2
         /\ Una(n, s) > 0 => Una(n, s) - 1 \in e.cuts /\ Una(n, s) \in e.acks
         /\ s.seqnum_unacked \in SeqNum /\ s.seqnum_next \in SeqNum
<1>1. s.seqnum_unacked \in SeqNum /\ s.seqnum_next \in SeqNum /\ s.buf \in Nat
  BY SoundIs DEF Local
<1>2. Una(n, s) \in Nat /\ Nxt(n, s) \in Nat
  BY <1>1, PosIs DEF Una, Nxt
<1>3. ToWrite[n] \in Nat /\ ToWrite[n] + 2 < SEQMOD \div 2 /\ SEQMOD \div 2 \in Nat
  BY NodeFacts
<1>4. e.w \in 0 .. ToWrite[n] /\ \A a \in e.acks : a - 1 \in e.cuts
  BY DEF Local, ViewOK
<1>5. /\ Una(n, s) <= Nxt(n, s) /\ (Una(n, s) = 0 \/ Una(n, s) \in e.acks)
      /\ s.buf <= e.w
      /\ s.state = "LISTEN" => Nxt(n, s) = 0
      /\ Stage(e.c, s) = 1 => Nxt(n, s) = 1
      /\ Stage(e.c, s) = 2 => Nxt(n, s) \in {s.buf + 1, s.buf + 2}
  BY DEF Local, Sending
<1>6. s.state = "LISTEN" \/ Stage(e.c, s) = 1 \/ Stage(e.c, s) = 2
  BY DEF Stage
<1>7. Nxt(n, s) <= s.buf + 2
  BY <1>1, <1>5, <1>6
<1>8. e.w \in Nat /\ e.w + 2 < SEQMOD \div 2
  BY <1>3, <1>4
<1>9. Nxt(n, s) < SEQMOD \div 2 /\ Una(n, s) < SEQMOD \div 2
  BY <1>1, <1>2, <1>3, <1>5, <1>7, <1>8
<1> QED BY <1>1, <1>2, <1>4, <1>5, <1>7, <1>8, <1>9

\* The number of a segment that is acknowledged is that of all its bytes: no
\* acknowledgement comes from the middle of a segment.
LEMMA ObsoleteIs ==
  ASSUME NEW n \in Node, NEW e, NEW s, Local(n, s, e), e.c # "new", Stage(e.c, s) = 2,
         NEW g \in Segs(s), SEQ_LT(g.seq, s.seqnum_unacked)
  PROVE  /\ g.len > 0 => End(g) < Una(n, s)
         /\ has(g, "FIN") => Una(n, s) = Nxt(n, s)
<1> DEFINE u == Una(n, s)
           x == Nxt(n, s)
<1>1. /\ u \in Nat /\ x \in Nat /\ u <= x /\ x <= s.buf + 2 /\ s.buf <= e.w /\ s.buf \in Nat
      /\ e.w \in Nat /\ e.w + 2 < SEQMOD \div 2 /\ u < SEQMOD \div 2
      /\ u > 0 => u - 1 \in e.cuts
      /\ s.seqnum_unacked \in SeqNum /\ u = Pos(n, s.seqnum_unacked)
  BY NumbersIs DEF Una
<1>2. /\ SegOK(n, g, Stage(e.c, s), e.w, FinSent(n, e.c, s), Acks(s, e.ends, e.v, e.fin))
      /\ g.len > 0 => End(g) <= s.buf
  BY DEF Local, Sent
<1>3. g \in AnySegment
  BY SegsType DEF Local
<1>4. g.len \in Nat /\ g.data \in Nat /\ g.seq \in SeqNum
  BY <1>3 DEF AnySegment
<1>5. SEQMOD \div 2 \in Nat /\ SEQMOD \div 2 <= SEQMOD /\ SEQMOD \in Nat
  BY NodeFacts
<1>6. u > 0 => ~Straddles(g, u - 1)
  BY <1>1 DEF Local, Uncut
<1> HIDE DEF u, x
<1>7. ASSUME NEW k \in Nat, k < SEQMOD \div 2, g.seq = At(n, k) PROVE k < u
  <2>1. Pos(n, g.seq) = k
    <3>1. k < SEQMOD
      BY <1>5, <1>7
    <3> QED BY <1>7, <3>1, PosAt
  <2> QED BY <1>1, <1>4, <1>7, <2>1, PosCompare
<1>8. ASSUME g.len > 0 PROVE End(g) < u
  <2>1. g.seq = At(n, 1 + g.data)
    BY <1>2, <1>4, <1>8 DEF SegOK
  <2>2. End(g) = g.data + g.len /\ End(g) <= s.buf
    BY <1>2, <1>8 DEF End
  <2>3. 1 + g.data \in Nat /\ 1 + g.data < SEQMOD \div 2
    BY <1>1, <1>4, <1>5, <2>2, <1>8
  <2>4. 1 + g.data < u
    BY <1>7, <2>1, <2>3
  <2>5. ~(g.data < u - 1 /\ u - 1 < End(g))
    BY <1>1, <1>4, <1>6, <1>8, <2>4 DEF Straddles
  <2> QED BY <1>1, <1>4, <2>2, <2>4, <2>5
<1>9. ASSUME has(g, "FIN") PROVE u = x
  <2>1. g.seq = At(n, 1 + e.w)
    BY <1>2, <1>9 DEF SegOK, has
  <2>2. 1 + e.w < u
    BY <1>1, <1>5, <1>7, <2>1
  <2> QED BY <1>1, <2>2
<1> QED BY <1>8, <1>9 DEF u, x

Sends(s, r, G) ==
    /\ Frame(s, r)
    /\ Segs(r) \subseteq Segs(s) \cup G
    /\ \A g \in Timed(s) : g \in Timed(r) \/ SEQ_LT(g.seq, s.seqnum_unacked)

\* Acknowledged segments may leave the history.
LEMMA StillCovered ==
  ASSUME NEW n \in Node, NEW e, NEW s, NEW r, Local(n, s, e), SameNumbers(s, r),
         \A g \in Timed(s) : g \in Timed(r) \/ SEQ_LT(g.seq, s.seqnum_unacked)
  PROVE  Covered(n, r, e)
<1> SUFFICES ASSUME s.state \in Opened \/ (~RetransmissionCounter /\ s.state \in Ending)
             PROVE  /\ \A k \in 0 .. s.buf - 1 :
                         k + 1 < Una(n, s) \/ \E g \in Timed(r) : g.data <= k /\ k < End(g)
                    /\ FinSent(n, e.c, s) =>
                         Una(n, s) = Nxt(n, s) \/ \E g \in Timed(r) : has(g, "FIN")
                    /\ s.state \in {"FINWAIT2", "TIMEWAIT"} => Una(n, s) = Nxt(n, s)
  BY SameFinSent DEF Covered, SameNumbers, Una, Nxt
<1>1. /\ \A k \in 0 .. s.buf - 1 :
           k + 1 < Una(n, s) \/ \E g \in Timed(s) : g.data <= k /\ k < End(g)
      /\ FinSent(n, e.c, s) => Una(n, s) = Nxt(n, s) \/ \E g \in Timed(s) : has(g, "FIN")
      /\ s.state \in {"FINWAIT2", "TIMEWAIT"} => Una(n, s) = Nxt(n, s)
  BY DEF Local, Covered
<1>2. e.c # "new" /\ Stage(e.c, s) = 2
  <2>1. e.c # "new"
    BY DEF Local, Tasks, Opened, Ending
  <2> QED BY <2>1, StageIs
<1>3. \A g \in Timed(s) : g \in Segs(s) /\ g \in AnySegment
  BY SegsType DEF Local
<1>4. Una(n, s) \in Nat /\ s.buf \in Nat
  BY <1>2, NumbersIs
<1>5. ASSUME NEW k \in 0 .. s.buf - 1, NEW g \in Timed(s), g.data <= k, k < End(g), g \notin Timed(r)
      PROVE  k + 1 < Una(n, s)
  <2>1. g.len \in Nat /\ g.data \in Nat /\ End(g) = g.data + g.len
    BY <1>3 DEF AnySegment, End
  <2>2. g.len > 0
    BY <1>4, <1>5, <2>1
  <2>3. End(g) < Una(n, s)
    BY <1>2, <1>3, <1>5, <2>2, ObsoleteIs
  <2> QED BY <1>4, <1>5, <2>1, <2>3
<1>6. ASSUME NEW g \in Timed(s), has(g, "FIN"), g \notin Timed(r)
      PROVE  Una(n, s) = Nxt(n, s)
  BY <1>2, <1>3, <1>6, ObsoleteIs
<1> QED BY <1>1, <1>5, <1>6

LEMMA SendsMoves ==
  ASSUME NEW n \in Node, NEW e, NEW s, NEW r, NEW G, Local(n, s, e),
         Sends(s, r, G), Sound(r), \A g \in G : Empty(n, s, e, g)
  PROVE  Moves(n, e, s, r)
<1>1. s \in AnySocket /\ s.buf \in Nat /\ ViewOK(n, e) /\ Sound(s)
  BY SoundIs DEF Local
<1>2. /\ SameNumbers(s, r) /\ SameStream(s, r) /\ SameRest(s, r)
  BY <1>1 DEF Sends, Frame, AnySocket, SameNumbers, SameStream, SameRest
<1>3. Covered(n, r, e)
  BY <1>2, StillCovered DEF Sends
<1>4. Stage(e.c, r) = Stage(e.c, s) /\ FinSent(n, e.c, r) = FinSent(n, e.c, s) /\ r.buf = s.buf
      /\ Acks(r, e.ends, e.v, e.fin) = Acks(s, e.ends, e.v, e.fin) /\ Nxt(n, r) = Nxt(n, s)
  BY <1>2, SameFinSent, SameAcks DEF SameNumbers, Nxt
<1>5. Sent(n, r, e) /\ Uncut(n, r, e)
  <2>1. Sent(n, s, e) /\ Uncut(n, s, e)
    BY DEF Local
  <2>2. s.buf <= r.buf /\ Segs(s) \subseteq AnySegment /\ e.flight \subseteq AnySegment
    BY <1>1, <1>4, SegsType DEF ViewOK
  <2>3. \A g \in e.flight \cup Segs(s) :
            SegOK(n, g, Stage(e.c, r), e.w, FinSent(n, e.c, r), Acks(r, e.ends, e.v, e.fin))
    BY <1>4, <2>1 DEF Sent
  <2>4. Segs(r) \subseteq Segs(s) \cup G /\ \A g \in G : Empty(n, r, e, g)
    BY <1>4 DEF Sends, Empty
  <2>5. \A k \in e.cuts : k < Nxt(n, r)
    BY <1>4, <2>1 DEF Uncut
  <2> QED BY <1>1, <1>4, <2>1, <2>2, <2>3, <2>4, <2>5, EmptySent
<1>6. /\ Sending(n, s, e) /\ Tasks(n, s, e) /\ Receiving(n, s, e) /\ Finishing(n, s, e)
      /\ Handshake(n, s, e)
  BY DEF Local
<1>7. Sending(n, r, e) /\ Receiving(n, r, e)
  BY <1>2, <1>6, SameSending, SameReceiving
<1>8. Tasks(n, r, e)
  BY <1>2, <1>6, SameTasks DEF SameRest
<1>9. Finishing(n, r, e) /\ Handshake(n, r, e)
  BY <1>2, <1>4, <1>6, SameFinishing, SameHandshake DEF SameRest
<1>10. Grows(e, n, s, r)
  BY <1>2, SameGrows DEF SameRest
<1> QED BY <1>1, <1>3, <1>5, <1>7, <1>8, <1>9, <1>10 DEF Moves, Local

\* Fields that the invariant does not look at at all.
LEMMA AlikeMoves ==
  ASSUME NEW n, NEW e, NEW s, NEW r, Local(n, s, e), Sound(r),
         SameNumbers(s, r), SameStream(s, r), SameRest(s, r), r.history = s.history, r.out = s.out
  PROVE  Moves(n, e, s, r)
<1>1. /\ Sending(n, s, e) /\ Tasks(n, s, e) /\ Receiving(n, s, e) /\ Finishing(n, s, e)
      /\ Handshake(n, s, e) /\ ViewOK(n, e) /\ Covered(n, s, e) /\ Sent(n, s, e) /\ Uncut(n, s, e)
  BY DEF Local
<1>2. Segs(r) = Segs(s) /\ Timed(r) = Timed(s) /\ r.buf = s.buf
  BY SameSegs DEF SameNumbers
<1>3. Stage(e.c, r) = Stage(e.c, s) /\ FinSent(n, e.c, r) = FinSent(n, e.c, s)
      /\ Acks(r, e.ends, e.v, e.fin) = Acks(s, e.ends, e.v, e.fin)
  BY SameFinSent, SameAcks
<1>4. Sent(n, r, e)
  BY <1>1, <1>2, <1>3 DEF Sent
<1>5. Sending(n, r, e) /\ Receiving(n, r, e) /\ Covered(n, r, e) /\ Uncut(n, r, e) /\ Handshake(n, r, e)
  BY <1>1, <1>2, <1>3, SameSending, SameReceiving, SameCovered, SameUncut, SameHandshake
<1>6. Tasks(n, r, e) /\ Finishing(n, r, e)
  BY <1>1, SameTasks, SameFinishing DEF SameRest
<1>7. Grows(e, n, s, r)
  BY SameGrows DEF SameRest
<1> QED BY <1>1, <1>4, <1>5, <1>6, <1>7 DEF Moves, Local

-----------------------------------------------------------------------------
(* The history is updated, or the socket is reset.                          *)

Resets(s, r) ==
    /\ r = [s EXCEPT !.history = <<>>, !.packetbuffer = <<>>, !.state = "CLOSED",
                     !.receiving = FALSE, !.waiting = FALSE, !.FIN_received = FALSE,
                     !.ACK_triggered = FALSE, !.buflen = 0,
                     !.mempool = r.mempool, !.out = r.out]
    /\ r.out \subseteq Segs(s)

LEMMA AbortIs ==
  ASSUME NEW s \in AnySocket
  PROVE  Resets(s, abort(s))
<1> DEFINE m == (s.mempool + Len(s.history)) + Len(s.packetbuffer)
           r == [s EXCEPT !.history = <<>>, !.packetbuffer = <<>>, !.state = "CLOSED",
                     !.receiving = FALSE, !.waiting = FALSE, !.FIN_received = FALSE,
                     !.ACK_triggered = FALSE, !.buflen = 0, !.mempool = m]
<1>1. abort(s) = r
  BY DEF abort, clearHistory, resetSocketState, AnySocket
<1> HIDE DEF m
<1>2. r.mempool = m /\ r.out = s.out
  BY DEF AnySocket
<1>3. r = [s EXCEPT !.history = <<>>, !.packetbuffer = <<>>, !.state = "CLOSED",
                     !.receiving = FALSE, !.waiting = FALSE, !.FIN_received = FALSE,
                     !.ACK_triggered = FALSE, !.buflen = 0,
                     !.mempool = r.mempool, !.out = r.out]
  BY <1>2, ZenonT(30) DEF AnySocket
<1>4. s.out \subseteq Segs(s)
  BY DEF Segs
<1> HIDE DEF r
<1> QED BY <1>1, <1>2, <1>3, <1>4 DEF Resets

LEMMA ResetsIs ==
  ASSUME NEW s \in AnySocket, NEW r, Resets(s, r)
  PROVE  /\ r.state = "CLOSED" /\ ~r.waiting /\ ~r.receiving /\ ~r.FIN_received /\ r.buflen = 0
         /\ r.buf = s.buf /\ r.read = s.read /\ r.receiveBuffer = s.receiveBuffer
         /\ r.seqnum_next = s.seqnum_next /\ r.seqnum_unacked = s.seqnum_unacked
         /\ r.FIN_seqnum = s.FIN_seqnum /\ r.packetbuffer = <<>> /\ r.history = <<>>
         /\ Segs(r) \subseteq Segs(s)
<1>1. /\ r.state = "CLOSED" /\ ~r.waiting /\ ~r.receiving /\ ~r.FIN_received /\ r.buflen = 0
      /\ r.buf = s.buf /\ r.read = s.read /\ r.receiveBuffer = s.receiveBuffer
      /\ r.seqnum_next = s.seqnum_next /\ r.seqnum_unacked = s.seqnum_unacked
      /\ r.FIN_seqnum = s.FIN_seqnum /\ r.packetbuffer = <<>> /\ r.history = <<>>
  <2>1. r.state = "CLOSED" /\ ~r.waiting /\ ~r.receiving /\ ~r.FIN_received /\ r.buflen = 0
    BY ZenonT(30) DEF Resets, AnySocket
  <2>2. r.buf = s.buf /\ r.read = s.read /\ r.receiveBuffer = s.receiveBuffer
    BY ZenonT(30) DEF Resets, AnySocket
  <2>3. /\ r.seqnum_next = s.seqnum_next /\ r.seqnum_unacked = s.seqnum_unacked
        /\ r.FIN_seqnum = s.FIN_seqnum
    BY ZenonT(30) DEF Resets, AnySocket
  <2>4. r.packetbuffer = <<>> /\ r.history = <<>>
    BY ZenonT(30) DEF Resets, AnySocket
  <2> QED BY <2>1, <2>2, <2>3, <2>4
<1>2. Segs(r) \subseteq Segs(s)
  <2>1. DOMAIN r.history = {} /\ r.out \subseteq Segs(s)
    BY <1>1 DEF Resets
  <2>2. {r.history[i].seg : i \in DOMAIN r.history} = {}
    BY <2>1
  <2> QED BY <2>1, <2>2 DEF Segs
<1> QED BY <1>1, <1>2

\* A segment that was right stays right.
LEMMA SegOKLater ==
  ASSUME NEW n, NEW g, NEW stage \in 0 .. 2, NEW w, NEW fin, NEW acks, SegOK(n, g, stage, w, fin, acks),
         NEW stage1 \in 0 .. 2, NEW fin1, NEW acks1,
         stage <= stage1, fin => fin1, acks \subseteq acks1
  PROVE  SegOK(n, g, stage1, w, fin1, acks1)
<1>1. (stage >= 1 => stage1 >= 1) /\ (stage = 2 => stage1 = 2)
  OBVIOUS
<1> QED BY <1>1 DEF SegOK

LEMMA AckRange ==
  ASSUME NEW s, NEW r, NEW ends, NEW v, NEW fin, SameStream(s, r) \/
         (r.read = s.read /\ r.receiveBuffer = s.receiveBuffer
            /\ r.state \in {s.state} \cup AtEnd \cup {"CLOSED"})
  PROVE  Acks(s, ends, v, fin) \subseteq Acks(r, ends, v, fin)
BY DEF SameStream, Acks, Got, AtEnd

LEMMA ResetMoves ==
  ASSUME NEW n \in Node, NEW e, NEW s, NEW r, Local(n, s, e), Sound(r), Resets(s, r),
         s.state \notin Opening, e.c \notin {"poll", "listen", "new"}
  PROVE  Moves(n, e, s, r)
<1>1. s \in AnySocket /\ s.buf \in Nat /\ ViewOK(n, e) /\ Sound(s) /\ s.seqnum_unacked \in SeqNum
  BY SoundIs DEF Local
<1>2. /\ r.state = "CLOSED" /\ ~r.waiting /\ ~r.receiving /\ ~r.FIN_received /\ r.buflen = 0
      /\ r.buf = s.buf /\ r.read = s.read /\ r.receiveBuffer = s.receiveBuffer
      /\ r.seqnum_next = s.seqnum_next /\ r.seqnum_unacked = s.seqnum_unacked
      /\ r.FIN_seqnum = s.FIN_seqnum /\ r.packetbuffer = <<>> /\ r.history = <<>>
      /\ Segs(r) \subseteq Segs(s)
  BY <1>1, ResetsIs
<1>3. Stage(e.c, s) = 2 /\ Stage(e.c, r) = 2
  BY <1>2, StageIs DEF Opening
<1>4. Una(n, r) = Una(n, s) /\ Nxt(n, r) = Nxt(n, s) /\ FinSent(n, e.c, r) = FinSent(n, e.c, s)
  BY <1>2, <1>3 DEF Una, Nxt, FinSent
<1>5. Acks(s, e.ends, e.v, e.fin) \subseteq Acks(r, e.ends, e.v, e.fin)
  BY <1>2, AckRange
<1>6. Sending(n, r, e)
  <2>1. Sending(n, s, e)
    BY DEF Local
  <2>2. r.state \notin Opened \cup Ending /\ r.state # "LISTEN" /\ ~(2 < 2) /\ 2 # 1
    BY <1>2 DEF Opened, Ending
  <2> QED BY <1>2, <1>3, <1>4, <2>1, <2>2 DEF Sending
<1>7. Tasks(n, r, e)
  BY <1>2 DEF Tasks, Opened, Opening
<1>8. Receiving(n, r, e)
  <2>1. Receiving(n, s, e)
    BY DEF Local
  <2>2. ~Unsynchronised(e.c, s) /\ ~Unsynchronised(e.c, r)
    BY <1>2 DEF Unsynchronised, Opening
  <2> QED BY <1>2, <2>1, <2>2 DEF Receiving, Got
<1>9. Finishing(n, r, e)
  BY <1>2 DEF Finishing, AtEnd
<1>10. Covered(n, r, e)
  BY <1>2 DEF Covered, Opened, Ending
<1>11. Sent(n, r, e) /\ Uncut(n, r, e)
  <2>1. Sent(n, s, e) /\ Uncut(n, s, e)
    BY DEF Local
  <2>2. \A g : SegOK(n, g, Stage(e.c, s), e.w, FinSent(n, e.c, s), Acks(s, e.ends, e.v, e.fin))
                  => SegOK(n, g, Stage(e.c, r), e.w, FinSent(n, e.c, r), Acks(r, e.ends, e.v, e.fin))
    BY <1>3, <1>4, <1>5, SegOKLater
  <2>3. Sent(n, r, e)
    BY <1>2, <2>1, <2>2 DEF Sent
  <2>4. Uncut(n, r, e)
    BY <1>2, <1>4, <2>1 DEF Uncut
  <2> QED BY <2>3, <2>4
<1>12. Handshake(n, r, e)
  BY <1>3, SameHandshake DEF Local
<1>13. Grows(e, n, s, r)
  <2>1. s.buf <= r.buf /\ Stage(e.c, s) <= Stage(e.c, r)
    BY <1>1, <1>2, <1>3
  <2> QED BY <1>2, <1>4, <1>5, <2>1 DEF Grows
<1> QED BY <1>1, <1>6, <1>7, <1>8, <1>9, <1>10, <1>11, <1>12, <1>13 DEF Moves, Local

LEMMA UpdateHistorySends ==
  ASSUME NEW s, Sound(s), NEW b, NEW env
  PROVE  LET r == updateHistory(s, b, env)
         IN  /\ Sound(r)
             /\ \/ Sends(s, r, {})
                \/ (RetransmissionCounter /\ Resets(s, r) /\ (b \/ s.state = "CLOSED"))
<1> DEFINE q == s.history
           again == {i \in DOMAIN q : /\ b /\ i \in env.timedOut
                                     /\ q[i].timed /\ ~Obsolete(s, q[i], env)}
           records == [i \in DOMAIN q |-> IF i \in again THEN retransmit(q[i]) ELSE q[i]]
           kept == Remaining(s, records, env)
           killed == \E i \in again : Exhausted(q[i])
           m == s.mempool + Len(q) - Len(kept)
           o == s.out \cup {q[i].seg : i \in {j \in again : ~Exhausted(q[j])}}
           st == IF killed THEN "CLOSED" ELSE s.state
           u == [s EXCEPT !.history = kept, !.mempool = m, !.out = o, !.state = st]
           r == updateHistory(s, b, env)
<1>1. r = IF RetransmissionCounter /\ u.state = "CLOSED" THEN abort(u) ELSE u
  BY DEF updateHistory
<1>2. s \in AnySocket /\ q \in Seq(AnyRecord) /\ Len(q) \in Nat /\ DOMAIN q = 1 .. Len(q)
  BY SoundIs
<1>3. \A i \in DOMAIN q : /\ q[i] \in AnyRecord /\ retransmit(q[i]) \in AnyRecord
                          /\ retransmit(q[i]).seg = q[i].seg /\ retransmit(q[i]).timed = q[i].timed
  <2>1. \A i \in DOMAIN q : q[i] \in AnyRecord
    BY <1>2
  <2>2. \A x \in AnyRecord : retransmit(x) \in AnyRecord /\ retransmit(x).seg = x.seg
                             /\ retransmit(x).timed = x.timed
    BY DEF AnyRecord, retransmit
  <2> QED BY <2>1, <2>2
<1>4. again \subseteq DOMAIN q /\ (again # {} => b)
  OBVIOUS
<1>14. ~RetransmissionCounter => st = s.state
  BY DEF Exhausted
<1>15. st # s.state => st = "CLOSED" /\ b
  OBVIOUS
<1>h. \E n : Holds(r, n)
  BY UpdateHistoryHolds DEF Sound
<1>s. Sound(r)
  BY <1>h DEF Sound
<1> HIDE DEF again, r, killed, st
<1>5. records \in Seq(AnyRecord) /\ Len(records) = Len(q) /\ DOMAIN records = DOMAIN q
      /\ \A i \in DOMAIN q : records[i].seg = q[i].seg /\ records[i].timed = q[i].timed
  <2> DEFINE k == Len(q)
             v(i) == IF i \in again THEN retransmit(q[i]) ELSE q[i]
  <2>1. \A i \in 1 .. k : v(i) \in AnyRecord /\ v(i).seg = q[i].seg /\ v(i).timed = q[i].timed
    BY <1>2, <1>3
  <2>2. records = [i \in 1 .. k |-> v(i)] /\ k \in Nat
    BY <1>2
  <2> HIDE DEF v, k, records
  <2>3. records \in [1 .. k -> AnyRecord]
    BY <2>1, <2>2
  <2>4. records \in Seq(AnyRecord) /\ Len(records) = k
    BY <2>2, <2>3
  <2>5. DOMAIN records = 1 .. k /\ \A i \in 1 .. k : records[i] = v(i)
    BY <2>2
  <2> QED BY <1>2, <2>1, <2>4, <2>5 DEF k
<1> HIDE DEF records
<1>6. /\ kept \in Seq(AnyRecord) /\ Len(kept) \in Nat /\ DOMAIN kept = 1 .. Len(kept)
      /\ \A i \in 1 .. Len(kept) : \E j \in 1 .. Len(records) : kept[i] = records[j]
      /\ \A j \in 1 .. Len(records) :
            Obsolete(s, records[j], env) \/ \E i \in 1 .. Len(kept) : kept[i] = records[j]
  <2>1. kept \in Seq(AnyRecord)
      /\ (\A i \in 1 .. Len(kept) : \E j \in 1 .. Len(records) : kept[i] = records[j])
      /\ \A j \in 1 .. Len(records) :
            Obsolete(s, records[j], env) \/ \E i \in 1 .. Len(kept) : kept[i] = records[j]
    <3>1. records \in Seq(AnyRecord)
      BY <1>5
    <3> HIDE DEF q, m, o, u
    <3> QED BY <3>1, RemainingRecords, SMTT(30)
  <2> QED BY <2>1
<1> HIDE DEF kept
<1>7. ASSUME NEW i \in DOMAIN kept
      PROVE  \E j \in DOMAIN q : kept[i].seg = q[j].seg /\ kept[i].timed = q[j].timed
  <2> HIDE DEF q
  <2>1. PICK j \in 1 .. Len(records) : kept[i] = records[j]
    BY <1>6, <1>7
  <2>2. j \in DOMAIN q
    BY <1>2, <1>5, <2>1
  <2> QED BY <1>5, <2>1, <2>2
<1>8. ASSUME NEW j \in DOMAIN q, q[j].timed
      PROVE  \/ SEQ_LT(q[j].seg.seq, s.seqnum_unacked)
             \/ \E i \in DOMAIN kept : kept[i].seg = q[j].seg /\ kept[i].timed
  <2> HIDE DEF q
  <2>1. j \in 1 .. Len(records)
    BY <1>2, <1>5
  <2>2. Obsolete(s, records[j], env) \/ \E i \in 1 .. Len(kept) : kept[i] = records[j]
    BY <1>6, <2>1
  <2>3. records[j].timed /\ records[j].seg = q[j].seg
    BY <1>5, <1>8
  <2>4. CASE Obsolete(s, records[j], env)
    BY <2>3, <2>4 DEF Obsolete
  <2>5. CASE \E i \in 1 .. Len(kept) : kept[i] = records[j]
    <3>1. PICK i \in 1 .. Len(kept) : kept[i] = records[j]
      BY <2>5
    <3>2. i \in DOMAIN kept /\ kept[i].seg = q[j].seg /\ kept[i].timed
      BY <1>6, <2>3, <3>1
    <3> QED BY <3>2
  <2> QED BY <2>2, <2>4, <2>5
<1>9. o \subseteq Segs(s)
  BY <1>4 DEF Segs
<1>10. /\ u.history = kept /\ u.out = o /\ u.state = st /\ u.mempool = m
  BY <1>2 DEF AnySocket
<1>11. st = s.state => Frame(s, u)
  <2> HIDE DEF m, o
  <2> QED BY <1>2, <1>10 DEF Frame, AnySocket
<1> DEFINE A == Segs(s)
<1>12. Segs(u) \subseteq A
  <2>1. {kept[i].seg : i \in DOMAIN kept} \subseteq A
    BY <1>7 DEF Segs
  <2> HIDE DEF A, u, o
  <2> QED BY <1>9, <1>10, <2>1 DEF Segs, A
<1>13. ASSUME NEW g \in Timed(s)
       PROVE  g \in Timed(u) \/ SEQ_LT(g.seq, s.seqnum_unacked)
  <2>1. PICK j \in DOMAIN q : g = q[j].seg /\ q[j].timed
    BY DEF Timed, TimedRecords
  <2>2. CASE SEQ_LT(q[j].seg.seq, s.seqnum_unacked)
    BY <2>1, <2>2
  <2>3. CASE \E i \in DOMAIN kept : kept[i].seg = q[j].seg /\ kept[i].timed
    <3> HIDE DEF u
    <3> QED BY <1>10, <2>1, <2>3 DEF Timed, TimedRecords
  <2> QED BY <1>8, <2>1, <2>2, <2>3
<1> HIDE DEF o
<1>16. CASE RetransmissionCounter /\ u.state = "CLOSED"
  <2>1. r = abort(u)
    BY <1>1, <1>16
  <2>2. u \in AnySocket
    <3>1. s.mempool \in Nat /\ Len(q) \in Nat
      BY <1>2 DEF AnySocket
    <3>2. Len(kept) <= Len(q)
      <4>1. Len(kept) <= Len(records)
        BY <1>5, RemainingRecords DEF kept
      <4> QED BY <1>5, <4>1
    <3>3. m \in Nat
      <4> HIDE DEF q
      <4> QED BY <1>6, <3>1, <3>2
    <3>4. o \in SUBSET AnySegment
      BY <1>9, SegsType
    <3>5. st \in States
      BY <1>2, <1>15 DEF AnySocket, States
    <3> HIDE DEF m, q
    <3> QED BY <1>2, <1>6, <3>3, <3>4, <3>5 DEF AnySocket
  <2>3. Resets(u, r)
    BY <2>1, <2>2, AbortIs
  <2>4. Resets(s, r)
    <3>1. r.out \subseteq Segs(s)
      BY <1>12, <2>3 DEF Resets
    <3> HIDE DEF m
    <3> QED BY <1>2, <2>3, <3>1, ZenonT(30) DEF Resets, AnySocket
  <2>5. b \/ s.state = "CLOSED"
    BY <1>10, <1>15, <1>16
  <2> QED BY <1>s, <1>16, <2>4, <2>5 DEF r
<1>17. CASE ~(RetransmissionCounter /\ u.state = "CLOSED")
  <2>1. r = u /\ st = s.state
    BY <1>1, <1>10, <1>14, <1>15, <1>17
  <2> HIDE DEF u
  <2>2. Sends(s, r, {})
    BY <1>11, <1>12, <1>13, <2>1 DEF Sends
  <2> QED BY <1>s, <2>2 DEF r
<1> QED BY <1>16, <1>17

LEMMA ReclaimSends ==
  ASSUME NEW s, Sound(s), s.state # "CLOSED", NEW env
  PROVE  Sound(Reclaim(s, env)) /\ Sends(s, Reclaim(s, env), {})
<1> DEFINE u == updateHistory(s, FALSE, env)
<1>1. Sound(u) /\ Sends(s, u, {})
  BY UpdateHistorySends
<1>2. Sends(s, s, {})
  <2>1. s \in AnySocket
    BY SoundIs
  <2>2. Frame(s, s)
    BY <2>1 DEF Frame, AnySocket
  <2> QED BY <2>2 DEF Sends
<1> HIDE DEF u
<1>3. Reclaim(s, env) = u \/ Reclaim(s, env) = s
  BY DEF Reclaim, u
<1> QED BY <1>1, <1>2, <1>3

LEMMA FrameTrans ==
  ASSUME NEW s \in AnySocket, NEW t, NEW r, Frame(s, t), Frame(t, r) PROVE Frame(s, r)
BY DEF Frame, AnySocket

LEMMA SendsTrans ==
  ASSUME NEW s, Sound(s), NEW t, NEW r, NEW G, NEW H, Sends(s, t, G), Sends(t, r, H)
  PROVE  Sends(s, r, G \cup H)
<1>1. s \in AnySocket
  BY SoundIs
<1>2. Frame(s, r) /\ t.seqnum_unacked = s.seqnum_unacked
  BY <1>1, FrameTrans, FrameIs DEF Sends
<1> QED BY <1>2 DEF Sends

LEMMA TransmitSends ==
  ASSUME NEW s, Sound(s), s.state # "CLOSED", NEW env, requestSendBufferTCP(s, env),
         NEW seg \in AnySegment, NEW timed \in BOOLEAN
  PROVE  LET r == Transmit(s, env, seg, timed)
         IN  /\ Sound(r) /\ Sends(s, r, {seg}) /\ seg \in Segs(r)
             /\ timed => seg \in Timed(r)
<1> DEFINE t == Reclaim(s, env)
           rec == Record(seg, timed)
           h == <<rec>> \o t.history
           m == t.mempool - 1
           o == t.out \cup {seg}
           r == Transmit(s, env, seg, timed)
<1>1. Sound(t) /\ Sends(s, t, {}) /\ t \in AnySocket
  BY ReclaimSends, SoundIs
<1>2. \E k : Holds(s, k)
  BY DEF Sound
<1>3. Sound(r) /\ Frame(s, r)
  BY <1>2, TransmitHolds DEF Sound
<1>4. r = [[t EXCEPT !.out = o] EXCEPT !.mempool = m, !.history = h]
  <2>1. send(t, seg).mempool = t.mempool /\ send(t, seg).history = t.history
    <3> HIDE DEF t
    <3> QED BY <1>1 DEF send, AnySocket
  <2>2. send(t, seg) = [t EXCEPT !.out = o]
    BY DEF send
  <2>3. r = [send(t, seg) EXCEPT !.mempool = send(t, seg).mempool - 1,
                                 !.history = <<rec>> \o send(t, seg).history]
    BY DEF Transmit
  <2> HIDE DEF t, r, o, rec
  <2> QED BY <2>1, <2>2, <2>3
<1>5. rec.seg = seg /\ rec.timed = timed /\ rec \in AnyRecord
  BY DEF Record, AnyRecord
<1> DEFINE q == t.history
<1>6. q \in Seq(AnyRecord)
  BY <1>1 DEF AnySocket
<1> HIDE DEF t, rec, r, m, q
<1>7. /\ \A i \in DOMAIN h : h[i] = rec \/ \E j \in DOMAIN q : h[i] = q[j]
      /\ \A j \in DOMAIN q : \E i \in DOMAIN h : h[i] = q[j]
      /\ 1 \in DOMAIN h /\ h[1] = rec
  <2>1. Len(h) = Len(q) + 1 /\ Len(q) \in Nat /\ DOMAIN h = 1 .. Len(h) /\ DOMAIN q = 1 .. Len(q)
    BY <1>5, <1>6 DEF q
  <2>2. h[1] = rec /\ \A j \in 1 .. Len(q) : h[j + 1] = q[j]
    BY <1>5, <1>6 DEF q
  <2> HIDE DEF h
  <2>3. \A j \in DOMAIN q : j + 1 \in DOMAIN h
    BY <2>1
  <2>4. \A i \in DOMAIN h : i = 1 \/ (i - 1 \in DOMAIN q /\ (i - 1) + 1 = i)
    BY <2>1
  <2>5. 1 \in DOMAIN h
    BY <2>1
  <2> QED BY <2>1, <2>2, <2>3, <2>4, <2>5
<1>8. r.history = h /\ r.out = o
  <2> HIDE DEF h, o
  <2> QED BY <1>1, <1>4 DEF AnySocket
<1> HIDE DEF h
<1>9. Segs(r) \subseteq Segs(t) \cup {seg} /\ seg \in Segs(r)
  <2>1. \A i \in DOMAIN h : h[i].seg = seg \/ \E j \in DOMAIN q : h[i].seg = q[j].seg
    BY <1>5, <1>7
  <2> QED BY <1>8, <2>1 DEF Segs, q
<1>10. Timed(t) \subseteq Timed(r)
  <2> SUFFICES ASSUME NEW j \in DOMAIN q, q[j].timed PROVE q[j].seg \in Timed(r)
    BY DEF Timed, TimedRecords, q
  <2> QED BY <1>7, <1>8 DEF Timed, TimedRecords
<1>11. timed => seg \in Timed(r)
  BY <1>5, <1>7, <1>8 DEF Timed, TimedRecords
<1>12. Sends(s, r, {seg})
  <2>1. Segs(t) \subseteq Segs(s)
    BY <1>1 DEF Sends
  <2>2. \A g \in Timed(s) : g \in Timed(t) \/ SEQ_LT(g.seq, s.seqnum_unacked)
    BY <1>1 DEF Sends
  <2> QED BY <1>3, <1>9, <1>10, <2>1, <2>2 DEF Sends
<1> QED BY <1>3, <1>9, <1>11, <1>12 DEF r

\* What the receive buffer acknowledges.
LEMMA AckNumIs ==
  ASSUME NEW isn \in SeqNum, NEW size \in Nat, size < SEQMOD \div 2,
         NEW b, NEW done \in 0 .. size, Consistent(isn, size, b, done)
  PROVE  /\ getAckNum(b) = SeqAdd(isn, done + b.recv_bytes)
         /\ done + b.recv_bytes \in done .. size
         /\ done + b.recv_bytes = Acked(b.list, b.recv_continuous, done)
<1> DEFINE q == b.list
           m == b.recv_continuous
           a == Acked(q, m, done)
<1>1. /\ q \in Seq(StreamElement(isn, size)) /\ m \in 0 .. Len(q)
      /\ b.read_firstSeqNum = SeqAdd(isn, done) /\ Joined(q, m, done) /\ b.recv_bytes = a - done
  BY DEF Consistent, StreamBuffer
<1>2. a \in done .. size
  BY <1>1, AckedBounds
<1>3. done + b.recv_bytes = a
  BY <1>1, <1>2
<1>4. getAckNum(b) = SeqAdd(isn, a)
  <2>1. CASE m = 0
    BY <1>1, <2>1 DEF getAckNum, Acked
  <2>2. CASE m # 0
    <3>1. q[m] \in StreamElement(isn, size) /\ m > 0
      BY <1>1, <2>2
    <3>2. getNextSeqNum(q[m]) = SeqAdd(isn, End(q[m]))
      BY <3>1, NextSeqNum
    <3> QED BY <2>2, <3>2 DEF getAckNum, Acked
  <2> QED BY <2>1, <2>2
<1> QED BY <1>2, <1>3, <1>4

LEMMA StreamIs ==
  ASSUME NEW n \in Node, NEW e, NEW s, Local(n, s, e), ~Unsynchronised(e.c, s)
  PROVE  /\ At(Peer(n), 1) \in SeqNum /\ ToWrite[Peer(n)] \in Nat /\ ToWrite[Peer(n)] < SEQMOD \div 2
         /\ Consistent(At(Peer(n), 1), ToWrite[Peer(n)], s.receiveBuffer, Len(s.read))
         /\ Len(s.read) \in 0 .. ToWrite[Peer(n)] /\ Got(s) \in Len(s.read) .. e.v
         /\ Got(s) \in e.ends /\ e.v \in 0 .. ToWrite[Peer(n)]
         /\ Got(s) = Acked(s.receiveBuffer.list, s.receiveBuffer.recv_continuous, Len(s.read))
         /\ getAckNum(s.receiveBuffer) = At(Peer(n), 1 + Got(s))
         /\ getAckNum(s.receiveBuffer) \in SeqNum
         /\ Pos(Peer(n), getAckNum(s.receiveBuffer)) = Got(s) + 1
         /\ Got(s) + 1 \in Acks(s, e.ends, e.v, e.fin)
<1> DEFINE p == Peer(n)
           isn == At(p, 1)
           size == ToWrite[p]
           done == Len(s.read)
           b == s.receiveBuffer
<1>1. p \in Node /\ size \in Nat /\ size + 2 < SEQMOD \div 2 /\ SEQMOD \div 2 \in Nat
      /\ SEQMOD \div 2 <= SEQMOD /\ SEQMOD \in Nat /\ ISN[p] \in SeqNum
  BY NodeFacts
<1>2. isn \in SeqNum
  <2>1. 1 \in Nat /\ 1 < SEQMOD
    BY <1>1
  <2> QED BY <1>1, <2>1, PosAt
<1>3. Consistent(isn, size, b, done) /\ Got(s) \in e.ends
  BY DEF Local, Receiving
<1>4. e.v \in 0 .. size /\ e.ends \subseteq 0 .. e.v
  BY DEF Local, ViewOK
<1>5. Got(s) = done + b.recv_bytes /\ done \in Nat /\ b.recv_bytes \in Nat
  BY SoundIs DEF Local, Got
<1>6. Got(s) \in 0 .. e.v
  BY <1>3, <1>4
<1> HIDE DEF isn, size, b, done, p
<1>7. done \in 0 .. size /\ Got(s) \in done .. e.v
  BY <1>1, <1>4, <1>5, <1>6
<1>8. size < SEQMOD \div 2
  BY <1>1
<1>9. getAckNum(b) = SeqAdd(isn, Got(s)) /\ Got(s) = Acked(b.list, b.recv_continuous, done)
  BY <1>1, <1>2, <1>3, <1>5, <1>7, <1>8, AckNumIs
<1>10. 1 + Got(s) \in Nat /\ Got(s) \in Nat /\ 1 + Got(s) < SEQMOD \div 2 /\ 1 + Got(s) < SEQMOD
  BY <1>1, <1>4, <1>6
<1>11. getAckNum(b) = At(p, 1 + Got(s))
  <2>1. isn = SeqAdd(ISN[p], 1)
    BY DEF isn, At
  <2> QED BY <1>1, <1>9, <1>10, <2>1, SeqAddAdd DEF At
<1>12. getAckNum(b) \in SeqNum /\ Pos(p, getAckNum(b)) = Got(s) + 1
  <2>1. At(p, 1 + Got(s)) \in SeqNum /\ Pos(p, At(p, 1 + Got(s))) = 1 + Got(s)
    BY <1>1, <1>10, PosAt
  <2>2. 1 + Got(s) = Got(s) + 1
    BY <1>10
  <2> QED BY <1>11, <2>1, <2>2
<1>13. Got(s) + 1 \in Acks(s, e.ends, e.v, e.fin)
  <2>1. Got(s) <= Got(s)
    BY <1>10
  <2> QED BY <1>3, <2>1 DEF Acks
<1> QED BY <1>1, <1>2, <1>3, <1>4, <1>7, <1>8, <1>9, <1>11, <1>12, <1>13 DEF p, isn, size, b, done

-----------------------------------------------------------------------------
(* Acknowledgements that are sent.                                          *)

\* A call in which a socket that is reset breaks no promise.
Quiet(c) == c \notin {"poll", "listen", "new"}

LEMMA StatesOf ==
  ASSUME NEW n, NEW e, NEW s, Local(n, s, e)
  PROVE  /\ s.state # "CLOSED" => e.c # "new"
         /\ s.state \in Ending => Quiet(e.c)
         /\ s.state \in Opening => ~RetransmissionCounter
         /\ e.c \notin {"poll", "new"} /\ (s.state \in Opened => s.waiting) => Quiet(e.c) \/ s.state \in Opening
<1>1. Tasks(n, s, e)
  BY DEF Local
<1>2. /\ e.c = "new" => s.state = "CLOSED"
      /\ e.c = "poll" => s.state \in Opened
      /\ e.c = "listen" => s.state \in {"LISTEN", "SYNRCVD", "ESTABLISHED"}
      /\ s.state \in Opening => ~RetransmissionCounter
      /\ s.state \in Opened /\ e.c = "listen" => ~s.waiting
  BY <1>1 DEF Tasks
<1> QED BY <1>2 DEF Quiet, Opening, Opened, Ending

LEMMA SendsSame ==
  ASSUME NEW s, Sound(s), NEW r, NEW G, Sends(s, r, G)
  PROVE  /\ r.state = s.state /\ r.waiting = s.waiting /\ r.receiving = s.receiving
         /\ r.ACK_triggered = s.ACK_triggered /\ r.FIN_received = s.FIN_received
         /\ r.buflen = s.buflen /\ r.buf = s.buf /\ r.FIN_seqnum = s.FIN_seqnum
         /\ r.sendWindow = s.sendWindow /\ r.seqnum_next = s.seqnum_next
         /\ r.seqnum_unacked = s.seqnum_unacked /\ r.read = s.read
         /\ r.receiveBuffer = s.receiveBuffer /\ r.packetbuffer = s.packetbuffer
<1>1. s \in AnySocket
  BY SoundIs
<1> QED BY <1>1 DEF Sends, Frame, AnySocket

LEMMA AckEmpty ==
  ASSUME NEW n \in Node, NEW e, NEW s, Local(n, s, e), Stage(e.c, s) = 2,
         NEW a \in SeqNum, Pos(Peer(n), a) \in Acks(s, e.ends, e.v, e.fin)
  PROVE  Empty(n, s, e, writeHeaderWithAck(s, {}, a))
<1> DEFINE g == writeHeaderWithAck(s, {}, a)
<1>1. s \in AnySocket
  BY SoundIs DEF Local
<1>2. g \in AnySegment
  <2>1. {} \in SUBSET Flags
    OBVIOUS
  <2> QED BY <1>1, <2>1, HeaderType
<1>3. g.flags = {"ACK"} /\ g.len = 0 /\ g.ack = a
  BY DEF writeHeaderWithAck, Segment
<1> HIDE DEF g
<1>4. ~has(g, "FIN") /\ has(g, "ACK") /\ ~(g.len > 0)
  BY <1>3 DEF has
<1> QED BY <1>2, <1>3, <1>4 DEF Empty, SegOK, g

LEMMA SendACKNumSends ==
  ASSUME NEW s, Sound(s), s.state # "CLOSED", NEW env, NEW a \in SeqNum
  PROVE  LET r == sendACKNum(s, env, a)
         IN  /\ Sound(r) /\ Sends(s, r, {writeHeaderWithAck(s, {}, a)})
<1> DEFINE g == writeHeaderWithAck(s, {}, a)
<1>1. g \in AnySegment
  <2>1. {} \in SUBSET Flags /\ s \in AnySocket
    BY SoundIs
  <2> QED BY <2>1, HeaderType
<1> HIDE DEF g
<1>2. CASE requestSendBufferTCP(s, env)
  <2>1. LET t == Transmit(s, env, g, FALSE) IN Sound(t) /\ Sends(s, t, {g})
    BY <1>1, <1>2, TransmitSends
  <2> QED BY <1>2, <2>1 DEF sendACKNum, g
<1>3. CASE ~requestSendBufferTCP(s, env)
  <2>1. LET t == Reclaim(s, env) IN Sound(t) /\ Sends(s, t, {})
    BY ReclaimSends
  <2>2. LET t == Reclaim(s, env) IN Sends(s, t, {g})
    BY <2>1 DEF Sends
  <2> QED BY <1>3, <2>1, <2>2 DEF sendACKNum, g
<1> QED BY <1>2, <1>3

LEMMA SendACKNumMoves ==
  ASSUME NEW n \in Node, NEW e, NEW s, Local(n, s, e), Stage(e.c, s) = 2, s.state # "CLOSED", NEW env,
         NEW a \in SeqNum, Pos(Peer(n), a) \in Acks(s, e.ends, e.v, e.fin)
  PROVE  LET r == sendACKNum(s, env, a)
         IN  Moves(n, e, s, r) /\ Sends(s, r, {writeHeaderWithAck(s, {}, a)})
<1> DEFINE r == sendACKNum(s, env, a)
           G == {writeHeaderWithAck(s, {}, a)}
<1>1. Sound(r) /\ Sends(s, r, G)
  BY SendACKNumSends DEF Local
<1>2. \A g \in G : Empty(n, s, e, g)
  BY AckEmpty
<1> HIDE DEF r, G
<1>3. Moves(n, e, s, r)
  BY <1>1, <1>2, SendsMoves
<1> QED BY <1>1, <1>3 DEF r, G

\* ACK_triggered, sendWindow and what belongs to it are not looked at.
LEMMA SetTriggeredMoves ==
  ASSUME NEW n \in Node, NEW e, NEW s, Local(n, s, e), NEW w \in BOOLEAN
  PROVE  LET r == [s EXCEPT !.ACK_triggered = w]
         IN  /\ Moves(n, e, s, r) /\ SameNumbers(s, r) /\ SameStream(s, r) /\ SameRest(s, r)
             /\ r.ACK_triggered = w /\ r.history = s.history
<1> DEFINE r == [s EXCEPT !.ACK_triggered = w]
<1>1. s \in AnySocket /\ \E k : Holds(s, k)
  BY SoundIs DEF Local, Sound
<1>2. Sound(r)
  BY <1>1, SetTriggered DEF Sound
<1>3. SameNumbers(s, r) /\ SameStream(s, r) /\ SameRest(s, r) /\ r.history = s.history /\ r.out = s.out
      /\ r.ACK_triggered = w
  BY <1>1 DEF SameNumbers, SameStream, SameRest, AnySocket
<1> HIDE DEF r
<1>4. Moves(n, e, s, r)
  BY <1>2, <1>3, AlikeMoves
<1> QED BY <1>3, <1>4 DEF r

LEMMA SendACKMoves ==
  ASSUME NEW n \in Node, NEW e, NEW s, Local(n, s, e), Stage(e.c, s) = 2, s.state # "CLOSED", NEW env
  PROVE  LET r == sendACK(s, env)
         IN  /\ Moves(n, e, s, r) /\ SameNumbers(s, r) /\ SameStream(s, r) /\ SameRest(s, r)
<1> DEFINE t == [s EXCEPT !.ACK_triggered = FALSE]
           a == getAckNum(s.receiveBuffer)
           r == sendACKNum(t, env, a)
<1>1. Moves(n, e, s, t) /\ SameNumbers(s, t) /\ SameStream(s, t) /\ SameRest(s, t)
  BY SetTriggeredMoves
<1>2. sendACK(s, env) = r
  <2>1. t.receiveBuffer = s.receiveBuffer
    BY <1>1 DEF SameStream
  <2> HIDE DEF t
  <2> QED BY <2>1 DEF sendACK, t
<1> HIDE DEF t
<1>3. Local(n, t, e) /\ t.state # "CLOSED" /\ Stage(e.c, t) = 2
  BY <1>1, SameFinSent DEF Moves, SameNumbers
<1>4. e.c # "new" /\ t.state \notin Opening
  BY <1>3, StageIs
<1>5. ~Unsynchronised(e.c, t)
  BY <1>4 DEF Unsynchronised, Opening
<1>6. a \in SeqNum /\ Pos(Peer(n), a) \in Acks(t, e.ends, e.v, e.fin)
  <2>1. t.receiveBuffer = s.receiveBuffer
    BY <1>1 DEF SameStream
  <2> QED BY <1>3, <1>5, <2>1, StreamIs
<1> HIDE DEF a
<1>7. Moves(n, e, t, r) /\ Sends(t, r, {writeHeaderWithAck(t, {}, a)}) /\ Sound(t)
  BY <1>3, <1>6, SendACKNumMoves DEF Local
<1> HIDE DEF r
<1>8. SameNumbers(t, r) /\ SameStream(t, r) /\ SameRest(t, r)
  BY <1>7, SendsSame DEF SameNumbers, SameStream, SameRest
<1>9. SameNumbers(s, r) /\ SameStream(s, r) /\ SameRest(s, r)
  BY <1>1, <1>8 DEF SameNumbers, SameStream, SameRest
<1>10. Moves(n, e, s, r)
  BY <1>1, <1>7, MovesTrans
<1> QED BY <1>2, <1>9, <1>10

LEMMA ProcessACKMoves ==
  ASSUME NEW n \in Node, NEW e, NEW s, Local(n, s, e), Stage(e.c, s) = 2, s.state # "CLOSED", NEW env
  PROVE  LET r == processACK(s, env)
         IN  /\ Moves(n, e, s, r) /\ SameNumbers(s, r) /\ SameStream(s, r) /\ SameRest(s, r)
<1>1. CASE s.ACK_triggered
  BY <1>1, SendACKMoves DEF processACK
<1>2. CASE ~s.ACK_triggered
  <2>1. processACK(s, env) = s
    BY <1>2 DEF processACK
  <2>2. Moves(n, e, s, s) /\ SameNumbers(s, s) /\ SameStream(s, s) /\ SameRest(s, s)
    BY GrowsSelf DEF SameNumbers, SameStream, SameRest
  <2> QED BY <2>1, <2>2
<1> QED BY <1>1, <1>2

\* The peer's FIN has been received, and everything before it.
LEMMA FINNumber ==
  ASSUME NEW n \in Node, NEW e, NEW s, Local(n, s, e), s.state \in AtEnd
  PROVE  LET a == SeqAdd(s.FIN_seqnum, 1)
         IN  /\ a \in SeqNum /\ Pos(Peer(n), a) \in Acks(s, e.ends, e.v, e.fin)
             /\ Stage(e.c, s) = 2 /\ s.state # "CLOSED" /\ e.c # "new"
<1> DEFINE p == Peer(n)
<1>1. s.FIN_seqnum = At(p, 1 + e.v) /\ e.fin /\ Got(s) = e.v
  BY DEF Local, Finishing
<1>2. s.state # "CLOSED" /\ s.state \notin Opening
  BY DEF AtEnd, Opening
<1>3. e.c # "new" /\ Stage(e.c, s) = 2
  BY <1>2, StatesOf, StageIs
<1>4. p \in Node /\ ToWrite[p] \in Nat /\ ToWrite[p] + 2 < SEQMOD \div 2 /\ SEQMOD \div 2 \in Nat
      /\ SEQMOD \div 2 <= SEQMOD /\ SEQMOD \in Nat /\ ISN[p] \in SeqNum
  BY NodeFacts
<1>5. e.v \in 0 .. ToWrite[p]
  BY DEF Local, ViewOK
<1> HIDE DEF p
<1>6. /\ 1 + e.v \in Nat /\ (1 + e.v) + 1 < SEQMOD \div 2 /\ (1 + e.v) + 1 = e.v + 2
      /\ e.v + 2 \in Nat /\ e.v + 2 < SEQMOD
  BY <1>4, <1>5
<1>7. SeqAdd(s.FIN_seqnum, 1) = At(p, e.v + 2)
  BY <1>1, <1>4, <1>6, SeqAddAdd DEF At
<1>8. At(p, e.v + 2) \in SeqNum /\ Pos(p, At(p, e.v + 2)) = e.v + 2
  BY <1>4, <1>6, PosAt
<1>9. e.v + 2 \in Acks(s, e.ends, e.v, e.fin)
  BY <1>1 DEF Acks
<1> QED BY <1>2, <1>3, <1>7, <1>8, <1>9 DEF p

LEMMA AckFINMoves ==
  ASSUME NEW n \in Node, NEW e, NEW s, Local(n, s, e), s.state \in AtEnd, NEW env
  PROVE  LET r == AckFIN(s, env)
         IN  Moves(n, e, s, r) /\ SameNumbers(s, r) /\ SameStream(s, r) /\ SameRest(s, r)
<1> DEFINE a == SeqAdd(s.FIN_seqnum, 1)
           r == sendACKNum(s, env, a)
<1>1. /\ a \in SeqNum /\ Pos(Peer(n), a) \in Acks(s, e.ends, e.v, e.fin)
      /\ Stage(e.c, s) = 2 /\ s.state # "CLOSED"
  BY FINNumber
<1> HIDE DEF a
<1>2. Moves(n, e, s, r) /\ Sends(s, r, {writeHeaderWithAck(s, {}, a)}) /\ Sound(s)
  BY <1>1, SendACKNumMoves DEF Local
<1>3. AckFIN(s, env) = r
  BY DEF AckFIN, a
<1> HIDE DEF r
<1>4. SameNumbers(s, r) /\ SameStream(s, r) /\ SameRest(s, r)
  BY <1>2, SendsSame DEF SameNumbers, SameStream, SameRest
<1> QED BY <1>2, <1>3, <1>4

-----------------------------------------------------------------------------
(* What a received segment changes.                                         *)

LEMMA UpdateHistoryMoves ==
  ASSUME NEW n \in Node, NEW e, NEW s, Local(n, s, e), s.state # "CLOSED",
         Quiet(e.c) \/ s.state \in Opening, NEW b, NEW env
  PROVE  LET r == updateHistory(s, b, env)
         IN  /\ Moves(n, e, s, r) /\ Sound(s)
             /\ Sends(s, r, {}) \/ (RetransmissionCounter /\ Resets(s, r))
             /\ Sends(s, r, {}) \/ s.state \notin Opening
<1> DEFINE r == updateHistory(s, b, env)
<1>1. Sound(r) /\ Sound(s) /\ (Sends(s, r, {}) \/ (RetransmissionCounter /\ Resets(s, r)))
  BY UpdateHistorySends DEF Local
<1> HIDE DEF r
<1>2. CASE Sends(s, r, {})
  <2>1. \A g \in {} : Empty(n, s, e, g)
    OBVIOUS
  <2>2. Moves(n, e, s, r)
    BY <1>1, <1>2, <2>1, SendsMoves
  <2> QED BY <1>1, <1>2, <2>2 DEF r
<1>3. CASE RetransmissionCounter /\ Resets(s, r)
  <2>1. s.state \notin Opening
    BY <1>3, StatesOf
  <2>2. Moves(n, e, s, r)
    BY <1>1, <1>3, <2>1, ResetMoves DEF Quiet
  <2> QED BY <1>1, <1>3, <2>1, <2>2 DEF r
<1> QED BY <1>1, <1>2, <1>3

\* A segment of the peer that reaches the socket.
Arrives(n, e, g) ==
    /\ g \in AnySegment
    /\ SegOK(Peer(n), g, e.stage, e.v, e.fin, e.acks)
    /\ g.len > 0 => End(g) \in e.ends

Alike(s, r) == SameNumbers(s, r) /\ SameStream(s, r) /\ SameRest(s, r)

LEMMA AlikeTrans == ASSUME NEW s, NEW t, NEW r, Alike(s, t), Alike(t, r) PROVE Alike(s, r)
BY DEF Alike, SameNumbers, SameStream, SameRest

LEMMA FreeMoves ==
  ASSUME NEW n \in Node, NEW e, NEW s, Local(n, s, e)
  PROVE  Moves(n, e, s, freeReceivedSegment(s)) /\ Alike(s, freeReceivedSegment(s))
<1> DEFINE r == freeReceivedSegment(s)
<1>1. s \in AnySocket /\ \E k : Holds(s, k)
  BY SoundIs DEF Local, Sound
<1>2. Sound(r)
  BY <1>1, FreeHolds DEF Sound
<1>3. SameNumbers(s, r) /\ SameStream(s, r) /\ SameRest(s, r) /\ r.history = s.history /\ r.out = s.out
  BY <1>1 DEF SameNumbers, SameStream, SameRest, AnySocket, freeReceivedSegment
<1> HIDE DEF r
<1>4. Moves(n, e, s, r)
  BY <1>2, <1>3, AlikeMoves
<1> QED BY <1>3, <1>4 DEF r, Alike

LEMMA SendWindowMoves ==
  ASSUME NEW n \in Node, NEW e, NEW s, Local(n, s, e), NEW g \in AnySegment
  PROVE  /\ Moves(n, e, s, updateSendWindow(s, g)) /\ Alike(s, updateSendWindow(s, g))
         /\ Moves(n, e, s, initSendWindow(s, g)) /\ Alike(s, initSendWindow(s, g))
<1> DEFINE r == initSendWindow(s, g)
<1>1. s \in AnySocket /\ \E k : Holds(s, k)
  BY SoundIs DEF Local, Sound
<1>2. Sound(r)
  BY <1>1, SendWindowHolds DEF Sound
<1>3. SameNumbers(s, r) /\ SameStream(s, r) /\ SameRest(s, r) /\ r.history = s.history /\ r.out = s.out
  BY <1>1 DEF SameNumbers, SameStream, SameRest, AnySocket, initSendWindow
<1>4. updateSendWindow(s, g) = s \/ updateSendWindow(s, g) = r
  BY DEF updateSendWindow
<1> HIDE DEF r
<1>5. Moves(n, e, s, r) /\ Alike(s, r)
  BY <1>2, <1>3, AlikeMoves DEF Alike
<1>6. Moves(n, e, s, s) /\ Alike(s, s)
  BY GrowsSelf DEF Alike, SameNumbers, SameStream, SameRest
<1> QED BY <1>4, <1>5, <1>6 DEF r

\* An acknowledgement of the peer is taken over, if it is a new one.
LEMMA HandleACKMoves ==
  ASSUME NEW n \in Node, NEW e, NEW s, Local(n, s, e), e.c # "new", NEW a \in SeqNum, Pos(n, a) \in e.acks
  PROVE  LET r == handleACK(s, a)
         IN  /\ Moves(n, e, s, r) /\ r = [s EXCEPT !.seqnum_unacked = r.seqnum_unacked]
             /\ a = s.seqnum_next => r.seqnum_unacked = s.seqnum_next
             /\ SameStream(s, r) /\ SameRest(s, r) /\ r.seqnum_next = s.seqnum_next /\ r.buf = s.buf
             /\ r.history = s.history /\ r.out = s.out
<1> DEFINE r == handleACK(s, a)
           t == [s EXCEPT !.seqnum_unacked = a]
           k == Pos(n, a)
           u == Una(n, s)
           x == Nxt(n, s)
<1>1. s \in AnySocket /\ \E j : Holds(s, j)
  BY SoundIs DEF Local, Sound
<1>2. /\ u \in Nat /\ x \in Nat /\ s.buf \in Nat /\ u <= x /\ x <= s.buf + 2 /\ s.buf <= e.w
      /\ e.w \in Nat /\ e.w + 2 < SEQMOD \div 2 /\ u < SEQMOD \div 2 /\ x < SEQMOD \div 2
      /\ s.seqnum_unacked \in SeqNum /\ s.seqnum_next \in SeqNum
  BY NumbersIs
<1>3. k \in Nat /\ k >= 1 /\ k - 1 \in e.cuts /\ k <= x
  <2>1. k \in Nat /\ k - 1 \in e.cuts /\ e.cuts \subseteq Nat
    BY DEF Local, ViewOK
  <2>2. k - 1 < x
    BY <2>1 DEF Local, Uncut
  <2>3. k - 1 \in Nat
    BY <2>1
  <2> HIDE DEF k, x
  <2> QED BY <1>2, <2>1, <2>2, <2>3
<1>4. k < SEQMOD \div 2
  <2>1. SEQMOD \div 2 \in Nat
    BY NodeFacts
  <2> HIDE DEF k, x
  <2> QED BY <1>2, <1>3, <2>1
<1>5. /\ SEQ_LEQ(a, s.seqnum_unacked) <=> k <= u
      /\ ~SEQ_GT(a, s.seqnum_next)
      /\ (a = s.seqnum_next) <=> (k = x)
      /\ (s.seqnum_unacked = s.seqnum_next) <=> (u = x)
  <2>1. k = Pos(n, a) /\ u = Pos(n, s.seqnum_unacked) /\ x = Pos(n, s.seqnum_next)
    BY DEF Una, Nxt
  <2> HIDE DEF k, u, x
  <2>2. ~(k > x)
    BY <1>2, <1>3
  <2> QED BY <1>2, <1>4, <2>1, <2>2, PosCompare
<1>6. Sound(r)
  BY <1>1, HandleACKHolds DEF Sound
<1>7. CASE SEQ_LEQ(a, s.seqnum_unacked)
  <2>1. r = s
    BY <1>7 DEF handleACK
  <2>2. Moves(n, e, s, s)
    BY GrowsSelf
  <2>3. s = [s EXCEPT !.seqnum_unacked = s.seqnum_unacked]
    BY <1>1 DEF AnySocket
  <2>4. a = s.seqnum_next => s.seqnum_unacked = s.seqnum_next
    <3> HIDE DEF k, u, x
    <3> QED BY <1>2, <1>3, <1>5, <1>7
  <2>5. SameStream(s, s) /\ SameRest(s, s)
    BY DEF SameStream, SameRest
  <2> HIDE DEF r
  <2> QED BY <2>1, <2>2, <2>3, <2>4, <2>5 DEF r
<1>8. CASE ~SEQ_LEQ(a, s.seqnum_unacked)
  <2>1. r = t
    BY <1>5, <1>8 DEF handleACK
  <2>2. /\ t.seqnum_unacked = a /\ SameStream(s, t) /\ SameRest(s, t) /\ t.buf = s.buf
        /\ t.history = s.history /\ t.out = s.out /\ t.seqnum_next = s.seqnum_next
    BY <1>1 DEF SameStream, SameRest, AnySocket
  <2> HIDE DEF t
  <2>3. Segs(t) = Segs(s) /\ Timed(t) = Timed(s) /\ t.state = s.state
    BY <2>2, SameSegs DEF SameStream
  <2>4. Una(n, t) = k /\ Nxt(n, t) = x /\ u < k
    <3>1. Una(n, t) = k /\ Nxt(n, t) = x
      BY <2>2 DEF Una, Nxt
    <3> HIDE DEF k, u
    <3> QED BY <1>2, <1>3, <1>5, <1>8, <3>1
  <2>5. Stage(e.c, t) = Stage(e.c, s)
    BY <2>3 DEF Stage
  <2>6. FinSent(n, e.c, t) = FinSent(n, e.c, s)
    BY <2>2, <2>4, <2>5 DEF FinSent
  <2>7. Acks(t, e.ends, e.v, e.fin) = Acks(s, e.ends, e.v, e.fin)
    BY <2>2, SameAcks
  <2>8. /\ Sending(n, s, e) /\ Tasks(n, s, e) /\ Receiving(n, s, e) /\ Finishing(n, s, e)
        /\ Handshake(n, s, e) /\ ViewOK(n, e) /\ Covered(n, s, e) /\ Sent(n, s, e) /\ Uncut(n, s, e)
    BY DEF Local
  <2>9. Sending(n, t, e)
    <3> HIDE DEF k, u, x
    <3>1. e.k \in Nat
      BY <2>8 DEF ViewOK
    <3>2. e.k = 0 \/ e.k < k
      BY <1>2, <1>3, <2>4, <2>8, <3>1 DEF Sending, u
    <3>3. k \in e.acks
      BY DEF k
    <3>4. Nxt(n, s) = x
      BY DEF x
    <3>5. /\ s.buf <= e.w
          /\ Stage(e.c, s) < 2 => s.buf = 0 /\ e.w = 0
          /\ s.state = "LISTEN" => x = 0
          /\ Stage(e.c, s) = 1 => x = 1
          /\ Stage(e.c, s) = 2 => x \in {s.buf + 1, s.buf + 2}
          /\ s.state \in Opened => x = s.buf + 1
          /\ s.state \in Ending => x = s.buf + 2
          /\ FinSent(n, e.c, s) => s.buf = e.w
          /\ e.k <= e.w
      BY <2>8, <3>4 DEF Sending
    <3> QED BY <1>3, <2>2, <2>3, <2>4, <2>5, <2>6, <3>2, <3>3, <3>5 DEF Sending
  <2>10. Tasks(n, t, e)
    <3>1. ASSUME s.state \in Opened, e.c = "write", ~s.waiting PROVE k = 1 + e.w
      <4>1. u = 1 + e.w /\ x = s.buf + 1
        BY <2>8, <3>1 DEF Tasks, Sending
      <4> HIDE DEF k, u, x
      <4> QED BY <1>2, <1>3, <2>4, <4>1
    <3> HIDE DEF k
    <3> QED BY <2>2, <2>3, <2>4, <2>8, <3>1 DEF Tasks, SameRest
  <2>11. Covered(n, t, e)
    <3> SUFFICES ASSUME s.state \in Opened \/ (~RetransmissionCounter /\ s.state \in Ending)
                 PROVE  /\ \A j \in 0 .. s.buf - 1 :
                             j + 1 < k \/ \E g \in Timed(s) : g.data <= j /\ j < End(g)
                        /\ FinSent(n, e.c, s) => k = x \/ \E g \in Timed(s) : has(g, "FIN")
                        /\ s.state \in {"FINWAIT2", "TIMEWAIT"} => k = x
      BY <2>2, <2>3, <2>4, <2>6 DEF Covered
    <3>1. /\ \A j \in 0 .. s.buf - 1 :
               j + 1 < u \/ \E g \in Timed(s) : g.data <= j /\ j < End(g)
          /\ FinSent(n, e.c, s) => u = x \/ \E g \in Timed(s) : has(g, "FIN")
          /\ s.state \in {"FINWAIT2", "TIMEWAIT"} => u = x
      BY <2>8 DEF Covered
    <3> HIDE DEF k, u, x
    <3>2. u = x => k = x
      BY <1>2, <1>3, <2>4
    <3>3. \A j \in 0 .. s.buf - 1 : j + 1 < u => j + 1 < k
      BY <1>2, <1>3, <2>4
    <3> QED BY <3>1, <3>2, <3>3
  <2>12. Sent(n, t, e)
    BY <2>2, <2>3, <2>5, <2>6, <2>7, <2>8 DEF Sent
  <2>13. Uncut(n, t, e)
    BY <2>3, <2>4, <2>8 DEF Uncut
  <2>14. Receiving(n, t, e) /\ Finishing(n, t, e) /\ Handshake(n, t, e)
    BY <2>2, <2>5, <2>8, SameReceiving, SameFinishing, SameHandshake DEF SameRest
  <2>15. Grows(e, n, s, t)
    <3>1. s.buf <= t.buf /\ Stage(e.c, s) <= Stage(e.c, t)
      BY <1>2, <2>2, <2>5, StageIs
    <3> QED BY <2>2, <2>6, <2>7, <3>1 DEF Grows, SameRest
  <2>16. Moves(n, e, s, t)
    BY <1>6, <2>1, <2>8, <2>9, <2>10, <2>11, <2>12, <2>13, <2>14, <2>15 DEF Moves, Local
  <2>17. t = [s EXCEPT !.seqnum_unacked = t.seqnum_unacked]
    BY <2>2 DEF t
  <2> HIDE DEF r
  <2> QED BY <2>1, <2>2, <2>16, <2>17 DEF r
<1> QED BY <1>7, <1>8

LEMMA AckIfMoves ==
  ASSUME NEW n \in Node, NEW e, NEW s, Local(n, s, e), e.c # "new", NEW g, Arrives(n, e, g)
  PROVE  LET r == ackIf(s, g)
         IN  /\ Moves(n, e, s, r) /\ r = [s EXCEPT !.seqnum_unacked = r.seqnum_unacked]
             /\ has(g, "ACK") /\ g.ack = s.seqnum_next => r.seqnum_unacked = s.seqnum_next
             /\ SameStream(s, r) /\ SameRest(s, r) /\ r.seqnum_next = s.seqnum_next
<1>1. g.ack \in SeqNum
  BY DEF Arrives, AnySegment
<1>2. CASE has(g, "ACK")
  <2>1. Pos(n, g.ack) \in e.acks
    <3>1. Pos(Peer(Peer(n)), g.ack) \in e.acks
      BY <1>2 DEF Arrives, SegOK
    <3> QED BY <3>1, NodeFacts
  <2>2. ackIf(s, g) = handleACK(s, g.ack)
    BY <1>2 DEF ackIf
  <2> QED BY <1>1, <2>1, <2>2, HandleACKMoves
<1>3. CASE ~has(g, "ACK")
  <2>1. ackIf(s, g) = s
    BY <1>3 DEF ackIf
  <2>2. s = [s EXCEPT !.seqnum_unacked = s.seqnum_unacked]
    BY SoundIs DEF Local, AnySocket
  <2>3. SameStream(s, s) /\ SameRest(s, s) /\ Moves(n, e, s, s)
    BY GrowsSelf DEF SameStream, SameRest
  <2> QED BY <1>3, <2>1, <2>2, <2>3
<1> QED BY <1>2, <1>3

\* Only the FIN that the peer has sent is taken for one.
LEMMA HandleFINMoves ==
  ASSUME NEW n \in Node, NEW e, NEW s, Local(n, s, e), NEW g, Arrives(n, e, g),
         s.state \notin AtEnd \cup Opening, e.c # "new"
  PROVE  LET r == handleFIN(s, g)
         IN  /\ Moves(n, e, s, r) /\ SameNumbers(s, r) /\ SameStream(s, r)
             /\ r.buflen = s.buflen /\ r.waiting = s.waiting /\ r.receiving = s.receiving
             /\ r.packetbuffer = s.packetbuffer
<1> DEFINE x == SeqAdd(g.seq, g.len)
           t == [s EXCEPT !.FIN_received = TRUE, !.FIN_seqnum = x]
           r == handleFIN(s, g)
           p == Peer(n)
<1>1. s \in AnySocket /\ \E k : Holds(s, k)
  BY SoundIs DEF Local, Sound
<1>2. Sound(r)
  BY <1>1, HandleFINHolds DEF Sound, Arrives
<1>3. CASE r = s
  BY <1>3, GrowsSelf DEF SameNumbers, SameStream
<1>4. CASE r # s
  <2>1. r = t /\ has(g, "FIN")
    BY <1>4 DEF handleFIN
  <2>2. g.len = 0 /\ g.seq = At(p, 1 + e.v) /\ e.fin
    BY <2>1 DEF Arrives, SegOK, has
  <2>3. x = At(p, 1 + e.v)
    <3>1. p \in Node /\ ToWrite[p] \in Nat /\ ToWrite[p] + 2 < SEQMOD \div 2 /\ SEQMOD \div 2 \in Nat
          /\ ISN[p] \in SeqNum
      BY NodeFacts
    <3>2. e.v \in 0 .. ToWrite[p]
      BY DEF Local, ViewOK
    <3> DEFINE y == 1 + e.v
    <3> HIDE DEF p
    <3>3. y \in Nat /\ y + 0 < SEQMOD \div 2 /\ y + 0 = y
      BY <3>1, <3>2
    <3> HIDE DEF y
    <3>4. SeqAdd(SeqAdd(ISN[p], y), 0) = SeqAdd(ISN[p], y + 0)
      BY <3>1, <3>3, SeqAddAdd
    <3>5. g.seq = SeqAdd(ISN[p], y)
      BY <2>2 DEF At, y
    <3> QED BY <2>2, <3>3, <3>4, <3>5 DEF At, y
  <2> HIDE DEF x
  <2>4. /\ t.FIN_received /\ t.FIN_seqnum = x /\ SameNumbers(s, t) /\ SameStream(s, t)
        /\ t.history = s.history /\ t.out = s.out
        /\ t.buflen = s.buflen /\ t.waiting = s.waiting /\ t.receiving = s.receiving
        /\ t.packetbuffer = s.packetbuffer
    BY <1>1 DEF SameNumbers, SameStream, AnySocket
  <2> HIDE DEF t, r
  <2>5. /\ Sending(n, s, e) /\ Tasks(n, s, e) /\ Receiving(n, s, e) /\ Finishing(n, s, e)
        /\ Handshake(n, s, e) /\ ViewOK(n, e) /\ Covered(n, s, e) /\ Sent(n, s, e) /\ Uncut(n, s, e)
    BY DEF Local
  <2>6. Segs(t) = Segs(s) /\ Timed(t) = Timed(s) /\ t.buf = s.buf
    BY <2>4, SameSegs DEF SameNumbers
  <2>7. Stage(e.c, t) = Stage(e.c, s) /\ FinSent(n, e.c, t) = FinSent(n, e.c, s)
        /\ Acks(t, e.ends, e.v, e.fin) = Acks(s, e.ends, e.v, e.fin)
    BY <2>4, SameFinSent, SameAcks
  <2>8. Sent(n, t, e)
    BY <2>5, <2>6, <2>7 DEF Sent
  <2>9. Sending(n, t, e) /\ Receiving(n, t, e) /\ Covered(n, t, e) /\ Uncut(n, t, e)
        /\ Handshake(n, t, e) /\ Tasks(n, t, e)
    BY <2>4, <2>5, <2>6, <2>7, SameSending, SameReceiving, SameCovered, SameUncut, SameHandshake, SameTasks
  <2>10. Finishing(n, t, e)
    <3>1. t.state = s.state
      BY <2>4 DEF SameNumbers
    <3> QED BY <2>2, <2>3, <2>4, <3>1 DEF Finishing, p
  <2>11. Grows(e, n, s, t)
    BY <2>4, SameGrows
  <2> QED BY <1>2, <2>1, <2>4, <2>5, <2>8, <2>9, <2>10, <2>11 DEF Moves, Local, r
<1> QED BY <1>3, <1>4

\* An insertion joins the new segment to the stream, and what came before it.
LEMMA InsertGrows ==
  ASSUME NEW isn \in SeqNum, NEW size \in Nat, size < SEQMOD \div 2,
         NEW b, NEW done \in 0 .. size, Consistent(isn, size, b, done),
         NEW g, g.data \in Nat, g.len \in Nat, g.len > 0, End(g) <= size, g.seq = SeqAdd(isn, g.data),
         CanInsert(b, g.seq), NEW s, s = insert(b, g, g.seq, g.len)
  PROVE  /\ Consistent(isn, size, s, done)
         /\ \A i \in DOMAIN s.list :
              End(s.list[i]) = End(g) \/ \E j \in DOMAIN b.list : End(s.list[i]) = End(b.list[j])
         /\ done + b.recv_bytes <= done + s.recv_bytes
         /\ \/ s.recv_bytes = b.recv_bytes
            \/ \E i \in DOMAIN s.list : done + s.recv_bytes = End(s.list[i])
<1> DEFINE x == g.data
           len == g.len
           q == b.list
           m == b.recv_continuous
           pos == InsertPosition(b, SeqAdd(isn, x))
           c == [seqNum |-> SeqAdd(isn, x), len |-> len, data |-> x]
           r == InsertAt(q, pos, c)
           k == s.recv_continuous
<1>1. x \in 0 .. size - 1 /\ len \in 1 .. size /\ x + len <= size /\ End(g) = x + len
  BY DEF End
<1>2. CanInsert(b, SeqAdd(isn, x))
  OBVIOUS
<1>3. /\ Consistent(isn, size, s, done) /\ s.list = r /\ r \in Seq(StreamElement(isn, size))
      /\ c \in StreamElement(isn, size)
      /\ k \in m .. Len(r) /\ Joined(r, k, done)
  <2>1. g.seq = SeqAdd(isn, x) /\ g.len = len /\ g.data = x
    OBVIOUS
  <2> HIDE DEF x, len, pos, c, r
  <2> QED BY <1>1, <1>2, <2>1, InsertIs DEF pos, c, r
<1>4. /\ pos \in First(b) .. Len(q) + 1 /\ pos > m
  <2> HIDE DEF x, pos
  <2> QED BY <1>1, <1>2, CanInsertIs DEF pos
<1>5. q \in Seq(StreamElement(isn, size)) /\ m \in 0 .. Len(q) /\ Joined(q, m, done) /\ m \in Nat
      /\ b.recv_bytes = Acked(q, m, done) - done /\ b.recv_bytes \in Nat
  BY DEF Consistent, StreamBuffer
<1>6. s.recv_bytes = Acked(r, k, done) - done /\ s.recv_bytes \in Nat
  BY <1>3 DEF Consistent, StreamBuffer
<1>e. End(c) = End(g)
  BY DEF End
<1>7. pos \in 1 .. Len(q) + 1 /\ Len(q) \in Nat
  <2>1. First(b) >= 1 /\ First(b) \in Nat
    BY <1>5 DEF First
  <2> HIDE DEF pos
  <2> QED BY <1>4, <1>5, <2>1
<1> HIDE DEF x, len, c, pos
<1>8. /\ Len(r) = Len(q) + 1 /\ r[pos] = c
      /\ \A i \in 1 .. pos - 1 : r[i] = q[i]
      /\ \A i \in pos .. Len(q) : r[i + 1] = q[i]
  <2> HIDE DEF q
  <2> QED BY <1>3, <1>5, <1>7, InsertAtIs, SMTT(30)
<1> HIDE DEF r, q, m, k
<1>9. ASSUME NEW i \in DOMAIN r
      PROVE  End(r[i]) = End(g) \/ \E j \in DOMAIN q : End(r[i]) = End(q[j])
  <2>1. i \in 1 .. Len(q) + 1 /\ DOMAIN q = 1 .. Len(q)
    BY <1>3, <1>5, <1>8
  <2>2. CASE i = pos
    BY <1>8, <1>e, <2>2
  <2>3. CASE i < pos
    <3>1. i \in 1 .. pos - 1 /\ i \in DOMAIN q
      BY <1>7, <2>1, <2>3
    <3> QED BY <1>8, <3>1
  <2>4. CASE i > pos
    <3>1. i - 1 \in pos .. Len(q) /\ i - 1 \in DOMAIN q /\ (i - 1) + 1 = i
      BY <1>7, <2>1, <2>4
    <3>2. r[i] = q[i - 1]
      BY <1>8, <3>1
    <3> QED BY <3>1, <3>2
  <2> QED BY <1>7, <2>1, <2>2, <2>3, <2>4
<1>10. Acked(q, m, done) <= Acked(r, k, done)
  <2>1. CASE m = 0
    <3>1. k \in 0 .. Len(r)
      BY <1>3, <2>1
    <3>2. Acked(r, k, done) \in done .. size
      BY <1>3, <3>1, AckedBounds
    <3> QED BY <2>1, <3>2 DEF Acked
  <2>2. CASE m > 0
    <3>1. k \in 1 .. Len(r) /\ k \in 0 .. Len(r) /\ m \in 1 .. Len(r) /\ m \in 0 .. Len(r) /\ m <= k
          /\ m \in 0 .. k /\ k \in m .. Len(r)
      BY <1>3, <1>5, <1>8, <2>2
    <3>2. m \in 1 .. pos - 1
      BY <1>4, <1>5, <1>7, <2>2
    <3>3. r[m] = q[m]
      BY <1>8, <3>2
    <3>4. Acked(q, m, done) = Acked(r, m, done)
      BY <2>2, <3>3 DEF Acked
    <3>5. Joined(r, m, done)
      BY <1>3, <1>5, <3>1, <2>2 DEF Joined, Contiguous
    <3>6. Bytes(SubSeq(r, 1, m)) = Acked(r, m, done) - done
      BY <1>3, <2>2, <3>1, <3>5, AckedBounds
    <3>7. Bytes(SubSeq(r, 1, k)) = Acked(r, k, done) - done
      BY <1>3, <2>2, <3>1, AckedBounds
    <3>8. r \in Seq(Element) /\ \A i \in 1 .. Len(r) : r[i].len > 0
      <4>1. r \in Seq(Element) /\ \A i \in 1 .. Len(r) : r[i].len \in 1 .. size
        BY <1>3, ListFacts
      <4> QED BY <4>1
    <3>9. Bytes(SubSeq(r, 1, m)) + (k - m) <= Bytes(SubSeq(r, 1, k))
      BY <3>1, <3>8, BytesMonotonic
    <3>10. Acked(r, m, done) \in done .. size /\ Acked(r, k, done) \in done .. size
      BY <1>3, <3>1, <3>5, AckedBounds
    <3> QED BY <3>1, <3>4, <3>6, <3>7, <3>9, <3>10
  <2> QED BY <1>5, <2>1, <2>2
<1>11. Acked(q, m, done) \in done .. size
  BY <1>5, AckedBounds
<1>k. k \in 0 .. Len(r)
  BY <1>3, <1>5
<1>12. Acked(r, k, done) \in done .. size
  BY <1>3, <1>k, AckedBounds
<1>13. done + b.recv_bytes <= done + s.recv_bytes /\ done + s.recv_bytes = Acked(r, k, done)
  BY <1>5, <1>6, <1>10, <1>11, <1>12
<1>14. s.recv_bytes = b.recv_bytes \/ \E i \in DOMAIN r : done + s.recv_bytes = End(r[i])
  <2>1. CASE k = 0
    <3>1. m = 0
      BY <1>3, <1>5, <2>1
    <3> QED BY <1>5, <1>6, <2>1, <3>1 DEF Acked
  <2>2. CASE k > 0
    <3>1. k \in DOMAIN r /\ Acked(r, k, done) = End(r[k])
      BY <1>3, <1>k, <2>2 DEF Acked
    <3> QED BY <1>13, <3>1
  <2> QED BY <1>k, <2>1, <2>2
<1> QED BY <1>3, <1>9, <1>13, <1>14 DEF q

LEMMA InsertMoves ==
  ASSUME NEW n \in Node, NEW e, NEW s, Local(n, s, e), NEW g, Arrives(n, e, g), g.len > 0,
         s.state \notin AtEnd \cup Opening \cup {"CLOSED"}, CanInsert(s.receiveBuffer, g.seq),
         NEW r, r = [s EXCEPT !.receiveBuffer = insert(s.receiveBuffer, g, g.seq, g.len),
                              !.ACK_triggered = TRUE], Sound(r)
  PROVE  /\ Moves(n, e, s, r) /\ SameNumbers(s, r) /\ SameRest(s, r)
<1> DEFINE p == Peer(n)
           isn == At(p, 1)
           size == ToWrite[p]
           done == Len(s.read)
           b == s.receiveBuffer
           c == insert(b, g, g.seq, g.len)
<1>1. s \in AnySocket /\ Sound(s)
  BY SoundIs DEF Local
<1>2. e.c # "new" /\ ~Unsynchronised(e.c, s) /\ s.state # "LISTEN"
  BY StatesOf DEF Unsynchronised, Opening
<1>3. /\ isn \in SeqNum /\ size \in Nat /\ size < SEQMOD \div 2 /\ Consistent(isn, size, b, done)
      /\ done \in 0 .. size /\ Got(s) \in e.ends /\ e.v \in 0 .. size
  BY <1>2, StreamIs
<1>4. /\ g.data \in Nat /\ g.len \in Nat /\ g.seq = At(p, 1 + g.data) /\ End(g) \in e.ends
  BY DEF Arrives, AnySegment, SegOK
<1>5. e.ends \subseteq 0 .. e.v
  BY DEF Local, ViewOK
<1>6. End(g) <= size
  BY <1>3, <1>4, <1>5
<1>7. g.seq = SeqAdd(isn, g.data)
  <2>1. p \in Node /\ size \in Nat /\ size + 2 < SEQMOD \div 2 /\ SEQMOD \div 2 \in Nat
        /\ ISN[p] \in SeqNum
    BY NodeFacts
  <2>2. 1 + g.data < SEQMOD \div 2
    <3> HIDE DEF size
    <3> QED BY <1>4, <1>6, <2>1 DEF End
  <2>3. 1 \in Nat
    OBVIOUS
  <2> QED BY <1>4, <2>1, <2>2, <2>3, SeqAddAdd DEF At
<1>8. /\ r.receiveBuffer = c /\ SameNumbers(s, r) /\ SameRest(s, r) /\ r.read = s.read
      /\ r.history = s.history /\ r.out = s.out /\ r.FIN_received = s.FIN_received
      /\ r.FIN_seqnum = s.FIN_seqnum
  <2> HIDE DEF c
  <2> QED BY <1>1 DEF SameNumbers, SameRest, AnySocket, c
<1> HIDE DEF isn, size, b
<1>9. /\ Consistent(isn, size, c, done)
      /\ \A i \in DOMAIN c.list :
            End(c.list[i]) = End(g) \/ \E j \in DOMAIN b.list : End(c.list[i]) = End(b.list[j])
      /\ done + b.recv_bytes <= done + c.recv_bytes
      /\ \/ c.recv_bytes = b.recv_bytes
         \/ \E i \in DOMAIN c.list : done + c.recv_bytes = End(c.list[i])
  <2>1. CanInsert(b, g.seq)
    BY DEF b
  <2>2. c = insert(b, g, g.seq, g.len)
    OBVIOUS
  <2> HIDE DEF done, p, c
  <2> QED BY <1>3, <1>4, <1>6, <1>7, <2>1, <2>2, InsertGrows
<1>10. Got(s) = done + b.recv_bytes /\ Got(r) = done + c.recv_bytes /\ Got(s) \in Nat /\ Got(r) \in Nat
  BY <1>1, <1>8, SoundIs DEF Got, b
<1> HIDE DEF c, done
<1>11. /\ Sending(n, s, e) /\ Tasks(n, s, e) /\ Receiving(n, s, e) /\ Finishing(n, s, e)
      /\ Handshake(n, s, e) /\ ViewOK(n, e) /\ Covered(n, s, e) /\ Sent(n, s, e) /\ Uncut(n, s, e)
  BY DEF Local
<1>12. Segs(r) = Segs(s) /\ Timed(r) = Timed(s) /\ r.buf = s.buf /\ r.state = s.state
  BY <1>8, SameSegs DEF SameNumbers
<1>13. Stage(e.c, r) = Stage(e.c, s) /\ FinSent(n, e.c, r) = FinSent(n, e.c, s)
  BY <1>8, SameFinSent
<1>14. \A i \in DOMAIN b.list : End(b.list[i]) \in e.ends
  BY <1>2, <1>11 DEF Receiving, b
<1>15. \A i \in DOMAIN c.list : End(c.list[i]) \in e.ends
  BY <1>4, <1>9, <1>14
<1>16. Got(r) \in e.ends /\ Got(s) <= Got(r)
  BY <1>3, <1>9, <1>10, <1>15
<1>17. Acks(s, e.ends, e.v, e.fin) \subseteq Acks(r, e.ends, e.v, e.fin)
  <2>1. e.ends \subseteq Nat
    BY <1>3, <1>5
  <2>2. \A k \in e.ends : k <= Got(s) => k <= Got(r)
    BY <1>10, <1>16, <2>1
  <2> QED BY <1>12, <2>2 DEF Acks, AtEnd
<1>18. Receiving(n, r, e)
  <2>1. ~Unsynchronised(e.c, r)
    BY <1>2, <1>12 DEF Unsynchronised
  <2>2. \A i \in DOMAIN s.read : s.read[i] = i - 1
    BY <1>2, <1>11 DEF Receiving
  <2>3. Consistent(At(Peer(n), 1), ToWrite[Peer(n)], r.receiveBuffer, Len(r.read))
    BY <1>8, <1>9 DEF isn, size, done
  <2> QED BY <1>8, <1>15, <1>16, <2>1, <2>2, <2>3 DEF Receiving
<1>19. Finishing(n, r, e)
  BY <1>8, <1>11, <1>12 DEF Finishing
<1>20. Sent(n, r, e)
  <2>1. ASSUME NEW h \in e.flight \cup Segs(s)
        PROVE  SegOK(n, h, Stage(e.c, r), e.w, FinSent(n, e.c, r), Acks(r, e.ends, e.v, e.fin))
    <3>1. SegOK(n, h, Stage(e.c, s), e.w, FinSent(n, e.c, s), Acks(s, e.ends, e.v, e.fin))
      BY <1>11 DEF Sent
    <3>2. Stage(e.c, s) \in 0 .. 2 /\ Stage(e.c, s) <= Stage(e.c, s)
      BY StageIs
    <3> QED BY <1>13, <1>17, <3>1, <3>2, SegOKLater
  <2> QED BY <1>11, <1>12, <2>1 DEF Sent
<1>21. Sending(n, r, e) /\ Tasks(n, r, e) /\ Covered(n, r, e) /\ Uncut(n, r, e) /\ Handshake(n, r, e)
  BY <1>8, <1>11, <1>12, <1>13, SameSending, SameTasks, SameCovered, SameUncut, SameHandshake DEF SameRest
<1>22. Grows(e, n, s, r)
  <2>1. s.buf <= r.buf /\ Stage(e.c, s) <= Stage(e.c, r)
    <3>1. s.buf \in Nat /\ Stage(e.c, s) \in Nat
      BY <1>1, SoundIs, StageIs
    <3> QED BY <1>12, <1>13, <3>1
  <2> QED BY <1>8, <1>13, <1>17, <2>1 DEF Grows, SameRest
<1>23. Moves(n, e, s, r)
  BY <1>11, <1>18, <1>19, <1>20, <1>21, <1>22 DEF Moves, Local
<1> QED BY <1>8, <1>23

LEMMA HandleDataMoves ==
  ASSUME NEW n \in Node, NEW e, NEW s, Local(n, s, e), NEW g, Arrives(n, e, g),
         s.state \notin AtEnd \cup Opening \cup {"CLOSED"}
  PROVE  LET r == handleData(s, g)
         IN  /\ Moves(n, e, s, r) /\ SameNumbers(s, r) /\ SameRest(s, r)
<1> DEFINE f == freeReceivedSegment(s)
           a == [f EXCEPT !.ACK_triggered = TRUE]
           t == [s EXCEPT !.receiveBuffer = insert(s.receiveBuffer, g, g.seq, g.len),
                              !.ACK_triggered = TRUE]
           r == handleData(s, g)
<1>1. Moves(n, e, s, f) /\ Alike(s, f)
  BY FreeMoves
<1>2. Moves(n, e, s, a) /\ Alike(s, a)
  <2> HIDE DEF f
  <2>1. TRUE \in BOOLEAN /\ Local(n, f, e)
    BY <1>1 DEF Moves
  <2>2. Moves(n, e, f, a) /\ Alike(f, a)
    BY <2>1, SetTriggeredMoves DEF Alike
  <2> HIDE DEF a
  <2> QED BY <1>1, <2>2, MovesTrans, AlikeTrans
<1>3. Sound(r)
  <2>1. \E k : Holds(s, k)
    BY DEF Local, Sound
  <2> QED BY <2>1, HandleDataHolds DEF Arrives, Sound
<1>4. CASE g.len = 0
  BY <1>1, <1>4 DEF handleData, Alike
<1>5. CASE g.len # 0 /\ ~CanInsert(s.receiveBuffer, g.seq)
  BY <1>2, <1>5 DEF handleData, Alike
<1>6. CASE g.len # 0 /\ CanInsert(s.receiveBuffer, g.seq)
  <2>1. r = t
    BY <1>6 DEF handleData
  <2>2. g.len > 0
    BY <1>6 DEF Arrives, AnySegment
  <2> HIDE DEF r
  <2>3. Moves(n, e, s, r) /\ SameNumbers(s, r) /\ SameRest(s, r)
    BY <1>3, <1>6, <2>1, <2>2, InsertMoves
  <2> QED BY <2>3 DEF r
<1> QED BY <1>4, <1>5, <1>6

\* A segment in a synchronised state: its acknowledgement, its FIN, its data.
LEMMA SegmentMoves ==
  ASSUME NEW n \in Node, NEW e, NEW s, Local(n, s, e), NEW g, Arrives(n, e, g),
         s.state \in {"ESTABLISHED", "FINWAIT1", "FINWAIT2"}, NEW t, t \in {s, ackIf(s, g)}
  PROVE  LET r == handleData(handleFIN(t, g), g)
         IN  /\ Moves(n, e, s, r) /\ r.state = s.state /\ r.seqnum_next = s.seqnum_next
             /\ r.buflen = s.buflen /\ r.waiting = s.waiting /\ r.receiving = s.receiving
             /\ t = ackIf(s, g) /\ has(g, "ACK") /\ g.ack = s.seqnum_next
                  => r.seqnum_unacked = r.seqnum_next
<1>1. e.c # "new" /\ s.state \notin AtEnd \cup Opening \cup {"CLOSED"}
  BY StatesOf DEF AtEnd, Opening
<1>2. /\ Moves(n, e, s, t) /\ t.state = s.state /\ t.seqnum_next = s.seqnum_next
      /\ t.buflen = s.buflen /\ t.waiting = s.waiting /\ t.receiving = s.receiving
      /\ t = ackIf(s, g) /\ has(g, "ACK") /\ g.ack = s.seqnum_next
           => t.seqnum_unacked = t.seqnum_next
  <2>1. CASE t = ackIf(s, g)
    <3>1. /\ Moves(n, e, s, t) /\ SameStream(s, t) /\ SameRest(s, t) /\ t.seqnum_next = s.seqnum_next
          /\ has(g, "ACK") /\ g.ack = s.seqnum_next => t.seqnum_unacked = s.seqnum_next
      BY <1>1, <2>1, AckIfMoves
    <3> QED BY <3>1 DEF SameStream, SameRest
  <2>2. CASE t # ackIf(s, g)
    BY <2>2, GrowsSelf
  <2> QED BY <2>1, <2>2
<1>3. Local(n, t, e)
  BY <1>2 DEF Moves
<1> DEFINE f == handleFIN(t, g)
<1>4. /\ Moves(n, e, t, f) /\ SameNumbers(t, f) /\ f.buflen = t.buflen
      /\ f.waiting = t.waiting /\ f.receiving = t.receiving
  BY <1>1, <1>2, <1>3, HandleFINMoves
<1> HIDE DEF f
<1>5. Local(n, f, e) /\ f.state = s.state
  BY <1>2, <1>4 DEF Moves, SameNumbers
<1> DEFINE r == handleData(f, g)
<1>6. Moves(n, e, f, r) /\ SameNumbers(f, r) /\ SameRest(f, r)
  BY <1>1, <1>5, HandleDataMoves
<1> HIDE DEF r
<1>7. Moves(n, e, s, r)
  BY <1>2, <1>3, <1>4, <1>5, <1>6, MovesTrans
<1>8. /\ r.state = s.state /\ r.seqnum_next = s.seqnum_next
      /\ r.buflen = s.buflen /\ r.waiting = s.waiting /\ r.receiving = s.receiving
      /\ r.seqnum_unacked = t.seqnum_unacked /\ r.seqnum_next = t.seqnum_next
  BY <1>2, <1>4, <1>6 DEF SameNumbers, SameRest
<1> QED BY <1>2, <1>7, <1>8 DEF r, f

\* The whole stream and the FIN behind it have been received.
LEMMA FINCompleteMoves ==
  ASSUME NEW n \in Node, NEW e, NEW s, Local(n, s, e), FIN_complete(s), e.c # "listen", NEW st,
         \/ s.state = "ESTABLISHED" /\ st = "CLOSEWAIT"
         \/ s.state = "FINWAIT1" /\ st = "CLOSING"
         \/ s.state \in {"FINWAIT1", "FINWAIT2"} /\ st = "TIMEWAIT"
              /\ (RetransmissionCounter \/ s.seqnum_unacked = s.seqnum_next),
         NEW r, r = [s EXCEPT !.state = st]
  PROVE  Moves(n, e, s, r) /\ r.state = st /\ Sound(r) /\ st \in AtEnd /\ st \in States
<1> DEFINE p == Peer(n)
<1>1. s \in AnySocket /\ Sound(s) /\ \E k : Holds(s, k)
  BY SoundIs DEF Local, Sound
<1>2. e.c # "new" /\ s.state \notin AtEnd \cup Opening \cup {"CLOSED"}
  BY StatesOf DEF AtEnd, Opening
<1>3. st \in AtEnd /\ st \in States
  BY DEF AtEnd, States
<1>4. Sound(r)
  BY <1>1, <1>3, SetState DEF Sound
<1>5. /\ r.state = st /\ r.buf = s.buf /\ r.seqnum_unacked = s.seqnum_unacked
      /\ r.seqnum_next = s.seqnum_next /\ r.read = s.read /\ r.receiveBuffer = s.receiveBuffer
      /\ SameRest(s, r) /\ r.history = s.history /\ r.out = s.out
  BY <1>1 DEF SameRest, AnySocket
<1>6. /\ Sending(n, s, e) /\ Tasks(n, s, e) /\ Receiving(n, s, e) /\ Finishing(n, s, e)
      /\ Handshake(n, s, e) /\ ViewOK(n, e) /\ Covered(n, s, e) /\ Sent(n, s, e) /\ Uncut(n, s, e)
  BY DEF Local
<1>7. Stage(e.c, s) = 2 /\ Stage(e.c, r) = 2 /\ Segs(r) = Segs(s) /\ Timed(r) = Timed(s)
      /\ Una(n, r) = Una(n, s) /\ Nxt(n, r) = Nxt(n, s) /\ Got(r) = Got(s)
  <2>1. r.state \notin Opening
    BY <1>3, <1>5 DEF AtEnd, Opening
  <2> QED BY <1>2, <1>5, <2>1, StageIs, SameSegs DEF Una, Nxt, Got
<1>8. FinSent(n, e.c, r) = FinSent(n, e.c, s)
  BY <1>5, <1>7 DEF FinSent
<1>9. s.FIN_seqnum = At(p, 1 + e.v) /\ e.fin
  BY <1>6 DEF FIN_complete, Finishing
<1>10. Got(s) = e.v
  <2>1. ~Unsynchronised(e.c, s)
    BY <1>2 DEF Unsynchronised, Opening
  <2>2. /\ getAckNum(s.receiveBuffer) = At(p, 1 + Got(s)) /\ Got(s) \in Nat /\ Got(s) <= e.v
        /\ e.v \in 0 .. ToWrite[p] /\ Pos(p, getAckNum(s.receiveBuffer)) = Got(s) + 1
    <3>1. Len(s.read) \in Nat
      BY <1>1, SoundIs
    <3> QED BY <2>1, <3>1, StreamIs
  <2>3. p \in Node /\ ToWrite[p] \in Nat /\ ToWrite[p] + 2 < SEQMOD \div 2 /\ SEQMOD \div 2 \in Nat
        /\ SEQMOD \div 2 <= SEQMOD /\ SEQMOD \in Nat
    BY NodeFacts
  <2>4. 1 + e.v \in Nat /\ 1 + e.v < SEQMOD
    BY <2>2, <2>3
  <2>5. Pos(p, At(p, 1 + e.v)) = 1 + e.v
    BY <2>3, <2>4, PosAt
  <2>6. Got(s) + 1 = 1 + e.v
    BY <1>9, <2>2, <2>5 DEF FIN_complete
  <2> QED BY <2>2, <2>6
<1>11. Acks(s, e.ends, e.v, e.fin) \subseteq Acks(r, e.ends, e.v, e.fin)
  BY <1>2, <1>7 DEF Acks
<1>12. Sending(n, r, e)
  <2>1. /\ r.state \in Opened => s.state \in Opened
        /\ r.state \in Ending => s.state \in Ending
        /\ r.state # "LISTEN" /\ ~(2 < 2) /\ 2 # 1
    BY <1>5 DEF Opened, Ending
  <2> QED BY <1>5, <1>6, <1>7, <1>8, <2>1 DEF Sending
<1>13. Tasks(n, r, e)
  <2>1. /\ r.state \in Opened <=> s.state \in Opened
        /\ r.state \notin {"LISTEN", "SYNRCVD", "SYNSENT"} /\ r.state \notin Opening /\ r.state # "CLOSED"
    BY <1>5 DEF Opened, Opening
  <2> QED BY <1>2, <1>5, <1>6, <1>7, <2>1 DEF Tasks, SameRest
<1>14. Receiving(n, r, e)
  <2>1. ~Unsynchronised(e.c, s) /\ ~Unsynchronised(e.c, r)
    BY <1>2, <1>3, <1>5 DEF Unsynchronised, Opening, AtEnd
  <2> QED BY <1>5, <1>6, <1>7, <2>1 DEF Receiving
<1>15. Finishing(n, r, e)
  <2>1. r.state \notin Opening
    BY <1>3, <1>5 DEF AtEnd, Opening
  <2> QED BY <1>2, <1>5, <1>7, <1>9, <1>10, <2>1 DEF Finishing, SameRest
<1>16. Covered(n, r, e)
  <2>1. /\ r.state \in Opened => s.state \in Opened
        /\ r.state \in Ending => s.state \in Ending
        /\ r.state \in {"FINWAIT2", "TIMEWAIT"} =>
             RetransmissionCounter \/ s.seqnum_unacked = s.seqnum_next
        /\ r.state \in {"FINWAIT2", "TIMEWAIT"} => r.state \notin Opened
    BY <1>5 DEF Opened, Ending
  <2>2. s.seqnum_unacked = s.seqnum_next => Una(n, s) = Nxt(n, s)
    BY DEF Una, Nxt
  <2> QED BY <1>5, <1>6, <1>7, <1>8, <2>1, <2>2 DEF Covered
<1>17. Sent(n, r, e)
  <2>1. ASSUME NEW h \in e.flight \cup Segs(s)
        PROVE  SegOK(n, h, Stage(e.c, r), e.w, FinSent(n, e.c, r), Acks(r, e.ends, e.v, e.fin))
    <3>1. SegOK(n, h, Stage(e.c, s), e.w, FinSent(n, e.c, s), Acks(s, e.ends, e.v, e.fin))
      BY <1>6 DEF Sent
    <3>2. 2 \in 0 .. 2 /\ 2 <= 2
      OBVIOUS
    <3> QED BY <1>7, <1>8, <1>11, <3>1, <3>2, SegOKLater
  <2> QED BY <1>5, <1>6, <1>7, <2>1 DEF Sent
<1>18. Uncut(n, r, e) /\ Handshake(n, r, e)
  BY <1>6, <1>7, SameHandshake DEF Uncut
<1>19. Grows(e, n, s, r)
  <2>1. s.buf <= r.buf /\ Stage(e.c, s) <= Stage(e.c, r)
    <3>1. s.buf \in Nat
      BY <1>1, SoundIs
    <3> QED BY <1>5, <1>7, <3>1
  <2> QED BY <1>5, <1>8, <1>11, <2>1 DEF Grows, SameRest
<1>20. Moves(n, e, s, r)
  BY <1>4, <1>6, <1>12, <1>13, <1>14, <1>15, <1>16, <1>17, <1>18, <1>19 DEF Moves, Local
<1> QED BY <1>3, <1>4, <1>5, <1>20

\* What is sent does not depend on the state that follows.
LEMMA SendsInState ==
  ASSUME NEW s, Sound(s), NEW t, NEW G, Sends(s, t, G), NEW st
  PROVE  Sends([s EXCEPT !.state = st], [t EXCEPT !.state = st], G)
<1> DEFINE d == [s EXCEPT !.state = st]
           r == [t EXCEPT !.state = st]
<1>1. s \in AnySocket
  BY SoundIs
<1>2. Frame(d, r) /\ r.history = t.history /\ r.out = t.out /\ d.history = s.history /\ d.out = s.out
      /\ d.seqnum_unacked = s.seqnum_unacked
  BY <1>1 DEF Sends, Frame, AnySocket
<1> HIDE DEF d, r
<1>3. Segs(r) = Segs(t) /\ Timed(r) = Timed(t) /\ Segs(d) = Segs(s) /\ Timed(d) = Timed(s)
  BY <1>2, SameSegs
<1>4. Sends(d, r, G)
  BY <1>2, <1>3 DEF Sends
<1> QED BY <1>4 DEF d, r

LEMMA AckAndFinish ==
  ASSUME NEW n \in Node, NEW e, NEW s, Local(n, s, e), FIN_complete(s), e.c # "listen", NEW env, NEW st,
         \/ s.state = "ESTABLISHED" /\ st = "CLOSEWAIT"
         \/ s.state = "FINWAIT1" /\ st = "CLOSING"
         \/ s.state \in {"FINWAIT1", "FINWAIT2"} /\ st = "TIMEWAIT"
              /\ (RetransmissionCounter \/ s.seqnum_unacked = s.seqnum_next)
  PROVE  LET r == [AckFIN(s, env) EXCEPT !.state = st]
         IN  Moves(n, e, s, r) /\ r.state = st
<1> DEFINE d == [s EXCEPT !.state = st]
           a == SeqAdd(s.FIN_seqnum, 1)
           t == AckFIN(s, env)
           r == [t EXCEPT !.state = st]
           g == writeHeaderWithAck(s, {}, a)
<1>1. s \in AnySocket /\ Sound(s) /\ s.state \notin {"SYNSENT", "CLOSED"} /\ st \notin {"SYNSENT", "CLOSED"}
  BY SoundIs DEF Local
<1>2. Moves(n, e, s, d) /\ d.state = st /\ Sound(d) /\ st \in AtEnd /\ st \in States
  BY FINCompleteMoves
<1>3. d.FIN_seqnum = s.FIN_seqnum /\ d.receiveBuffer = s.receiveBuffer /\ d.seqnum_next = s.seqnum_next
  BY <1>1 DEF AnySocket
<1>4. g = writeHeaderWithAck(d, {}, a)
  <2>1. getReceiveWindow(d) = getReceiveWindow(s)
    <3> HIDE DEF d
    <3> QED BY <1>1, <1>2, <1>3 DEF getReceiveWindow
  <2> HIDE DEF d, a
  <2> QED BY <1>3, <2>1 DEF writeHeaderWithAck
<1> HIDE DEF d
<1>5. /\ a \in SeqNum /\ Pos(Peer(n), a) \in Acks(d, e.ends, e.v, e.fin) /\ Stage(e.c, d) = 2
      /\ Local(n, d, e)
  <2>1. Local(n, d, e)
    BY <1>2 DEF Moves
  <2> QED BY <1>2, <1>3, <2>1, FINNumber
<1>6. Empty(n, d, e, g)
  BY <1>4, <1>5, AckEmpty
<1> HIDE DEF a
<1>7. Sound(t) /\ Sends(s, t, {g})
  BY <1>1, <1>5, SendACKNumSends DEF AckFIN, a
<1> HIDE DEF t, g
<1>8. Sends(d, r, {g})
  BY <1>1, <1>7, SendsInState DEF d
<1>9. Sound(r) /\ r.state = st
  BY <1>2, <1>7, SetState DEF Sound
<1> HIDE DEF r
<1>10. \A h \in {g} : Empty(n, d, e, h)
  BY <1>6
<1>11. Moves(n, e, d, r)
  BY <1>5, <1>8, <1>9, <1>10, SendsMoves
<1>12. Moves(n, e, s, r)
  BY <1>2, <1>11, MovesTrans
<1> QED BY <1>9, <1>12 DEF r, t
=============================================================================
