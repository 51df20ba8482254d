------------------------ MODULE ReceiveStreamProofs ------------------------
(***************************************************************************)
(* Every invariant of ReceiveStream, for every length of the stream, every *)
(* number of list elements, every peer and every initial sequence number.  *)
(***************************************************************************)
EXTENDS ReceiveStream, TCPReceiveBufferProofs

\* The position behind the last byte of a segment.
CutEnd(c) == c[1] + c[2]

\* The elements are in the order of the stream and do not overlap.
Sorted(q) == \A i, j \in 1 .. Len(q) : i < j => End(q[i]) <= q[j].data

\* Behind the first n elements there is a gap.
Gap(q, n, done) == n < Len(q) => Acked(q, n, done) < q[n + 1].data

\* The elements behind it are segments as the peer sent them.
Whole(q, n, segs) == \A i \in n + 1 .. Len(q) : <<q[i].data, q[i].len>> \in segs

\* No segment reaches over the acknowledged position.
Edges(q, n, done, segs) ==
    \A c \in segs : c[1] < Acked(q, n, done) => CutEnd(c) <= Acked(q, n, done)

Ordered(q, n, done, segs) ==
    Sorted(q) /\ Gap(q, n, done) /\ Whole(q, n, segs) /\ Edges(q, n, done, segs)

\* The number of list elements that continue the stream, and of bytes read.
Count == IF sliding THEN rb.recv_continuous ELSE Len(rb.list)
Done == Len(delivered)

StreamInv ==
    /\ sliding \in BOOLEAN
    /\ cuts \in Cuttings
    /\ rejected \in cuts \cup {None}
    /\ \E n \in 0 .. StreamLen : delivered = Run(0, n)

BufferInv ==
    /\ rb \in StreamBuffer(ISN, StreamLen) /\ Len(rb.list) <= Room
    /\ rb.recv_continuous \in 0 .. Len(rb.list)
    /\ rb.read_firstSeqNum = SeqAdd(ISN, Done)
    /\ Joined(rb.list, Count, Done)
    /\ rb.recv_bytes = IF sliding THEN Acked(rb.list, Count, Done) - Done ELSE 0
    /\ sliding \/ rb.recv_continuous = 0

\* The inductive invariant.  Ordered is true only if the peer's segments do
\* not overlap.
IInv ==
    /\ StreamInv
    /\ BufferInv
    /\ Unchanged => Ordered(rb.list, Count, Done, cuts)
    /\ RefusedIsDuplicate

\* The stream fits into half of the sequence numbers.
LEMMA StreamSize == ISN \in SeqNum /\ StreamLen \in Nat /\ StreamLen < SEQMOD \div 2
BY StreamAssumption
USE StreamSize

-----------------------------------------------------------------------------
(* A peer whose segments do not overlap                                    *)

NoOverlap(segs) == \A c, d \in segs : c = d \/ CutEnd(c) <= d[1] \/ CutEnd(d) <= c[1]

\* The sets of segments that a peer may send.
Segments == SUBSET {c \in (0 .. StreamLen - 1) \X (1 .. StreamLen) : CutEnd(c) <= StreamLen}

\* The elements before pos, from the last continuous one on, end before x;
\* the element at pos starts behind it.
Between(q, n, pos, x) ==
    /\ pos \in n + 1 .. Len(q) + 1
    /\ \A i \in (IF n = 0 THEN 1 ELSE n) .. pos - 1 : End(q[i]) <= x
    /\ pos <= Len(q) => x < q[pos].data

\* n is the end of the gapless run.
AtGap(q, n, done) == n < Len(q) => Acked(q, n, done) # q[n + 1].data

LEMMA SegmentFacts ==
  ASSUME NEW segs \in Segments, NEW c \in segs
  PROVE  /\ c[1] \in 0 .. StreamLen - 1 /\ c[2] \in 1 .. StreamLen /\ c = <<c[1], c[2]>>
         /\ CutEnd(c) = c[1] + c[2] /\ CutEnd(c) \in c[1] + 1 .. StreamLen
<1>1. c \in (0 .. StreamLen - 1) \X (1 .. StreamLen) /\ CutEnd(c) <= StreamLen
  BY DEF Segments
<1>2. StreamLen \in Nat
  BY StreamAssumption
<1> QED BY <1>1, <1>2 DEF CutEnd

\* An insertion keeps the order.
LEMMA InsertOrdered ==
  ASSUME NEW q \in Seq(StreamElement(ISN, StreamLen)), NEW n \in 0 .. Len(q), NEW done \in 0 .. StreamLen,
         NEW segs \in Segments, NoOverlap(segs), Ordered(q, n, done, segs),
         NEW c \in segs, NEW e \in StreamElement(ISN, StreamLen), e.data = c[1], e.len = c[2], done <= c[1],
         NEW pos, Between(q, n, pos, c[1]), NEW r, r = InsertAt(q, pos, e),
         NEW m \in n .. Len(r), AtGap(r, m, done)
  PROVE  Ordered(r, m, done, segs)
<1> DEFINE x == c[1]
<1>1. StreamLen \in Nat /\ Len(q) \in Nat
  BY StreamAssumption
<1>2. \A i \in 1 .. Len(q) :
         /\ q[i].data \in 0 .. StreamLen - 1 /\ q[i].len \in 1 .. StreamLen
         /\ End(q[i]) \in q[i].data + 1 .. StreamLen /\ End(q[i]) = q[i].data + q[i].len
  BY ListFacts
<1>15. pos \in n + 1 .. Len(q) + 1 /\ pos \in 1 .. Len(q) + 1
  BY <1>1 DEF Between
<1>3. /\ r \in Seq(StreamElement(ISN, StreamLen)) /\ Len(r) = Len(q) + 1 /\ r[pos] = e
      /\ \A i \in 1 .. pos - 1 : r[i] = q[i]
      /\ \A i \in pos + 1 .. Len(q) + 1 : r[i] = q[i - 1]
  <2>1. /\ r \in Seq(StreamElement(ISN, StreamLen)) /\ Len(r) = Len(q) + 1 /\ r[pos] = e
        /\ \A i \in 1 .. pos - 1 : r[i] = q[i]
        /\ \A i \in pos .. Len(q) : r[i + 1] = q[i]
    BY <1>15, InsertAtIs, SMT
  <2>2. ASSUME NEW i \in pos + 1 .. Len(q) + 1 PROVE r[i] = q[i - 1]
    <3>1. i - 1 \in pos .. Len(q) /\ (i - 1) + 1 = i
      BY <1>1, <1>15
    <3> QED BY <2>1, <3>1
  <2> QED BY <2>1, <2>2
<1>4. c = <<x, c[2]>> /\ End(e) = CutEnd(c)
  BY SegmentFacts DEF End
<1>16. x \in Int /\ CutEnd(c) \in Int
  <2>1. x \in 0 .. StreamLen - 1 /\ CutEnd(c) \in c[1] + 1 .. StreamLen
    BY SegmentFacts
  <2> QED BY <1>1, <2>1
<1>17. ASSUME NEW i \in 1 .. Len(q)
       PROVE  End(q[i]) \in Int /\ q[i].data \in Int /\ q[i].data < End(q[i])
  <2>1. q[i].data \in 0 .. StreamLen - 1 /\ End(q[i]) \in q[i].data + 1 .. StreamLen
    BY <1>2
  <2> QED BY <1>1, <2>1
<1>5. \A i \in n + 1 .. Len(q) : <<q[i].data, q[i].len>> \in segs
  BY DEF Ordered, Whole
<1>6. \A i, j \in 1 .. Len(q) : i < j => End(q[i]) <= q[j].data
  BY DEF Ordered, Sorted
<1>7. ASSUME NEW i \in 1 .. pos - 1 PROVE End(q[i]) <= x
  <2>1. CASE i < n
    <3>1. i \in 1 .. Len(q) /\ n \in 1 .. Len(q) /\ n # 0 /\ n \in n .. pos - 1
      BY <1>1, <1>15, <2>1
    <3>2. End(q[i]) <= q[n].data /\ End(q[n]) <= x
      BY <1>6, <2>1, <3>1 DEF Between
    <3>3. End(q[i]) \in Int /\ q[n].data \in Int /\ End(q[n]) \in Int /\ q[n].data < End(q[n]) /\ x \in Int
      BY <1>16, <1>17, <3>1
    <3> HIDE DEF x
    <3> QED BY <3>2, <3>3
  <2>2. CASE i >= n
    <3>1. i \in (IF n = 0 THEN 1 ELSE n) .. pos - 1
      BY <1>1, <1>15, <2>2
    <3> QED BY <3>1 DEF Between
  <2> QED BY <1>1, <1>15, <2>1, <2>2
<1>8. ASSUME NEW j \in pos .. Len(q) PROVE CutEnd(c) <= q[j].data
  <2> DEFINE d == <<q[pos].data, q[pos].len>>
  <2>1. pos \in n + 1 .. Len(q) /\ pos \in 1 .. Len(q) /\ j \in 1 .. Len(q) /\ pos <= Len(q)
    BY <1>1, <1>15
  <2>2. d \in segs /\ x < d[1] /\ CutEnd(d) = End(q[pos]) /\ d[1] = q[pos].data
    BY <1>5, <2>1 DEF CutEnd, End, Between
  <2>3. c = d \/ CutEnd(c) <= d[1] \/ CutEnd(d) <= c[1]
    BY <2>2 DEF NoOverlap
  <2>4. CutEnd(c) <= q[pos].data
    <3>1. x \in Int /\ CutEnd(c) \in Int /\ q[pos].data \in Int /\ End(q[pos]) \in Int /\ q[pos].data < End(q[pos])
      BY <1>16, <1>17, <2>1
    <3>2. c # d
      BY <2>2, <3>1
    <3> HIDE DEF d
    <3> QED BY <2>2, <2>3, <3>1, <3>2
  <2>5. CASE j = pos
    BY <2>4, <2>5
  <2>6. CASE j > pos
    <3>1. End(q[pos]) <= q[j].data
      BY <1>6, <2>1, <2>6
    <3>2. CutEnd(c) \in Int /\ q[pos].data \in Int /\ End(q[pos]) \in Int /\ q[pos].data < End(q[pos]) /\ q[j].data \in Int
      BY <1>16, <1>17, <2>1
    <3> QED BY <2>4, <3>1, <3>2
  <2> QED BY <1>1, <1>15, <2>5, <2>6
<1>9. Sorted(r)
  <2> SUFFICES ASSUME NEW i \in 1 .. Len(r), NEW j \in 1 .. Len(r), i < j PROVE End(r[i]) <= r[j].data
    BY DEF Sorted
  <2>1. CASE j < pos
    <3>1. i \in 1 .. pos - 1 /\ j \in 1 .. pos - 1 /\ i \in 1 .. Len(q) /\ j \in 1 .. Len(q)
      BY <1>1, <1>3, <1>15, <2>1
    <3> QED BY <1>3, <1>6, <3>1
  <2>2. CASE j = pos
    <3>1. i \in 1 .. pos - 1
      BY <1>1, <1>15, <2>2
    <3> QED BY <1>3, <1>7, <2>2, <3>1
  <2>3. CASE j > pos
    <3>1. j \in pos + 1 .. Len(q) + 1 /\ j - 1 \in pos .. Len(q) /\ j - 1 \in 1 .. Len(q)
      BY <1>1, <1>3, <1>15, <2>3
    <3>2. r[j] = q[j - 1]
      BY <1>3, <3>1
    <3>3. CASE i < pos
      <4>1. i \in 1 .. pos - 1 /\ i \in 1 .. Len(q) /\ i < j - 1
        BY <1>1, <1>15, <3>1, <3>3
      <4> QED BY <1>3, <1>6, <3>1, <3>2, <4>1
    <3>4. CASE i = pos
      BY <1>3, <1>4, <1>8, <3>1, <3>2, <3>4
    <3>5. CASE i > pos
      <4>1. i \in pos + 1 .. Len(q) + 1 /\ i - 1 \in 1 .. Len(q) /\ i - 1 < j - 1
        BY <1>1, <1>3, <1>15, <3>1, <3>5
      <4> QED BY <1>3, <1>6, <3>1, <3>2, <4>1
    <3> QED BY <1>1, <1>3, <1>15, <3>3, <3>4, <3>5
  <2> QED BY <1>1, <1>3, <1>15, <2>1, <2>2, <2>3
<1>10. ASSUME NEW i \in n + 1 .. Len(r) PROVE <<r[i].data, r[i].len>> \in segs
  <2>1. CASE i < pos
    <3>1. i \in 1 .. pos - 1 /\ i \in n + 1 .. Len(q)
      BY <1>1, <1>3, <1>15, <2>1
    <3> QED BY <1>3, <1>5, <3>1
  <2>2. CASE i = pos
    BY <1>3, <1>4, <2>2
  <2>3. CASE i > pos
    <3>1. i \in pos + 1 .. Len(q) + 1 /\ i - 1 \in n + 1 .. Len(q)
      BY <1>1, <1>3, <1>15, <2>3
    <3> QED BY <1>3, <1>5, <3>1
  <2> QED BY <1>1, <1>3, <1>15, <2>1, <2>2, <2>3
<1>11. Whole(r, m, segs)
  BY <1>1, <1>3, <1>15, <1>10 DEF Whole
<1>12. ASSUME NEW i \in 1 .. Len(r)
       PROVE  /\ r[i].data \in Int /\ End(r[i]) \in Int /\ r[i].data < End(r[i])
              /\ r[i].len \in Int /\ End(r[i]) = r[i].data + r[i].len
  <2>1. r[i].data \in 0 .. StreamLen - 1 /\ End(r[i]) \in r[i].data + 1 .. StreamLen
        /\ r[i].len \in 1 .. StreamLen /\ End(r[i]) = r[i].data + r[i].len
    BY <1>3, ListFacts, Zenon
  <2> QED BY <1>1, <2>1, SMTT(30)
<1>13. Gap(r, m, done)
  <2> SUFFICES ASSUME m < Len(r) PROVE Acked(r, m, done) < r[m + 1].data
    BY DEF Gap
  <2>1. m + 1 \in 1 .. Len(r)
    BY <1>1, <1>3
  <2>2. CASE m = 0
    <3>1. n = 0 /\ done # r[1].data /\ r[1].data \in Int
      BY <1>1, <1>12, <2>1, <2>2 DEF Acked, AtGap
    <3>2. done <= r[1].data
      <4>1. CASE pos = 1
        BY <1>3, <4>1
      <4>2. CASE pos # 1
        <5>1. 1 \in 1 .. pos - 1 /\ 0 < Len(q) /\ 1 \in 1 .. Len(q)
          BY <1>1, <1>15, <3>1, <4>2
        <5>2. done < q[0 + 1].data
          BY <3>1, <5>1 DEF Ordered, Gap, Acked
        <5> QED BY <1>1, <1>2, <1>3, <5>1, <5>2
      <4> QED BY <4>1, <4>2
    <3> QED BY <1>1, <2>2, <3>1, <3>2 DEF Acked
  <2>3. CASE m # 0
    <3>1. m \in 1 .. Len(r) /\ m < m + 1
      BY <1>1, <1>3, <1>15, <2>3
    <3>2. End(r[m]) <= r[m + 1].data /\ End(r[m]) # r[m + 1].data
      BY <1>9, <2>1, <2>3, <3>1 DEF Sorted, Acked, AtGap
    <3>3. Acked(r, m, done) = End(r[m])
      BY <2>3 DEF Acked
    <3> QED BY <1>12, <2>1, <3>1, <3>2, <3>3
  <2> QED BY <2>2, <2>3
<1>14. Edges(r, m, done, segs)
  <2> SUFFICES ASSUME NEW k \in segs, k[1] < Acked(r, m, done) PROVE CutEnd(k) <= Acked(r, m, done)
    BY DEF Edges
  <2>1. CASE m = n
    <3>1. Acked(r, m, done) = Acked(q, n, done)
      <4>1. CASE n = 0
        BY <2>1, <4>1 DEF Acked
      <4>2. CASE n # 0
        <5>1. n \in 1 .. pos - 1
          BY <1>1, <1>15, <4>2
        <5> QED BY <1>3, <2>1, <4>2, <5>1 DEF Acked
      <4> QED BY <4>1, <4>2
    <3> QED BY <3>1 DEF Ordered, Edges
  <2>2. CASE m # n
    <3> DEFINE d == <<r[m].data, r[m].len>>
    <3>1. m \in n + 1 .. Len(r) /\ m \in 1 .. Len(r) /\ m # 0
      BY <1>1, <1>3, <1>15, <2>2
    <3>2. d \in segs /\ CutEnd(d) = End(r[m]) /\ Acked(r, m, done) = End(r[m])
      BY <1>10, <1>12, <3>1 DEF CutEnd, Acked
    <3>3. k = d \/ CutEnd(k) <= d[1] \/ CutEnd(d) <= k[1]
      BY <3>2 DEF NoOverlap
    <3>4. k[1] \in Int /\ CutEnd(k) \in Int /\ d[1] = r[m].data
      BY <1>1, SegmentFacts
    <3>5. r[m].data \in Int /\ End(r[m]) \in Int /\ r[m].data < End(r[m])
      BY <1>12, <3>1
    <3>6. CASE k = d
      BY <3>2, <3>5, <3>6
    <3>7. CASE k # d
      <4> HIDE DEF d
      <4> QED BY <3>2, <3>3, <3>4, <3>5, <3>7
    <3> QED BY <3>6, <3>7
  <2> QED BY <2>1, <2>2
<1> QED BY <1>9, <1>11, <1>13, <1>14 DEF Ordered

-----------------------------------------------------------------------------
(* copyData()                                                              *)

\* After a read the list is ordered as before.
LEMMA AdvanceOrdered ==
  ASSUME NEW q \in Seq(StreamElement(ISN, StreamLen)), NEW n \in 0 .. Len(q), NEW done \in 0 .. StreamLen,
         Joined(q, n, done), NEW len \in Nat, NEW k, NEW part, Consuming(q, n, done, len, k, part),
         NEW p, p = Advance(q, k, part), NEW m, m = n - k, NEW d, d = done + len,
         NEW segs \in Segments, Ordered(q, n, done, segs)
  PROVE  Ordered(p, m, d, segs)
<1> DEFINE r == Len(q) - k
<1>0. /\ k \in 0 .. n /\ part \in Nat
      /\ k < n => q[k + 1].data + part = done + len /\ part < q[k + 1].len
      /\ k = n => part = 0 /\ done + len = Acked(q, n, done)
  BY DEF Consuming
<1>1. StreamLen \in Nat /\ Len(q) \in Nat /\ k \in 0 .. Len(q) /\ r \in Nat /\ m \in 0 .. r
  BY <1>0, SMTT(30)
<1>2. part > 0 => k < Len(q) /\ part < q[k + 1].len
  BY <1>0, <1>1
<1>3. /\ Len(p) = r
      /\ \A i \in 1 .. r : /\ End(p[i]) = End(q[k + i])
                           /\ i # 1 \/ part = 0 => p[i] = q[k + i]
  <2>1. IsAdvance(ISN, StreamLen, q, k, part, p)
    BY <1>0, <1>1, <1>2, AdvanceIs
  <2> QED BY <2>1 DEF IsAdvance
<1>4. Acked(p, m, d) = Acked(q, n, done)
  BY AdvanceJoined
<1>5. Ordered(p, m, d, segs)
  <2>1. Sorted(p)
    <3> SUFFICES ASSUME NEW i \in 1 .. r, NEW j \in 1 .. r, i < j PROVE End(p[i]) <= p[j].data
      BY <1>3 DEF Sorted
    <3>1. k + i \in 1 .. Len(q) /\ k + j \in 1 .. Len(q) /\ k + i < k + j /\ j # 1
      BY <1>0, <1>1
    <3>2. End(q[k + i]) <= q[k + j].data
      BY <3>1 DEF Ordered, Sorted
    <3>3. End(p[i]) = End(q[k + i]) /\ p[j] = q[k + j]
      BY <1>3, <3>1
    <3> QED BY <3>2, <3>3
  <2>2. ASSUME NEW i \in m + 1 .. r PROVE p[i] = q[k + i] /\ k + i \in n + 1 .. Len(q)
    <3>1. i \in 1 .. r /\ k + i \in n + 1 .. Len(q)
      BY <1>0, <1>1
    <3>2. i # 1 \/ part = 0
      <4>1. i = 1 => k = n
        BY <1>0, <1>1
      <4> QED BY <1>0, <4>1
    <3> QED BY <1>3, <3>1, <3>2
  <2>3. Gap(p, m, d)
    <3> SUFFICES ASSUME m < r PROVE Acked(q, n, done) < p[m + 1].data
      BY <1>3, <1>4 DEF Gap
    <3>1. m + 1 \in m + 1 .. r /\ k + (m + 1) = n + 1 /\ n < Len(q)
      BY <1>0, <1>1
    <3>2. p[m + 1] = q[n + 1]
      BY <2>2, <3>1
    <3>3. Acked(q, n, done) < q[n + 1].data
      BY <3>1 DEF Ordered, Gap
    <3> QED BY <3>2, <3>3
  <2>4. Whole(p, m, segs)
    BY <1>3, <2>2 DEF Ordered, Whole
  <2>5. Edges(p, m, d, segs)
    BY <1>4 DEF Ordered, Edges
  <2> QED BY <2>1, <2>3, <2>4, <2>5 DEF Ordered
<1> QED BY <1>5

-----------------------------------------------------------------------------
(* Duplicates                                                              *)

\* Byte x is read or in the list.
Held(q, done, x) ==
    x < done \/ \E i \in DOMAIN q : x \in q[i].data .. q[i].data + q[i].len - 1

\* A segment that starts before the acknowledged position is a duplicate.
LEMMA BeforeAcked ==
  ASSUME NEW q \in Seq(StreamElement(ISN, StreamLen)), NEW n \in 0 .. Len(q), NEW done \in 0 .. StreamLen,
         Joined(q, n, done), NEW segs \in Segments, Ordered(q, n, done, segs),
         NEW c \in segs, c[1] < Acked(q, n, done), NEW x \in c[1] .. c[1] + c[2] - 1
  PROVE  Held(q, done, x)
<1>1. StreamLen \in Nat /\ Len(q) \in Nat /\ DOMAIN q = 1 .. Len(q)
  BY StreamAssumption
<1>2. CutEnd(c) <= Acked(q, n, done) /\ CutEnd(c) = c[1] + c[2]
  BY DEF Ordered, Edges, CutEnd
<1>3. Acked(q, n, done) \in Int
  <2>1. Acked(q, n, done) \in done .. StreamLen
    BY AckedBounds
  <2> QED BY <1>1, <2>1
<1>4. c[1] \in Int /\ c[2] \in Int
  <2>1. c[1] \in 0 .. StreamLen - 1 /\ c[2] \in 1 .. StreamLen
    BY SegmentFacts
  <2> QED BY <1>1, <2>1
<1>5. CASE x < done
  BY <1>5 DEF Held
<1>6. CASE x >= done
  <2> DEFINE y == Acked(q, n, done)
  <2>1. x \in done .. y - 1
    <3> HIDE DEF y
    <3>1. y \in Int /\ c[1] + c[2] <= y
      BY <1>2, <1>3 DEF y
    <3> QED BY <1>1, <1>4, <1>6, <3>1
  <2>2. PICK i \in 1 .. n : x \in q[i].data .. End(q[i]) - 1
    BY <2>1, JoinedCovers
  <2>3. i \in 1 .. Len(q)
    BY <1>1
  <2>4. x \in q[i].data .. q[i].data + q[i].len - 1
    <3>1. q[i].data \in 0 .. StreamLen - 1 /\ q[i].len \in 1 .. StreamLen
      BY <2>3, ListFacts
    <3>2. (q[i].data + q[i].len) - 1 = q[i].data + q[i].len - 1
      BY <1>1, <3>1
    <3>3. x \in q[i].data .. (q[i].data + q[i].len) - 1
      BY <2>2, Zenon DEF End
    <3> QED BY <3>2, <3>3
  <2>5. \E j \in DOMAIN q : x \in q[j].data .. q[j].data + q[j].len - 1
    BY <1>1, <2>3, <2>4, Zenon
  <2> QED BY <2>5 DEF Held
<1>7. done \in Int /\ x \in Int
  BY <1>1, <1>4
<1> QED BY <1>5, <1>6, <1>7

\* What insert() refuses although an element is free is a duplicate.
LEMMA RefusedHeld ==
  ASSUME NEW b, NEW done \in 0 .. StreamLen, Consistent(ISN, StreamLen, b, done), NEW segs \in Segments,
         NoOverlap(segs), Ordered(b.list, b.recv_continuous, done, segs), NEW c \in segs,
         Len(b.list) < TCP_RECEIVEBUFFER_MAX_PACKETS, ~CanInsert(b, SeqAdd(ISN, c[1])),
         NEW x \in c[1] .. c[1] + c[2] - 1
  PROVE  Held(b.list, done, x)
<1> DEFINE q == b.list
           n == b.recv_continuous
           pos == InsertPosition(b, SeqAdd(ISN, c[1]))
<1>1. /\ StreamLen \in Nat /\ q \in Seq(StreamElement(ISN, StreamLen)) /\ Len(q) \in Nat /\ n \in 0 .. Len(q)
      /\ Joined(q, n, done) /\ DOMAIN q = 1 .. Len(q)
  BY StreamAssumption DEF Consistent, StreamBuffer
<1>2. c[1] \in 0 .. StreamLen - 1 /\ c[2] \in 1 .. StreamLen /\ c = <<c[1], c[2]>> /\ CutEnd(c) = c[1] + c[2]
  BY SegmentFacts
<1> DEFINE y == c[1]
<1>3. /\ pos \in First(b) .. Len(q) + 1
      /\ pos <= Len(q) => y < End(q[pos])
      /\ CanInsert(b, SeqAdd(ISN, y)) <=>
            /\ Len(q) < TCP_RECEIVEBUFFER_MAX_PACKETS
            /\ done <= y
            /\ pos > n
            /\ pos <= Len(q) => y < q[pos].data
  BY <1>2, CanInsertIs
<1> HIDE DEF pos
<1>4. y \in Int /\ done \in Int /\ pos \in Int /\ pos >= First(b) /\ First(b) \in Int
  BY <1>1, <1>2, <1>3 DEF First
<1>5. Acked(q, n, done) \in done .. StreamLen
  BY <1>1, AckedBounds
<1>6. CASE y < done
  <2>1. y < Acked(q, n, done)
    BY <1>1, <1>4, <1>5, <1>6
  <2> QED BY <1>1, <2>1, BeforeAcked
<1>7. CASE pos <= n
  <2>1. n # 0 /\ pos = n /\ pos <= Len(q)
    BY <1>1, <1>4, <1>7 DEF First
  <2>2. y < Acked(q, n, done)
    BY <1>3, <2>1 DEF Acked
  <2> QED BY <1>1, <2>2, BeforeAcked
<1>8. CASE done <= y /\ pos > n
  <2> DEFINE d == <<q[pos].data, q[pos].len>>
  <2>1. pos <= Len(q) /\ ~(y < q[pos].data)
    BY <1>3, <1>8
  <2>2. pos \in n + 1 .. Len(q) /\ pos \in 1 .. Len(q)
    BY <1>1, <1>4, <1>8, <2>1
  <2>3. d \in segs /\ CutEnd(d) = End(q[pos]) /\ d[1] = q[pos].data /\ d[2] = q[pos].len
    BY <2>2 DEF Ordered, Whole, CutEnd, End
  <2>4. c = d \/ CutEnd(c) <= d[1] \/ CutEnd(d) <= c[1]
    BY <2>3 DEF NoOverlap
  <2>5. q[pos].data \in Int /\ End(q[pos]) \in Int /\ CutEnd(c) \in Int /\ CutEnd(c) > y /\ y < End(q[pos])
    <3>1. q[pos].data \in 0 .. StreamLen - 1 /\ End(q[pos]) \in q[pos].data + 1 .. StreamLen
      BY <1>1, <2>2, ListFacts
    <3>2. c[1] \in 0 .. StreamLen - 1 /\ CutEnd(c) \in c[1] + 1 .. StreamLen
      BY SegmentFacts
    <3> QED BY <1>1, <1>3, <2>1, <3>1, <3>2, SMTT(30)
  <2>6. c = d
    <3> HIDE DEF d
    <3> QED BY <1>4, <2>1, <2>3, <2>4, <2>5
  <2>7. x \in q[pos].data .. q[pos].data + q[pos].len - 1
    BY <2>3, <2>6
  <2> QED BY <1>1, <2>2, <2>7 DEF Held
<1> QED BY <1>1, <1>4, <1>6, <1>7, <1>8

\* An insertion forgets nothing.
LEMMA InsertHeld ==
  ASSUME NEW q \in Seq(StreamElement(ISN, StreamLen)), NEW pos \in 1 .. Len(q) + 1, NEW e \in StreamElement(ISN, StreamLen),
         NEW done, NEW x, Held(q, done, x)
  PROVE  Held(InsertAt(q, pos, e), done, x)
<1> DEFINE r == InsertAt(q, pos, e)
<1>1. /\ r \in Seq(StreamElement(ISN, StreamLen)) /\ Len(r) = Len(q) + 1
      /\ \A i \in 1 .. pos - 1 : r[i] = q[i]
      /\ \A i \in pos .. Len(q) : r[i + 1] = q[i]
  BY InsertAtIs, SMT
<1> HIDE DEF r
<1>2. Len(q) \in Nat /\ DOMAIN q = 1 .. Len(q) /\ DOMAIN r = 1 .. Len(q) + 1
  BY <1>1
<1>3. CASE x < done
  BY <1>3 DEF Held, r
<1>4. CASE ~(x < done)
  <2>1. PICK i \in 1 .. Len(q) : x \in q[i].data .. q[i].data + q[i].len - 1
    BY <1>2, <1>4 DEF Held
  <2>2. PICK j \in 1 .. Len(q) + 1 : r[j] = q[i]
    <3>1. CASE i < pos
      <4>1. i \in 1 .. pos - 1 /\ i \in 1 .. Len(q) + 1
        BY <1>2, <3>1
      <4> QED BY <1>1, <4>1
    <3>2. CASE i >= pos
      <4>1. i \in pos .. Len(q) /\ i + 1 \in 1 .. Len(q) + 1
        BY <1>2, <3>2
      <4> QED BY <1>1, <4>1
    <3> QED BY <1>2, <3>1, <3>2
  <2>3. Held(r, done, x)
    BY <1>2, <2>1, <2>2 DEF Held
  <2> QED BY <2>3 DEF r
<1> QED BY <1>3, <1>4

-----------------------------------------------------------------------------
(* The invariant in a state                                                *)

LEMMA StateFacts ==
  ASSUME IInv
  PROVE  /\ StreamLen \in Nat /\ Done \in 0 .. StreamLen /\ delivered = Run(0, Done)
         /\ rb.list \in Seq(StreamElement(ISN, StreamLen)) /\ Len(rb.list) \in Nat
         /\ Count \in 0 .. Len(rb.list) /\ Joined(rb.list, Count, Done)
         /\ Acked(rb.list, Count, Done) \in Done .. StreamLen
         /\ RecvBytes = Acked(rb.list, Count, Done) - Done
         /\ AckNum = SeqAdd(ISN, Acked(rb.list, Count, Done))
         /\ sliding => Consistent(ISN, StreamLen, rb, Done)
         /\ cuts \in Segments
         /\ Unchanged <=> NoOverlap(cuts)
<1> DEFINE q == rb.list
           n == Count
           a == Acked(q, n, Done)
<1>1. StreamLen \in Nat /\ Done \in 0 .. StreamLen /\ delivered = Run(0, Done)
  <2>1. PICK k \in 0 .. StreamLen : delivered = Run(0, k)
    BY DEF IInv, StreamInv
  <2>2. StreamLen \in Nat
    BY StreamAssumption
  <2>3. Len(Run(0, k)) = k
    BY <2>2 DEF Run
  <2> QED BY <2>1, <2>2, <2>3 DEF Done
<1>2. /\ rb \in StreamBuffer(ISN, StreamLen) /\ q \in Seq(StreamElement(ISN, StreamLen)) /\ Len(q) \in Nat /\ rb.recv_continuous \in 0 .. Len(q)
      /\ n \in 0 .. Len(q) /\ Joined(q, n, Done) /\ Len(q) <= Room /\ rb.read_firstSeqNum = SeqAdd(ISN, Done)
  <2>1. rb \in StreamBuffer(ISN, StreamLen) /\ rb.recv_continuous \in 0 .. Len(q) /\ Joined(q, n, Done)
        /\ Len(q) <= Room /\ rb.read_firstSeqNum = SeqAdd(ISN, Done)
    BY DEF IInv, BufferInv
  <2>2. q \in Seq(StreamElement(ISN, StreamLen))
    BY <2>1 DEF StreamBuffer
  <2>3. Len(q) \in Nat
    BY <2>2
  <2> QED BY <2>1, <2>2, <2>3 DEF Count
<1>3. a \in Done .. StreamLen
  BY <1>1, <1>2, AckedBounds
<1>4. q # <<>> => 1 \in 1 .. Len(q)
  BY <1>2
<1>5. ASSUME NEW i \in 1 .. Len(q) PROVE getNextSeqNum(q[i]) = SeqAdd(ISN, End(q[i]))
  BY <1>2, <1>5, NextSeqNum
<1>6. ASSUME sliding
      PROVE  RecvBytes = a - Done /\ AckNum = SeqAdd(ISN, a) /\ Consistent(ISN, StreamLen, rb, Done)
  <2>1. n = rb.recv_continuous /\ rb.recv_bytes = a - Done
    BY <1>6 DEF Count, IInv, BufferInv
  <2>2. RecvBytes = a - Done
    BY <1>6, <2>1 DEF RecvBytes, getRecvBytes
  <2>3. AckNum = SeqAdd(ISN, a)
    <3>1. CASE n = 0
      BY <1>2, <1>6, <2>1, <3>1 DEF AckNum, getAckNum, Acked
    <3>2. CASE n # 0
      <4>1. n \in 1 .. Len(q)
        BY <1>2, <3>2
      <4> QED BY <1>5, <1>6, <2>1, <3>2, <4>1 DEF AckNum, getAckNum, Acked
    <3> QED BY <3>1, <3>2
  <2>4. Consistent(ISN, StreamLen, rb, Done)
    BY <1>2, <2>1 DEF Consistent
  <2> QED BY <2>2, <2>3, <2>4
<1>7. ASSUME ~sliding
      PROVE  RecvBytes = a - Done /\ AckNum = SeqAdd(ISN, a)
  <2>1. n = Len(q) /\ Len(q) <= 1
    BY <1>2, <1>7 DEF Count, Room
  <2>2. CASE q = <<>>
    <3>1. n = 0 /\ a = Done
      BY <2>1, <2>2 DEF Acked
    <3>2. RecvBytes = 0 /\ AckNum = rb.read_firstSeqNum
      BY <1>7, <2>2 DEF RecvBytes, getRecvBytesSingle, AckNum, getAckNumSingle
    <3> HIDE DEF a
    <3> QED BY <1>1, <1>2, <3>1, <3>2
  <2>3. CASE q # <<>>
    <3>1. n = 1 /\ Len(q) = 1 /\ 1 \in 1 .. Len(q)
      <4> HIDE DEF n, q
      <4> QED BY <1>2, <1>4, <2>1, <2>3
    <3>2. a = End(q[1]) /\ q[1].data = Done
      <4> HIDE DEF n, q
      <4>1. a = End(q[1])
        BY <3>1 DEF Acked
      <4>2. q[1].data = Done
        BY <1>2, <3>1 DEF Joined
      <4> QED BY <4>1, <4>2
    <3>3. RecvBytes = q[1].len /\ AckNum = getNextSeqNum(q[1])
      BY <1>7, <2>3 DEF RecvBytes, getRecvBytesSingle, AckNum, getAckNumSingle
    <3>4. q[1].len \in 1 .. StreamLen /\ End(q[1]) = q[1].data + q[1].len
      BY <1>2, <3>1, ListFacts
    <3>5. a - Done = q[1].len
      BY <1>1, <3>2, <3>4
    <3> QED BY <1>5, <3>1, <3>2, <3>3, <3>5
  <2> QED BY <2>2, <2>3
<1>8. cuts \in Segments
  <2>1. cuts \in Cuttings
    BY DEF IInv, StreamInv
  <2>2. cuts \subseteq (0 .. StreamLen - 1) \X (1 .. StreamLen) /\ \A c \in cuts : c[1] + c[2] <= StreamLen
    BY <2>1, StreamAssumption
  <2> QED BY <2>2 DEF Segments, CutEnd
<1>9. Unchanged <=> NoOverlap(cuts)
  BY DEF Unchanged, NoOverlap, CutEnd
<1>10. sliding \in BOOLEAN
  BY DEF IInv, StreamInv
<1> QED BY <1>1, <1>2, <1>3, <1>6, <1>7, <1>8, <1>9, <1>10

\* RefusedIsDuplicate in terms of Held.
LEMMA RefusedIs ==
  RefusedIsDuplicate <=>
    (Unchanged /\ rejected # None /\ (sliding \/ rejected[1] <= Len(delivered)) =>
        \A x \in rejected[1] .. rejected[1] + rejected[2] - 1 : Held(rb.list, Len(delivered), x))
BY DEF RefusedIsDuplicate, Held

LEMMA InitIInv == Init => IInv
<1> SUFFICES ASSUME Init PROVE IInv
  OBVIOUS
<1>1. StreamLen \in Nat /\ ISN \in SeqNum /\ 0 \in 0 .. StreamLen /\ ISN \in Nat /\ ISN < SEQMOD /\ SEQMOD \in Nat
  BY StreamAssumption, SeqModAssumption DEF SeqNum
<1>2. /\ rb = [list |-> <<>>, recv_continuous |-> 0, recv_bytes |-> 0,
              read_firstSeqNum |-> ISN, pushFlag |-> FALSE]
      /\ delivered = <<>> /\ rejected = None /\ sliding \in BOOLEAN /\ cuts \in Cuttings
  BY DEF Init, setFirstSeqNum, EmptyReceiveBuffer
<1>3. rb.list = <<>> /\ rb.recv_continuous = 0 /\ rb.recv_bytes = 0 /\ rb.read_firstSeqNum = ISN /\ rb \in StreamBuffer(ISN, StreamLen)
  BY <1>1, <1>2 DEF StreamBuffer
<1>4. Len(rb.list) = 0 /\ Done = 0 /\ Count = 0
  BY <1>2, <1>3 DEF Done, Count
<1>5. SeqAdd(ISN, 0) = ISN
  <2>1. 0 \in 0 .. SEQMOD
    BY <1>1
  <2>2. SeqAdd(ISN, 0) = IF ISN + 0 < SEQMOD THEN ISN + 0 ELSE ISN + 0 - SEQMOD
    BY <1>1, <2>1, SeqAddValue
  <2> QED BY <1>1, <2>2
<1>6. delivered = Run(0, 0)
  BY <1>2 DEF Run
<1>7. StreamInv
  BY <1>1, <1>2, <1>6 DEF StreamInv
<1>8. Acked(rb.list, Count, Done) = 0 /\ Joined(rb.list, Count, Done)
  BY <1>4 DEF Acked, Joined
<1>9. BufferInv
  <2>1. Len(rb.list) <= Room
    BY <1>4, ReceiveBufferAssumption DEF Room
  <2> QED BY <1>3, <1>4, <1>5, <1>8, <2>1 DEF BufferInv
<1>10. Ordered(rb.list, Count, Done, cuts)
  <2>1. \A c \in cuts : c[1] \in Nat
    <3>1. cuts \subseteq (0 .. StreamLen - 1) \X (1 .. StreamLen)
      BY <1>2, StreamAssumption
    <3> QED BY <1>1, <3>1
  <2> QED BY <1>4, <1>8, <2>1 DEF Ordered, Sorted, Gap, Whole, Edges
<1>11. RefusedIsDuplicate
  BY <1>2 DEF RefusedIsDuplicate
<1> QED BY <1>7, <1>9, <1>10, <1>11 DEF IInv

-----------------------------------------------------------------------------
(* The steps                                                               *)

\* What the variables that handleData() leaves alone keep true.
LEMMA SameStream ==
  ASSUME IInv, UNCHANGED <<sliding, cuts, delivered>>, rejected' \in cuts \cup {None}
  PROVE  /\ StreamInv' /\ Done' = Done /\ Room' = Room /\ Unchanged' = Unchanged
<1>1. StreamInv
  BY DEF IInv
<1> QED BY <1>1 DEF StreamInv, Done, Room, Unchanged

\* insert() with the sliding window aspect.
LEMMA InsertStep ==
  ASSUME IInv, sliding, NEW cut \in cuts, NEW flags, NEW seg, seg = SegmentOf(cut, flags),
         CanInsert(rb, seg.seq), rb' = insert(rb, seg, seg.seq, seg.len),
         UNCHANGED <<sliding, cuts, delivered, rejected>>
  PROVE  IInv'
<1> DEFINE q == rb.list
           n == rb.recv_continuous
           x == cut[1]
           len == cut[2]
           e == [seqNum |-> SeqAdd(ISN, x), len |-> len, data |-> x]
           pos == InsertPosition(rb, SeqAdd(ISN, x))
           r == InsertAt(q, pos, e)
           m == rb'.recv_continuous
<1>1. /\ StreamLen \in Nat /\ Done \in 0 .. StreamLen /\ q \in Seq(StreamElement(ISN, StreamLen)) /\ Len(q) \in Nat
      /\ Consistent(ISN, StreamLen, rb, Done) /\ cuts \in Segments /\ (Unchanged <=> NoOverlap(cuts)) /\ Count = n
      /\ n \in 0 .. Len(q)
  BY StateFacts DEF Count
<1>2. x \in 0 .. StreamLen - 1 /\ len \in 1 .. StreamLen /\ cut = <<x, len>> /\ x + len <= StreamLen
  <2>1. x \in 0 .. StreamLen - 1 /\ len \in 1 .. StreamLen /\ cut = <<x, len>>
        /\ CutEnd(cut) = x + len /\ CutEnd(cut) \in x + 1 .. StreamLen
    BY <1>1, SegmentFacts
  <2> HIDE DEF x, len
  <2> QED BY <1>1, <2>1
<1>3. seg.seq = SeqAdd(ISN, x) /\ seg.len = len /\ seg.data = x
  BY DEF SegmentOf, Segment
<1>4. CanInsert(rb, SeqAdd(ISN, x))
  BY <1>3
<1>5. /\ pos \in First(rb) .. Len(q) + 1
      /\ \A i \in First(rb) .. pos - 1 : End(q[i]) <= x
      /\ Len(q) < TCP_RECEIVEBUFFER_MAX_PACKETS /\ Done <= x /\ pos > n
      /\ pos <= Len(q) => x < q[pos].data
  BY <1>1, <1>2, <1>4, CanInsertIs
<1>6. pos \in 1 .. Len(q) + 1 /\ Between(q, n, pos, x)
  <2> HIDE DEF pos, x
  <2>1. pos \in n + 1 .. Len(q) + 1
    BY <1>1, <1>5 DEF First
  <2>2. \A i \in (IF n = 0 THEN 1 ELSE n) .. pos - 1 : End(q[i]) <= x
    BY <1>5 DEF First
  <2>3. pos \in 1 .. Len(q) + 1
    BY <1>1, <2>1
  <2> QED BY <1>5, <2>1, <2>2, <2>3 DEF Between
<1> HIDE DEF x, len, pos
<1>7. /\ Consistent(ISN, StreamLen, rb', Done) /\ rb'.list = r /\ r \in Seq(StreamElement(ISN, StreamLen)) /\ e \in StreamElement(ISN, StreamLen)
      /\ m \in n .. Len(r) /\ AtGap(r, m, Done)
  BY <1>1, <1>2, <1>3, <1>4, InsertIs DEF pos, AtGap
<1>8. Len(r) = Len(q) + 1
  <2> HIDE DEF e, q
  <2>1. pos \in 1 .. Len(q) + 1 /\ q \in Seq(StreamElement(ISN, StreamLen)) /\ e \in StreamElement(ISN, StreamLen)
    BY <1>1, <1>6, <1>7
  <2> QED BY <2>1, InsertAtLen
<1> HIDE DEF e, r
<1>9. StreamInv' /\ Done' = Done /\ Room' = Room /\ Unchanged' = Unchanged
  <2>1. rejected' \in cuts \cup {None}
    BY DEF IInv, StreamInv
  <2> QED BY <2>1, SameStream
<1>10. Count' = m /\ sliding'
  BY DEF Count
<1>11. BufferInv'
  <2>1. rb' \in StreamBuffer(ISN, StreamLen) /\ m \in 0 .. Len(rb'.list) /\ rb'.read_firstSeqNum = SeqAdd(ISN, Done)
        /\ Joined(rb'.list, m, Done) /\ rb'.recv_bytes = Acked(rb'.list, m, Done) - Done
    BY <1>7 DEF Consistent
  <2>2. Len(rb'.list) <= Room
    BY <1>1, <1>5, <1>7, <1>8, ReceiveBufferAssumption DEF Room
  <2> QED BY <1>9, <1>10, <2>1, <2>2 DEF BufferInv
<1>12. ASSUME Unchanged PROVE Ordered(r, m, Done, cuts)
  <2>1. Ordered(q, n, Done, cuts) /\ NoOverlap(cuts)
    BY <1>1, <1>12 DEF IInv
  <2>2. e.data = cut[1] /\ e.len = cut[2] /\ Done <= cut[1] /\ Between(q, n, pos, cut[1])
    BY <1>5, <1>6 DEF e, x, len
  <2> QED BY <1>1, <1>7, <2>1, <2>2, InsertOrdered DEF r
<1>13. RefusedIsDuplicate'
  <2>1. RefusedIsDuplicate
    BY DEF IInv
  <2>2. ASSUME NEW y, Held(q, Done, y) PROVE Held(r, Done, y)
    BY <1>1, <1>6, <1>7, <2>2, InsertHeld DEF r
  <2> QED BY <1>7, <1>9, <2>1, <2>2 DEF RefusedIsDuplicate, Held, Done
<1>14. (Unchanged => Ordered(rb.list, Count, Done, cuts))'
  BY <1>7, <1>9, <1>10, <1>12
<1> QED BY <1>9, <1>11, <1>13, <1>14 DEF IInv

\* insert() into the single element.
LEMMA InsertSingleStep ==
  ASSUME IInv, ~sliding, NEW cut \in cuts, NEW flags, NEW seg, seg = SegmentOf(cut, flags),
         CanInsertSingle(rb, seg.seq), rb' = insertSingle(rb, seg, seg.seq, seg.len),
         UNCHANGED <<sliding, cuts, delivered, rejected>>
  PROVE  IInv'
<1> DEFINE x == cut[1]
           len == cut[2]
           e == [seqNum |-> SeqAdd(ISN, x), len |-> len, data |-> x]
<1>1. /\ StreamLen \in Nat /\ Done \in 0 .. StreamLen
      /\ cuts \in Segments /\ (Unchanged <=> NoOverlap(cuts)) /\ Count = Len(rb.list)
  BY StateFacts DEF Count
<1>2. x \in 0 .. StreamLen - 1 /\ len \in 1 .. StreamLen /\ x + len <= StreamLen /\ x \in 0 .. StreamLen
  <2>1. x \in 0 .. StreamLen - 1 /\ len \in 1 .. StreamLen /\ CutEnd(cut) = x + len /\ CutEnd(cut) \in x + 1 .. StreamLen
    BY <1>1, SegmentFacts
  <2> HIDE DEF x, len
  <2> QED BY <1>1, <2>1
<1>3. seg.seq = SeqAdd(ISN, x) /\ seg.len = len /\ seg.data = x
  BY DEF SegmentOf, Segment
<1>4. rb.list = <<>> /\ rb.read_firstSeqNum = SeqAdd(ISN, Done) /\ rb \in StreamBuffer(ISN, StreamLen)
      /\ rb.recv_continuous = 0 /\ rb.recv_bytes = 0
  BY DEF IInv, BufferInv, CanInsertSingle
<1>5. x = Done
  <2>1. SeqAdd(ISN, x) = SeqAdd(ISN, Done)
    BY <1>3, <1>4 DEF CanInsertSingle
  <2> HIDE DEF x
  <2> QED BY <1>1, <1>2, <2>1, StreamCompare
<1>6. e \in StreamElement(ISN, StreamLen) /\ e.data = x /\ e.len = len
  <2> HIDE DEF x, len
  <2>1. SeqAdd(ISN, x) \in SeqNum
    BY <1>2, StreamCompare
  <2> QED BY <1>2, <2>1 DEF StreamElement, End
<1>7. rb' = [rb EXCEPT !.list = <<e>>, !.pushFlag = @ \/ has(seg, "PSH")]
  BY <1>3, Zenon DEF insertSingle
<1>8. has(seg, "PSH") \in BOOLEAN
  BY DEF has
<1> HIDE DEF e
<1>9. /\ rb'.list = <<e>> /\ rb'.recv_continuous = 0 /\ rb'.recv_bytes = 0
      /\ rb'.read_firstSeqNum = rb.read_firstSeqNum /\ rb' \in StreamBuffer(ISN, StreamLen)
  <2> DEFINE l == <<e>>
             p == rb.pushFlag \/ has(seg, "PSH")
  <2>1. rb' = [rb EXCEPT !.list = l, !.pushFlag = p]
    BY <1>7, Zenon
  <2>2. l \in Seq(StreamElement(ISN, StreamLen)) /\ p \in BOOLEAN
    BY <1>6
  <2> HIDE DEF l, p
  <2>3. /\ rb'.list = l /\ rb'.recv_continuous = rb.recv_continuous /\ rb'.recv_bytes = rb.recv_bytes
        /\ rb'.read_firstSeqNum = rb.read_firstSeqNum
    BY <1>4, <2>1, <2>2 DEF StreamBuffer
  <2>4. rb' \in StreamBuffer(ISN, StreamLen)
    BY <1>4, <2>1, <2>2 DEF StreamBuffer
  <2> QED BY <1>4, <2>3, <2>4 DEF l
<1>10. Len(<<e>>) = 1 /\ <<e>>[1] = e /\ <<e>> \in Seq(StreamElement(ISN, StreamLen))
  BY <1>6
<1>11. StreamInv' /\ Done' = Done /\ Room' = Room /\ Unchanged' = Unchanged
  <2>1. rejected' \in cuts \cup {None}
    BY DEF IInv, StreamInv
  <2> QED BY <2>1, SameStream
<1>12. Count' = 1 /\ ~sliding' /\ Room = 1
  BY <1>9, <1>10 DEF Count, Room
<1>13. Joined(<<e>>, 1, Done)
  BY <1>5, <1>6, <1>10 DEF Joined, Contiguous
<1>14. BufferInv'
  BY <1>4, <1>9, <1>10, <1>11, <1>12, <1>13 DEF BufferInv
<1>15. ASSUME Unchanged PROVE Ordered(<<e>>, 1, Done, cuts)
  <2>1. Sorted(<<e>>) /\ Gap(<<e>>, 1, Done) /\ Whole(<<e>>, 1, cuts)
    BY <1>10 DEF Sorted, Gap, Whole
  <2>2. Acked(<<e>>, 1, Done) = CutEnd(cut)
    BY <1>6, <1>10 DEF Acked, End, CutEnd
  <2>3. ASSUME NEW c \in cuts, c[1] < CutEnd(cut) PROVE CutEnd(c) <= CutEnd(cut)
    <3>1. c = cut \/ CutEnd(c) <= cut[1] \/ CutEnd(cut) <= c[1]
      BY <1>1, <1>15 DEF NoOverlap
    <3>2. c[1] \in 0 .. StreamLen - 1 /\ cut[1] \in 0 .. StreamLen - 1
          /\ CutEnd(cut) \in cut[1] + 1 .. StreamLen /\ CutEnd(c) \in c[1] + 1 .. StreamLen
      BY <1>1, SegmentFacts
    <3> QED BY <1>1, <2>3, <3>1, <3>2
  <2> QED BY <2>1, <2>2, <2>3 DEF Ordered, Edges
<1>16. RefusedIsDuplicate'
  <2>1. RefusedIsDuplicate
    BY DEF IInv
  <2>2. DOMAIN rb.list = {}
    BY <1>4
  <2> QED BY <1>11, <2>1, <2>2 DEF RefusedIsDuplicate
<1>17. (Unchanged => Ordered(rb.list, Count, Done, cuts))'
  BY <1>9, <1>11, <1>12, <1>15
<1> QED BY <1>11, <1>14, <1>16, <1>17 DEF IInv

LEMMA SingleFree ==
  ASSUME IInv, ~sliding, Len(rb.list) # Room
  PROVE  Len(rb.list) = 0 /\ rb.list = <<>> /\ Count = 0
<1>1. rb.list \in Seq(StreamElement(ISN, StreamLen)) /\ Len(rb.list) \in Nat
  BY StateFacts
<1>2. Len(rb.list) <= 1 /\ Len(rb.list) # 1 /\ Count = Len(rb.list)
  BY DEF IInv, BufferInv, Room, Count
<1>3. Len(rb.list) = 0
  <2> DEFINE l == Len(rb.list)
  <2>1. l \in Nat /\ l <= 1 /\ l # 1
    BY <1>1, <1>2
  <2> HIDE DEF l
  <2>2. l = 0
    BY <2>1
  <2> QED BY <2>2 DEF l
<1> QED BY <1>1, <1>2, <1>3

\* insert() refuses: the caller frees the segment.
LEMMA RefuseStep ==
  ASSUME IInv, NEW cut \in cuts, ~Acceptable(SeqAdd(ISN, cut[1])),
         rejected' = IF Len(rb.list) = Room THEN None ELSE cut,
         UNCHANGED <<sliding, cuts, rb, delivered>>
  PROVE  IInv'
<1> DEFINE q == rb.list
<1>1. /\ StreamLen \in Nat /\ Done \in 0 .. StreamLen /\ q \in Seq(StreamElement(ISN, StreamLen)) /\ Len(q) \in Nat
      /\ Count \in 0 .. Len(q) /\ Joined(q, Count, Done)
      /\ (sliding => Consistent(ISN, StreamLen, rb, Done)) /\ cuts \in Segments /\ (Unchanged <=> NoOverlap(cuts))
  BY StateFacts
<1>2. StreamInv' /\ Done' = Done /\ Room' = Room /\ Unchanged' = Unchanged
  BY SameStream
<1>3. BufferInv' /\ Count' = Count
  <2>1. BufferInv
    BY DEF IInv
  <2> QED BY <1>2, <2>1 DEF BufferInv, Count
<1>4. (Unchanged => Ordered(rb.list, Count, Done, cuts))'
  BY <1>2, <1>3 DEF IInv
<1>5. RefusedIsDuplicate'
  <2> SUFFICES ASSUME Unchanged, rejected' # None, sliding \/ rejected'[1] <= Done,
                      NEW x \in rejected'[1] .. rejected'[1] + rejected'[2] - 1
               PROVE  Held(q, Done, x)
    BY <1>2 DEF RefusedIsDuplicate, Held, Done
  <2>1. Len(q) # Room /\ Len(q) <= Room /\ rejected' = cut
    BY DEF IInv, BufferInv
  <2>2. Ordered(q, Count, Done, cuts) /\ NoOverlap(cuts)
    BY <1>1 DEF IInv
  <2>3. CASE sliding
    <3>1. Len(q) < TCP_RECEIVEBUFFER_MAX_PACKETS /\ ~CanInsert(rb, SeqAdd(ISN, cut[1])) /\ Count = rb.recv_continuous
      BY <1>1, <2>1, <2>3, ReceiveBufferAssumption DEF Room, Acceptable, Count
    <3> QED BY <1>1, <2>1, <2>2, <2>3, <3>1, RefusedHeld
  <2>4. CASE ~sliding
    <3>1. Len(q) = 0 /\ q = <<>> /\ Count = 0
      BY <2>1, <2>4, SingleFree
    <3>2. cut[1] # Done
      <4>1. rb.read_firstSeqNum = SeqAdd(ISN, Done)
        BY DEF IInv, BufferInv
      <4> QED BY <2>4, <3>1, <4>1 DEF Acceptable, CanInsertSingle
    <3>3. cut[1] \in Int
      <4>1. cut[1] \in 0 .. StreamLen - 1
        BY <1>1, SegmentFacts
      <4> QED BY <1>1, <4>1
    <3>4. cut[1] < Acked(q, Count, Done)
      BY <1>1, <2>1, <2>4, <3>1, <3>2, <3>3 DEF Acked
    <3> QED BY <1>1, <2>1, <2>2, <3>4, BeforeAcked
  <2> QED BY <2>3, <2>4
<1> QED BY <1>2, <1>3, <1>4, <1>5 DEF IInv

LEMMA HandleDataStep ==
  ASSUME IInv, NEW cut \in cuts, NEW flags, handleData(cut, flags)
  PROVE  IInv'
<1> DEFINE seg == SegmentOf(cut, flags)
<1>1. seg.seq = SeqAdd(ISN, cut[1])
  BY DEF SegmentOf, Segment
<1>2. CASE Acceptable(seg.seq)
  <2>1. /\ rb' = IF sliding THEN insert(rb, seg, seg.seq, seg.len) ELSE insertSingle(rb, seg, seg.seq, seg.len)
        /\ UNCHANGED <<sliding, cuts, delivered, rejected>>
    BY <1>2, Zenon DEF handleData
  <2>2. CASE sliding
    <3>1. CanInsert(rb, seg.seq) /\ rb' = insert(rb, seg, seg.seq, seg.len)
      BY <1>2, <2>1, <2>2, Zenon DEF Acceptable
    <3> HIDE DEF seg
    <3> QED BY <2>1, <2>2, <3>1, InsertStep DEF seg
  <2>3. CASE ~sliding
    <3>1. CanInsertSingle(rb, seg.seq) /\ rb' = insertSingle(rb, seg, seg.seq, seg.len)
      BY <1>2, <2>1, <2>3, Zenon DEF Acceptable
    <3> QED BY <2>1, <2>3, <3>1, InsertSingleStep
  <2> QED BY <2>2, <2>3
<1>3. CASE ~Acceptable(seg.seq)
  <2>1. /\ rejected' = IF Len(rb.list) = Room THEN None ELSE cut
        /\ UNCHANGED <<sliding, cuts, rb, delivered>>
    BY <1>3, Zenon DEF handleData
  <2> QED BY <1>1, <1>3, <2>1, RefuseStep
<1> QED BY <1>2, <1>3

\* The single element after a read, as a list.
LEMMA AdvanceSingle ==
  ASSUME NEW q \in Seq(StreamElement(ISN, StreamLen)), Len(q) = 1, NEW done \in 0 .. StreamLen, q[1].data = done,
         NEW len \in Nat, 0 < len, NEW k, NEW part, Consuming(q, 1, done, len, k, part)
  PROVE  Advance(q, k, part) = IF q[1].len = len THEN <<>> ELSE <<increment(q[1], len)>>
<1>1. StreamLen \in Nat /\ q[1].len \in Nat /\ End(q[1]) = q[1].data + q[1].len
  <2>1. StreamLen \in Nat /\ 1 \in 1 .. Len(q)
    BY StreamAssumption
  <2>2. q[1].len \in 1 .. StreamLen /\ End(q[1]) = q[1].data + q[1].len
    BY <2>1, ListFacts
  <2> QED BY <2>1, <2>2
<1>4. /\ k \in 0 .. 1 /\ part \in Nat
      /\ k < 1 => q[k + 1].data + part = done + len /\ part < q[k + 1].len
      /\ k = 1 => part = 0 /\ done + len = End(q[1])
  BY DEF Consuming, Acked
<1>2. CASE k = 1
  <2>1. part = 0 /\ len = q[1].len
    BY <1>1, <1>2, <1>4
  <2>2. SubSeq(q, 1 + 1, Len(q)) = <<>>
    OBVIOUS
  <2> QED BY <1>2, <2>1, <2>2 DEF Advance
<1>3. CASE k = 0
  <2>1. part = len /\ len # q[1].len /\ part > 0
    BY <1>1, <1>3, <1>4
  <2>2. SubSeq(q, 0 + 1, Len(q)) = q /\ q # <<>>
    <3>1. SubSeq(q, 1, Len(q)) = q
      OBVIOUS
    <3>2. q # <<>>
      <4>1. Len(<<>>) # 1
        OBVIOUS
      <4> QED BY <4>1
    <3> QED BY <3>1, <3>2
  <2>3. Advance(q, 0, len) = [q EXCEPT ![1] = increment(q[1], len)]
    BY <2>1, <2>2 DEF Advance
  <2>4. [q EXCEPT ![1] = increment(q[1], len)] = <<increment(q[1], len)>>
    <3> DEFINE h == increment(q[1], len)
    <3> HIDE DEF h
    <3>1. [q EXCEPT ![1] = h] = <<h>>
      OBVIOUS
    <3> QED BY <3>1 DEF h
  <2> QED BY <1>3, <2>1, <2>3, <2>4
<1> QED BY <1>2, <1>3, <1>4

LEMMA ReadStep ==
  ASSUME IInv, NEW len \in 1 .. StreamLen, Read(len)
  PROVE  IInv'
<1> DEFINE q == rb.list
           n == Count
           a == Acked(q, n, Done)
           k == Consumed(rb, len)
           part == Remainder(rb, len)
           p == Advance(q, k, part)
           m == n - k
           d == Done + len
<1>1. /\ StreamLen \in Nat /\ Done \in 0 .. StreamLen /\ delivered = Run(0, Done)
      /\ q \in Seq(StreamElement(ISN, StreamLen)) /\ Len(q) \in Nat /\ n \in 0 .. Len(q) /\ Joined(q, n, Done)
      /\ a \in Done .. StreamLen /\ RecvBytes = a - Done /\ cuts \in Segments
  BY StateFacts
<1>2. /\ len <= RecvBytes /\ rejected' = None /\ UNCHANGED <<sliding, cuts>>
      /\ rb' = IF sliding THEN copyData(rb, len) ELSE copyDataSingle(rb, len)
      /\ delivered' = delivered \o copiedBytes(rb, len)
  BY Zenon DEF Read
<1>3. len \in Nat /\ 0 < len /\ d <= a /\ d \in 0 .. StreamLen
  <2> HIDE DEF a
  <2> QED BY <1>1, <1>2
<1>4. n \in 1 .. Len(q)
  <2>1. n # 0
    <3> SUFFICES ASSUME n = 0 PROVE FALSE
      OBVIOUS
    <3>1. a = Done
      BY DEF Acked
    <3> HIDE DEF a
    <3> QED BY <1>1, <1>3, <3>1
  <2> HIDE DEF n
  <2> QED BY <1>1, <2>1
<1>5. Consuming(q, n, Done, len, k, part) /\ copiedBytes(rb, len) = Run(Done, len)
  BY <1>1, <1>3, <1>4, ConsumedContinuous
<1> HIDE DEF k, part, n
<1>14. k \in 0 .. n /\ part \in Nat
  BY <1>3, <1>5 DEF Consuming
<1>6. /\ p \in Seq(StreamElement(ISN, StreamLen)) /\ Len(p) = Len(q) - k /\ m \in 0 .. Len(p)
      /\ Joined(p, m, d) /\ Acked(p, m, d) = a
      /\ \A segs \in Segments : Ordered(q, n, Done, segs) => Ordered(p, m, d, segs)
  <2>1. /\ q \in Seq(StreamElement(ISN, StreamLen)) /\ n \in 0 .. Len(q) /\ Done \in 0 .. StreamLen
        /\ Joined(q, n, Done) /\ len \in Nat /\ m = n - k /\ d = Done + len /\ p = Advance(q, k, part)
    BY <1>1, <1>3
  <2> HIDE DEF q, p, m, d
  <2>2. /\ p \in Seq(StreamElement(ISN, StreamLen)) /\ Len(p) = Len(q) - k /\ m \in 0 .. Len(p)
        /\ Joined(p, m, d) /\ Acked(p, m, d) = Acked(q, n, Done)
    BY <1>5, <2>1, AdvanceJoined
  <2>3. \A segs \in Segments : Ordered(q, n, Done, segs) => Ordered(p, m, d, segs)
    BY <1>5, <2>1, AdvanceOrdered
  <2> QED BY <2>2, <2>3 DEF a
<1> HIDE DEF p, a
<1>7. delivered' = Run(0, d) /\ Done' = d
  <2>1. Run(0, Done) \o Run(0 + Done, len) = Run(0, Done + len)
    <3>1. Done \in Nat /\ 0 \in Nat
      BY <1>1
    <3> QED BY <1>3, <3>1, RunConcat
  <2>2. delivered' = Run(0, d)
    <3>1. 0 + Done = Done
      BY <1>1
    <3> QED BY <1>1, <1>2, <1>5, <2>1, <3>1
  <2>3. Len(Run(0, d)) = d
    BY <1>1, <1>3 DEF Run
  <2> QED BY <2>2, <2>3 DEF Done
<1> HIDE DEF d
<1>8. StreamInv'
  <2>1. sliding \in BOOLEAN /\ cuts \in Cuttings
    BY DEF IInv, StreamInv
  <2> QED BY <1>2, <1>3, <1>7, <2>1 DEF StreamInv
<1>9. SeqAdd(SeqAdd(ISN, Done), len) = SeqAdd(ISN, d) /\ SeqAdd(ISN, d) \in SeqNum
  <2>1. Done + len <= StreamLen
    BY <1>1, <1>3 DEF d
  <2> QED BY <1>1, <1>3, <2>1, StreamAdd, StreamCompare DEF d
<1>10. rb \in StreamBuffer(ISN, StreamLen) /\ Len(q) <= Room /\ rb.read_firstSeqNum = SeqAdd(ISN, Done)
  BY DEF IInv, BufferInv
<1>11. BufferInv' /\ rb'.list = p /\ Count' = m
  <2>1. CASE sliding
    <3>1. n = rb.recv_continuous /\ rb.recv_bytes = a - Done
      BY <2>1 DEF n, a, Count, IInv, BufferInv
    <3>2. rb' = copyData(rb, len)
      BY <1>2, <2>1
    <3>3. /\ rb'.list = p /\ rb'.recv_bytes = rb.recv_bytes - len
          /\ rb'.recv_continuous = IF n <= k THEN 0 ELSE m
          /\ rb'.read_firstSeqNum = SeqAdd(rb.read_firstSeqNum, len)
      BY <3>1, <3>2 DEF copyData, p, Advance, k, part
    <3>4. rb'.recv_continuous = m
      BY <1>1, <1>4, <1>14, <3>3
    <3>5. rb'.recv_bytes = a - d /\ a - d \in Nat
      BY <1>1, <1>3, <3>1, <3>3 DEF d
    <3>6. rb' \in StreamBuffer(ISN, StreamLen)
      <4>1. rb' = [list |-> rb'.list, recv_continuous |-> rb'.recv_continuous, recv_bytes |-> rb'.recv_bytes,
                   read_firstSeqNum |-> rb'.read_firstSeqNum, pushFlag |-> rb'.pushFlag]
            /\ rb'.pushFlag \in BOOLEAN
        BY <3>2 DEF copyData
      <4>2. m \in Nat
        BY <1>6
      <4> QED BY <1>6, <1>9, <1>10, <3>3, <3>4, <3>5, <4>1, <4>2 DEF StreamBuffer
    <3>7. Count' = m /\ sliding' /\ Room' = Room
      BY <1>2, <2>1, <3>4 DEF Count, Room
    <3>8. Len(p) <= Room
      BY <1>1, <1>6, <1>10, <1>14, <2>1, ReceiveBufferAssumption DEF Room
    <3> QED BY <1>6, <1>7, <1>9, <1>10, <3>3, <3>4, <3>5, <3>6, <3>7, <3>8 DEF BufferInv
  <2>2. CASE ~sliding
    <3>1. n = Len(q) /\ n = 1 /\ rb.recv_continuous = 0 /\ rb.recv_bytes = 0
      <4>1. n = Len(q) /\ Len(q) <= 1 /\ rb.recv_continuous = 0 /\ rb.recv_bytes = 0
        BY <2>2 DEF n, Count, Room, IInv, BufferInv
      <4> HIDE DEF q
      <4>2. n = 1
        BY <1>1, <1>4, <4>1
      <4> QED BY <4>1, <4>2
    <3>2. q[1].data = Done /\ a = End(q[1])
      BY <1>1, <3>1 DEF Joined, a, Acked
    <3>3. p = IF q[1].len = len THEN <<>> ELSE <<increment(q[1], len)>>
      <4>1. Len(q) = 1 /\ Consuming(q, 1, Done, len, k, part)
        BY <1>5, <3>1
      <4> HIDE DEF q
      <4> QED BY <1>1, <1>3, <3>2, <4>1, AdvanceSingle DEF p
    <3> DEFINE w == q[1].len = len
               f == rb.pushFlag /\ ~w
    <3>4. rb' = [rb EXCEPT !.read_firstSeqNum = SeqAdd(@, len),
                           !.list = IF w THEN <<>> ELSE <<increment(@[1], len)>>,
                           !.pushFlag = @ /\ ~w]
      BY <1>2, <2>2, Zenon DEF copyDataSingle
    <3>5. rb' = [rb EXCEPT !.read_firstSeqNum = SeqAdd(ISN, d), !.list = p, !.pushFlag = f]
      <4>1. SeqAdd(rb.read_firstSeqNum, len) = SeqAdd(ISN, d)
        BY <1>9, <1>10
      <4>2. (IF w THEN <<>> ELSE <<increment(rb.list[1], len)>>) = p
        BY <3>3
      <4> QED BY <3>4, <4>1, <4>2, Zenon
    <3>6. f \in BOOLEAN
      OBVIOUS
    <3> HIDE DEF f
    <3>7. /\ rb'.list = p /\ rb'.recv_continuous = rb.recv_continuous /\ rb'.recv_bytes = rb.recv_bytes
          /\ rb'.read_firstSeqNum = SeqAdd(ISN, d)
      BY <1>10, <3>5 DEF StreamBuffer
    <3>8. rb' \in StreamBuffer(ISN, StreamLen)
      BY <1>6, <1>9, <1>10, <3>5, <3>6 DEF StreamBuffer
    <3>9. Count' = m /\ ~sliding' /\ Room' = Room
      BY <1>2, <1>6, <2>2, <3>1, <3>7 DEF Count, Room
    <3>10. Len(p) <= Room
      BY <1>1, <1>6, <1>10, <1>14, <2>2 DEF Room
    <3>11. 0 \in 0 .. Len(p)
      BY <1>6
    <3> QED BY <1>6, <1>7, <3>1, <3>7, <3>8, <3>9, <3>10, <3>11 DEF BufferInv
  <2> QED BY <2>1, <2>2
<1>12. (Unchanged => Ordered(rb.list, Count, Done, cuts))'
  <2>1. Unchanged' = Unchanged
    BY <1>2 DEF Unchanged
  <2>2. Unchanged => Ordered(q, n, Done, cuts)
    BY DEF IInv, n
  <2> QED BY <1>1, <1>2, <1>6, <1>7, <1>11, <2>1, <2>2
<1>13. RefusedIsDuplicate'
  BY <1>2 DEF RefusedIsDuplicate
<1> QED BY <1>8, <1>11, <1>12, <1>13 DEF IInv

LEMMA NextIInv == IInv /\ [Next]_vars => IInv'
<1> SUFFICES ASSUME IInv, [Next]_vars PROVE IInv'
  OBVIOUS
<1>1. ASSUME NEW cut \in cuts, NEW flags \in {{}, {"PSH"}}, handleData(cut, flags) PROVE IInv'
  BY <1>1, HandleDataStep
<1>2. ASSUME NEW len \in 1 .. StreamLen, Read(len) PROVE IInv'
  BY <1>2, ReadStep
<1>3. CASE UNCHANGED vars
  <2>1. StreamInv' /\ Done' = Done /\ Room' = Room /\ Unchanged' = Unchanged
    BY <1>3 DEF IInv, StreamInv, Done, Room, Unchanged, vars
  <2>2. Count' = Count
    BY <1>3 DEF Count, vars
  <2>3. BufferInv'
    BY <1>3, <2>1, <2>2 DEF IInv, BufferInv, vars
  <2>4. RefusedIsDuplicate'
    BY <1>3, <2>1 DEF IInv, RefusedIsDuplicate, vars
  <2>5. (Unchanged => Ordered(rb.list, Count, Done, cuts))'
    BY <1>3, <2>1, <2>2 DEF IInv, vars
  <2> QED BY <2>1, <2>3, <2>4, <2>5 DEF IInv
<1> QED BY <1>1, <1>2, <1>3 DEF Next

\* The inductive invariant holds in every reachable state of either build,
\* against every peer.
THEOREM StreamInvariant == Spec => []IInv
BY InitIInv, NextIInv, PTL DEF Spec

-----------------------------------------------------------------------------
(* What follows from the invariant                                         *)

\* Every field of the receive buffer keeps its type; the list never has more
\* elements than the free list.
THEOREM StreamType == Spec => []TypeOK
<1>1. ASSUME IInv PROVE TypeOK
  <2>1. /\ StreamLen \in Nat /\ Done \in 0 .. StreamLen /\ rb.list \in Seq(StreamElement(ISN, StreamLen))
        /\ Acked(rb.list, Count, Done) \in Done .. StreamLen
    BY <1>1, StateFacts
  <2>2. /\ rb \in StreamBuffer(ISN, StreamLen) /\ Len(rb.list) <= Room /\ rb.recv_continuous \in 0 .. Len(rb.list)
        /\ rb.recv_bytes = (IF sliding THEN Acked(rb.list, Count, Done) - Done ELSE 0)
        /\ sliding \in BOOLEAN /\ rejected \in cuts \cup {None}
    BY <1>1 DEF IInv, BufferInv, StreamInv
  <2>3. rb.recv_bytes \in 0 .. StreamLen
    BY <2>1, <2>2
  <2>4. \A i \in DOMAIN rb.list :
           rb.list[i].seqNum \in SeqNum /\ rb.list[i].len \in 1 .. StreamLen /\ rb.list[i].data \in 0 .. StreamLen - 1
    <3>1. \A i \in DOMAIN rb.list : rb.list[i] \in StreamElement(ISN, StreamLen)
      BY <2>1
    <3> QED BY <3>1, ElementFacts
  <2>5. rb.read_firstSeqNum \in SeqNum /\ rb.pushFlag \in BOOLEAN
    BY <2>2 DEF StreamBuffer
  <2> QED BY <2>2, <2>3, <2>4, <2>5 DEF TypeOK
<1> QED BY <1>1, StreamInvariant, PTL

\* copyData() hands every byte of the stream to the application once and in order.
THEOREM StreamOrder == Spec => []StreamInOrder
<1>1. ASSUME IInv PROVE StreamInOrder
  <2>1. StreamLen \in Nat /\ Done \in 0 .. StreamLen /\ delivered = Run(0, Done)
    BY <1>1, StateFacts
  <2>2. \A i \in 1 .. Done : Run(0, Done)[i] = i - 1
    BY <2>1 DEF Run
  <2>3. DOMAIN delivered = 1 .. Done
    BY <2>1 DEF Run
  <2> QED BY <2>1, <2>2, <2>3 DEF StreamInOrder
<1> QED BY <1>1, StreamInvariant, PTL

\* recv_bytes, kept incrementally by insert() and copyData(), is the number
\* of continuous bytes in the list and the distance of the two ends.
THEOREM StreamBytes == Spec => []RecvBytesExact
<1>1. ASSUME IInv PROVE RecvBytesExact
  <2> DEFINE q == rb.list
             a == Acked(q, Count, Done)
  <2>1. /\ StreamLen \in Nat /\ Done \in 0 .. StreamLen /\ q \in Seq(StreamElement(ISN, StreamLen)) /\ Len(q) \in Nat
        /\ Count \in 0 .. Len(q) /\ Joined(q, Count, Done) /\ a \in Done .. StreamLen
        /\ RecvBytes = a - Done /\ AckNum = SeqAdd(ISN, a)
    BY <1>1, StateFacts
  <2>2. Continuous = SubSeq(q, 1, Count)
    <3>1. SubSeq(q, 1, Len(q)) = q
      BY <2>1
    <3> QED BY <3>1 DEF Continuous, Count
  <2>3. Bytes(SubSeq(q, 1, Count)) = a - Done
    <3>1. CASE Count = 0
      <4>1. a = Done /\ Bytes(SubSeq(q, 1, 0)) = 0
        BY <2>1, <3>1, ListFacts, BytesPrefix DEF Acked
      <4> HIDE DEF a
      <4> QED BY <2>1, <3>1, <4>1
    <3>2. CASE Count # 0
      <4>1. Count > 0
        BY <2>1, <3>2
      <4> QED BY <2>1, <4>1, AckedBounds
    <3> QED BY <3>1, <3>2
  <2> HIDE DEF a
  <2>4. rb.read_firstSeqNum = SeqAdd(ISN, Done)
    BY <1>1 DEF IInv, BufferInv
  <2>5. a \in 0 .. StreamLen /\ a >= Done
    BY <2>1
  <2>6. SeqDiff(SeqAdd(ISN, a), SeqAdd(ISN, Done)) = a - Done
    BY <2>1, <2>5, StreamCompare
  <2> QED BY <2>1, <2>2, <2>3, <2>4, <2>6 DEF RecvBytesExact
<1> QED BY <1>1, StreamInvariant, PTL

\* What getAckNum() acknowledges and the application has not read is in the
\* list, in order and without a hole.
THEOREM StreamBuffered == Spec => []AckedBytesBuffered
<1>1. ASSUME IInv PROVE AckedBytesBuffered
  <2> DEFINE q == rb.list
             n == Count
             a == Acked(q, n, Done)
             pieces == [i \in DOMAIN Continuous |-> BytesOf(Continuous[i], Continuous[i].len)]
  <2>1. /\ StreamLen \in Nat /\ Done \in 0 .. StreamLen /\ q \in Seq(StreamElement(ISN, StreamLen)) /\ Len(q) \in Nat
        /\ n \in 0 .. Len(q) /\ Joined(q, n, Done) /\ RecvBytes = a - Done
    BY <1>1, StateFacts
  <2>2. Continuous = SubSeq(q, 1, n)
    <3>1. SubSeq(q, 1, Len(q)) = q
      BY <2>1
    <3> QED BY <3>1 DEF Continuous, Count
  <2> HIDE DEF n, q
  <2>3. DOMAIN Continuous = 1 .. n /\ \A i \in 1 .. n : Continuous[i] = q[i]
    BY <2>1, <2>2
  <2>4. pieces = [i \in 1 .. n |-> BytesOf(q[i], q[i].len)]
    BY <2>3
  <2> HIDE DEF pieces
  <2>5. FlattenSeq(pieces) = Run(Done, a - Done)
    <3>1. CASE n = 0
      <4>1. pieces = <<>> /\ Len(pieces) = 0
        BY <2>4, <3>1
      <4>2. a - Done = 0
        BY <2>1, <3>1 DEF Acked
      <4>3. Run(Done, 0) = <<>>
        BY DEF Run
      <4>4. FlattenSeq(pieces) = <<>>
        BY <4>1 DEF FlattenSeq
      <4> HIDE DEF a
      <4> QED BY <4>2, <4>3, <4>4
    <3>2. CASE n # 0
      <4>1. n \in 1 .. Len(q) /\ n > 0
        BY <2>1, <3>2
      <4>2. q \in Seq(Element) /\ Contiguous(q, 1, n) /\ q[1].data = Done
        BY <2>1, <4>1, ListFacts DEF Joined
      <4>3. FlattenSeq(pieces) = Run(q[1].data, (q[n].data + q[n].len) - q[1].data)
        BY <2>4, <4>1, <4>2, FlattenContiguous
      <4> QED BY <3>2, <4>2, <4>3 DEF Acked, End
    <3> QED BY <3>1, <3>2
  <2>6. rb.read_firstSeqNum = SeqAdd(ISN, Len(delivered))
    BY <1>1 DEF IInv, BufferInv, Done
  <2>7. FlattenSeq(pieces) = [i \in 1 .. RecvBytes |-> Len(delivered) + i - 1]
    <3> HIDE DEF a
    <3> QED BY <2>1, <2>5 DEF Run, Done
  <2> QED BY <2>6, <2>7, Zenon DEF AckedBytesBuffered, pieces
<1> QED BY <1>1, StreamInvariant, PTL

\* Against a peer that retransmits its segments unchanged insert() accepts
\* the segment at getAckNum() whenever a list element is free: what is
\* buffered ahead of a gap never blocks the segment that fills the gap.
THEOREM StreamGoesOn == Spec => []NextSegmentAcceptable
<1>1. ASSUME IInv PROVE NextSegmentAcceptable
  <2> SUFFICES ASSUME Unchanged, Len(rb.list) < Room PROVE Acceptable(AckNum)
    BY DEF NextSegmentAcceptable
  <2> DEFINE q == rb.list
             n == Count
             a == Acked(q, n, Done)
             pos == InsertPosition(rb, SeqAdd(ISN, a))
  <2>1. /\ StreamLen \in Nat /\ Done \in 0 .. StreamLen /\ q \in Seq(StreamElement(ISN, StreamLen)) /\ Len(q) \in Nat
        /\ n \in 0 .. Len(q) /\ Joined(q, n, Done) /\ a \in Done .. StreamLen /\ AckNum = SeqAdd(ISN, a)
        /\ (sliding => Consistent(ISN, StreamLen, rb, Done)) /\ rb.read_firstSeqNum = SeqAdd(ISN, Done)
    BY <1>1, StateFacts DEF IInv, BufferInv
  <2>2. CASE sliding
    <3>1. n = rb.recv_continuous /\ Room = TCP_RECEIVEBUFFER_MAX_PACKETS
      BY <2>2 DEF Count, Room
    <3>2. Ordered(q, n, Done, cuts)
      BY <1>1 DEF IInv
    <3>3. \A i \in 1 .. Len(q) : q[i] \in StreamElement(ISN, StreamLen) /\ q[i].seqNum = SeqAdd(ISN, q[i].data)
             /\ q[i].data \in 0 .. StreamLen /\ End(q[i]) \in 0 .. StreamLen
             /\ getNextSeqNum(q[i]) = SeqAdd(ISN, End(q[i])) /\ q[i].data < End(q[i])
      <4> TAKE i \in 1 .. Len(q)
      <4>1. q[i] \in StreamElement(ISN, StreamLen) /\ q[i].seqNum = SeqAdd(ISN, q[i].data)
            /\ q[i].data \in 0 .. StreamLen - 1 /\ End(q[i]) \in q[i].data + 1 .. StreamLen
        BY <2>1, ListFacts
      <4>2. getNextSeqNum(q[i]) = SeqAdd(ISN, End(q[i]))
        BY <4>1, NextSeqNum
      <4> QED BY <2>1, <4>1, <4>2
    <3>4. /\ pos \in First(rb) .. Len(q) + 1
          /\ pos <= Len(q) => SEQ_LT(SeqAdd(ISN, a), getNextSeqNum(q[pos]))
      <4>1. q \in Seq(Element)
        BY <2>1, ListFacts
      <4> QED BY <2>1, <3>1, <4>1, InsertPositionIs
    <3>5. a \in 0 .. StreamLen /\ a >= Done /\ First(rb) = (IF n = 0 THEN 1 ELSE n)
      BY <2>1, <3>1 DEF First
    <3> HIDE DEF pos, n, q
    <3>6. ASSUME pos <= Len(q) PROVE ~SEQ_GEQ(SeqAdd(ISN, a), q[pos].seqNum) /\ pos # n
      <4>1. pos \in 1 .. Len(q) /\ pos >= n
        BY <2>1, <3>4, <3>5, <3>6
      <4>2. a < End(q[pos])
        BY <3>3, <3>4, <3>5, <3>6, <4>1, StreamCompare
      <4>3. pos # n
        <5> SUFFICES ASSUME pos = n PROVE FALSE
          OBVIOUS
        <5>1. a = End(q[pos])
          BY <4>1 DEF Acked
        <5> QED BY <2>1, <3>5, <4>2, <5>1
      <4>4. a < q[n + 1].data /\ n + 1 \in 1 .. Len(q)
        <5>1. n < Len(q)
          BY <2>1, <4>1, <4>3
        <5> QED BY <2>1, <3>2, <5>1 DEF Ordered, Gap
      <4>5. q[n + 1].data <= q[pos].data
        <5>1. CASE pos = n + 1
          BY <3>3, <4>1, <5>1
        <5>2. CASE pos # n + 1
          <6>1. n + 1 < pos
            BY <2>1, <4>1, <4>3, <5>2
          <6>2. End(q[n + 1]) <= q[pos].data
            BY <3>2, <4>1, <4>4, <6>1 DEF Ordered, Sorted
          <6> QED BY <2>1, <3>3, <4>1, <4>4, <6>2, SMTT(30)
        <5> QED BY <5>1, <5>2
      <4>6. ~(a >= q[pos].data) /\ q[pos].data \in 0 .. StreamLen /\ q[pos].seqNum = SeqAdd(ISN, q[pos].data)
        <5> HIDE DEF a
        <5> QED BY <2>1, <3>3, <3>5, <4>1, <4>4, <4>5
      <4>7. ~SEQ_GEQ(SeqAdd(ISN, a), q[pos].seqNum)
        <5> HIDE DEF a
        <5>1. SEQ_GEQ(SeqAdd(ISN, a), SeqAdd(ISN, q[pos].data)) <=> a >= q[pos].data
          BY <3>5, <4>6, StreamCompare
        <5> QED BY <4>6, <5>1
      <4> QED BY <4>3, <4>7
    <3>7. ~SEQ_LT(SeqAdd(ISN, a), rb.read_firstSeqNum)
      <4> HIDE DEF a
      <4>1. ~(a < Done)
        BY <2>1, <3>5
      <4> QED BY <2>1, <3>5, <4>1, StreamCompare
    <3>8. CanInsert(rb, SeqAdd(ISN, a))
      <4>1. Len(rb.list) < TCP_RECEIVEBUFFER_MAX_PACKETS
        BY <3>1
      <4>2. pos <= Len(rb.list) => ~SEQ_GEQ(SeqAdd(ISN, a), rb.list[pos].seqNum) /\ pos # rb.recv_continuous
        BY <3>1, <3>6 DEF q
      <4> HIDE DEF a
      <4> QED BY <3>7, <4>1, <4>2, Zenon DEF CanInsert, pos
    <3> QED BY <2>1, <2>2, <3>8 DEF Acceptable
  <2>3. CASE ~sliding
    <3>1. Len(q) # Room
      <4>1. Room = 1
        BY <2>3 DEF Room
      <4>2. Len(q) < 1
        BY <4>1
      <4> DEFINE l == Len(q)
      <4>3. l < 1
        BY <4>2
      <4> HIDE DEF l
      <4>4. l # Room
        BY <4>1, <4>3
      <4> QED BY <4>4 DEF l
    <3>2. q = <<>> /\ n = 0
      BY <1>1, <2>3, <3>1, SingleFree
    <3>3. a = Done
      BY <3>2 DEF Acked
    <3> QED BY <2>1, <2>3, <3>2, <3>3 DEF Acceptable, CanInsertSingle
  <2> QED BY <2>2, <2>3
<1> QED BY <1>1, StreamInvariant, PTL

\* What insert() refuses as a duplicate, against such a peer, is one: each
\* of its bytes has been read or is in the list.
THEOREM StreamRefused == Spec => []RefusedIsDuplicate
<1>1. IInv => RefusedIsDuplicate
  BY DEF IInv
<1> QED BY <1>1, StreamInvariant, PTL
=============================================================================
