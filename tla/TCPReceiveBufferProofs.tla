----------------------- MODULE TCPReceiveBufferProofs -----------------------
(***************************************************************************)
(* Facts about the operators of TCPReceiveBuffer and about sequence        *)
(* numbers, for every SEQMOD and every length of the list.                 *)
(***************************************************************************)
EXTENDS TCPReceiveBuffer, WellFoundedInduction, TLAPS

-----------------------------------------------------------------------------
(* Induction over the natural numbers and recursion on an interval, stated  *)
(* for sets and functions, which the provers can instantiate.               *)

\* A set of natural numbers that is not empty has a least element.
LEMMA LeastNatural ==
  ASSUME NEW S, S \subseteq Nat, S # {}
  PROVE  \E m \in S : \A k \in S : m <= k
<1> DEFINE R == OpToRel(<, Nat)
<1>1. \E x \in S : \A y \in S : ~(<<y, x>> \in R)
  <2>1. IsWellFoundedOn(R, Nat)
    BY NatLessThanWellFounded
  <2> HIDE DEF R
  <2> QED BY <2>1, WFMin
<1>2. \A x, y \in Nat : <<y, x>> \in R <=> y < x
  BY DEF OpToRel
<1> HIDE DEF R
<1>3. PICK x \in S : \A y \in S : ~(<<y, x>> \in R)
  BY <1>1
<1>4. \A y \in S : ~(y < x)
  BY <1>2, <1>3
<1>5. \A y \in S : x <= y
  BY <1>4
<1> QED BY <1>5

\* Induction from 0 to m: a set that contains 0, and with n < m also n + 1,
\* contains them all.
LEMMA IntervalInduction ==
  ASSUME NEW S, NEW m \in Nat, 0 \in S,
         \A n \in 0 .. m - 1 : n \in S => n + 1 \in S
  PROVE  \A n \in 0 .. m : n \in S
<1> DEFINE T == {n \in 0 .. m : n \notin S}
<1> SUFFICES ASSUME T # {} PROVE FALSE
  OBVIOUS
<1>1. T \subseteq Nat
  OBVIOUS
<1>2. PICK n \in T : \A k \in T : n <= k
  <2> HIDE DEF T
  <2> QED BY <1>1, LeastNatural
<1>3. n \in 1 .. m
  BY <1>2
<1>4. n - 1 \in S
  BY <1>2, <1>3
<1> QED BY <1>2, <1>3, <1>4

\* A set of integers with an upper bound that is not empty has a greatest element.
LEMMA GreatestInteger ==
  ASSUME NEW S, NEW m \in Int, S \subseteq Int, S # {}, \A k \in S : k <= m
  PROVE  \E n \in S : \A k \in S : k <= n
<1> DEFINE T == {m - k : k \in S}
<1>1. T \subseteq Nat /\ T # {}
  <2>1. \A k \in S : k \in Int /\ k <= m
    OBVIOUS
  <2>2. \A k \in S : m - k \in Nat
    BY <2>1
  <2> QED BY <2>2
<1>2. PICK t \in T : \A k \in T : t <= k
  <2> HIDE DEF T
  <2> QED BY <1>1, LeastNatural
<1>3. PICK n \in S : t = m - n
  BY <1>2
<1>4. \A k \in S : m - k \in T
  OBVIOUS
<1>5. \A k \in S : m - n <= m - k
  BY <1>2, <1>3, <1>4
<1>6. \A k \in S : k \in Int /\ n \in Int
  OBVIOUS
<1> QED BY <1>5, <1>6

\* f is defined on 0 .. m by recursion: step[<<n, x>>] is its value at n if x is
\* its value at n - 1.
IsRecursive(f, A, a, m, step) ==
  f \in [0 .. m -> A] /\ f[0] = a /\ \A n \in 1 .. m : f[n] = step[<<n, f[n - 1]>>]

\* Such a function exists.
LEMMA Recursion ==
  ASSUME NEW A, NEW a \in A, NEW m \in Nat, NEW step \in [(1 .. m) \X A -> A]
  PROVE  \E f : IsRecursive(f, A, a, m, step)
<1> DEFINE Is(f, k) == f[0] = a /\ \A n \in 1 .. k : f[n] = step[<<n, f[n - 1]>>]
           S == {k \in 0 .. m : \E f \in [0 .. k -> A] : Is(f, k)}
<1>1. 0 \in S
  <2> DEFINE f == [n \in 0 .. 0 |-> a]
  <2>1. f \in [0 .. 0 -> A] /\ Is(f, 0)
    OBVIOUS
  <2>2. 0 \in 0 .. m
    OBVIOUS
  <2> HIDE DEF f, Is
  <2> QED BY <2>1, <2>2
<1>2. ASSUME NEW k \in 0 .. m - 1, k \in S
      PROVE  k + 1 \in S
  <2>1. PICK f \in [0 .. k -> A] : Is(f, k)
    BY <1>2
  <2> DEFINE g == [n \in 0 .. k + 1 |-> IF n = k + 1 THEN step[<<n, f[k]>>] ELSE f[n]]
  <2>2. <<k + 1, f[k]>> \in (1 .. m) \X A
    OBVIOUS
  <2>3. g \in [0 .. k + 1 -> A]
    BY <2>2
  <2>4. ASSUME NEW n \in 1 .. k + 1
        PROVE  g[n] = step[<<n, g[n - 1]>>]
    <3>1. CASE n = k + 1
      BY <3>1
    <3>2. CASE n # k + 1
      <4>1. n \in 1 .. k /\ n \in 0 .. k /\ n - 1 \in 0 .. k
        BY <3>2
      <4>2. f[n] = step[<<n, f[n - 1]>>]
        BY <2>1, <4>1
      <4>3. g[n] = f[n] /\ g[n - 1] = f[n - 1]
        BY <3>2, <4>1
      <4> HIDE DEF g
      <4> QED BY <4>2, <4>3
    <3> QED BY <3>1, <3>2
  <2>5. g[0] = a
    BY <2>1
  <2>6. k + 1 \in 0 .. m
    OBVIOUS
  <2> HIDE DEF g
  <2> QED BY <2>3, <2>4, <2>5, <2>6
<1>3. m \in S
  <2> HIDE DEF S
  <2> QED BY <1>1, <1>2, IntervalInduction
<1> QED BY <1>3 DEF IsRecursive

-----------------------------------------------------------------------------
\* An element of the list, of a stream of whatever length.
Element == [seqNum : SeqNum, len : Nat, data : Nat]

-----------------------------------------------------------------------------
(* Bytes()                                                                 *)

\* The loop that adds the lengths of a list has a value after each element.
LEMMA BytesSum ==
  ASSUME NEW q \in Seq(Element)
  PROVE  \E sum \in [0 .. Len(q) -> Nat] :
           /\ sum[0] = 0
           /\ \A k \in 1 .. Len(q) : sum[k] = sum[k - 1] + q[k].len
           /\ Bytes(q) = sum[Len(q)]
<1> DEFINE n == Len(q)
           Is(f) == f = [k \in 0 .. n |-> IF k = 0 THEN 0 ELSE f[k - 1] + q[k].len]
           step == [x \in (1 .. n) \X Nat |-> x[2] + q[x[1]].len]
           sum == CHOOSE g : Is(g)
<1>1. Bytes(q) = sum[n]
  BY DEF Bytes
<1>2. n \in Nat /\ \A k \in 1 .. n : q[k].len \in Nat
  <2>1. n \in Nat /\ \A k \in 1 .. n : q[k] \in Element
    OBVIOUS
  <2> QED BY <2>1 DEF Element
<1> HIDE DEF n
<1>3. step \in [(1 .. n) \X Nat -> Nat]
  <2>1. \A x \in (1 .. n) \X Nat : x[2] + q[x[1]].len \in Nat
    BY <1>2
  <2> QED BY <2>1
<1> HIDE DEF step
<1>4. PICK f : IsRecursive(f, Nat, 0, n, step)
  <2>1. n \in Nat /\ 0 \in Nat
    BY <1>2
  <2> QED BY <1>3, <2>1, Recursion, Zenon
<1>5. \A k \in 1 .. n : step[<<k, f[k - 1]>>] = f[k - 1] + q[k].len
  <2> TAKE k \in 1 .. n
  <2>1. k - 1 \in 0 .. n
    BY <1>2
  <2>2. f[k - 1] \in Nat
    BY <1>4, <2>1 DEF IsRecursive
  <2>3. <<k, f[k - 1]>> \in (1 .. n) \X Nat
    BY <2>2
  <2> QED BY <2>3 DEF step
<1>6. \A k \in 0 .. n : f[k] = IF k = 0 THEN 0 ELSE f[k - 1] + q[k].len
  <2>1. \A k \in 0 .. n : k = 0 \/ k \in 1 .. n
    BY <1>2
  <2> QED BY <1>4, <1>5, <2>1 DEF IsRecursive
<1>7. Is(f)
  BY <1>4, <1>6 DEF IsRecursive
<1>8. Is(sum)
  BY <1>7
<1> HIDE DEF sum
<1>9. sum[0] = 0 /\ \A k \in 1 .. n : sum[k] = sum[k - 1] + q[k].len
  BY <1>2, <1>8
<1>10. \A k \in 0 .. n : sum[k] \in Nat
  <2> DEFINE S == {k \in 0 .. n : sum[k] \in Nat}
  <2>1. 0 \in S
    BY <1>2, <1>9
  <2>2. ASSUME NEW k \in 0 .. n - 1, k \in S PROVE k + 1 \in S
    <3>1. k + 1 \in 1 .. n /\ k + 1 \in 0 .. n /\ (k + 1) - 1 = k
      BY <1>2
    <3>2. sum[k + 1] = sum[k] + q[k + 1].len
      BY <1>9, <3>1
    <3>3. sum[k] \in Nat /\ q[k + 1].len \in Nat
      BY <1>2, <2>2, <3>1
    <3> QED BY <3>1, <3>2, <3>3
  <2> HIDE DEF S
  <2>3. \A k \in 0 .. n : k \in S
    BY <1>2, <2>1, <2>2, IntervalInduction
  <2> QED BY <2>3 DEF S
<1>11. sum \in [0 .. n -> Nat]
  BY <1>8, <1>10
<1> QED BY <1>1, <1>9, <1>11 DEF n

\* The bytes of the first k elements, for every k: adding an element adds its length.
LEMMA BytesPrefix ==
  ASSUME NEW q \in Seq(Element)
  PROVE  /\ \A k \in 0 .. Len(q) : Bytes(SubSeq(q, 1, k)) \in Nat
         /\ Bytes(SubSeq(q, 1, 0)) = 0
         /\ \A k \in 1 .. Len(q) :
              Bytes(SubSeq(q, 1, k)) = Bytes(SubSeq(q, 1, k - 1)) + q[k].len
<1>1. PICK sum \in [0 .. Len(q) -> Nat] :
        sum[0] = 0 /\ \A k \in 1 .. Len(q) : sum[k] = sum[k - 1] + q[k].len
  BY BytesSum
<1>2. ASSUME NEW k \in 0 .. Len(q) PROVE Bytes(SubSeq(q, 1, k)) = sum[k]
  <2> DEFINE p == SubSeq(q, 1, k)
  <2>1. Len(q) \in Nat /\ k \in Nat /\ p \in Seq(Element) /\ Len(p) = k
    OBVIOUS
  <2>2. \A j \in 1 .. k : p[j] = q[j]
    OBVIOUS
  <2> HIDE DEF p
  <2>3. PICK f \in [0 .. k -> Nat] :
          /\ f[0] = 0 /\ Bytes(p) = f[k]
          /\ \A j \in 1 .. k : f[j] = f[j - 1] + p[j].len
    BY <2>1, BytesSum
  <2> DEFINE S == {j \in 0 .. k : f[j] = sum[j]}
  <2>4. 0 \in S
    BY <1>1, <2>1, <2>3
  <2>5. ASSUME NEW j \in 0 .. k - 1, j \in S PROVE j + 1 \in S
    <3>1. j + 1 \in 1 .. k /\ j + 1 \in 0 .. k /\ j + 1 \in 1 .. Len(q) /\ (j + 1) - 1 = j
      BY <2>1
    <3>2. f[j + 1] = f[j] + p[j + 1].len /\ sum[j + 1] = sum[j] + q[j + 1].len
      BY <1>1, <2>3, <3>1
    <3>3. p[j + 1] = q[j + 1] /\ f[j] = sum[j]
      BY <2>2, <2>5, <3>1
    <3> QED BY <3>1, <3>2, <3>3
  <2> HIDE DEF S
  <2>6. \A j \in 0 .. k : j \in S
    BY <2>1, <2>4, <2>5, IntervalInduction
  <2>7. f[k] = sum[k]
    BY <2>1, <2>6 DEF S
  <2> QED BY <2>3, <2>7 DEF p
<1>3. Len(q) \in Nat
  OBVIOUS
<1>4. \A k \in 1 .. Len(q) : k \in 0 .. Len(q) /\ k - 1 \in 0 .. Len(q)
  BY <1>3
<1>5. 0 \in 0 .. Len(q)
  BY <1>3
<1> QED BY <1>1, <1>2, <1>4, <1>5

\* A longer prefix holds more bytes, if no element is empty.
LEMMA BytesMonotonic ==
  ASSUME NEW q \in Seq(Element), NEW i \in 0 .. Len(q), NEW j \in i .. Len(q),
         \A k \in 1 .. Len(q) : q[k].len > 0
  PROVE  Bytes(SubSeq(q, 1, i)) + (j - i) <= Bytes(SubSeq(q, 1, j))
<1> DEFINE B(k) == Bytes(SubSeq(q, 1, k))
           m == j - i
           S == {n \in 0 .. m : B(i) + n <= B(i + n)}
<1>1. Len(q) \in Nat /\ \A k \in 1 .. Len(q) : q[k].len \in Nat
  <2>1. \A k \in 1 .. Len(q) : q[k] \in Element
    OBVIOUS
  <2> QED BY <2>1 DEF Element
<1>2. \A k \in 0 .. Len(q) : B(k) \in Nat
  BY BytesPrefix
<1>3. \A k \in 1 .. Len(q) : B(k) = B(k - 1) + q[k].len
  BY BytesPrefix
<1> HIDE DEF B
<1>4. 0 \in S
  BY <1>1, <1>2
<1>5. ASSUME NEW n \in 0 .. m - 1, n \in S PROVE n + 1 \in S
  <2>1. i + n + 1 \in 1 .. Len(q) /\ i + n \in 0 .. Len(q) /\ (i + n + 1) - 1 = i + n
    BY <1>1
  <2>2. B(i + n + 1) = B(i + n) + q[i + n + 1].len
    BY <1>3, <2>1
  <2>3. B(i) + n <= B(i + n) /\ q[i + n + 1].len >= 1
    BY <1>1, <1>5, <2>1
  <2>4. B(i) \in Nat /\ B(i + n) \in Nat /\ q[i + n + 1].len \in Nat
    BY <1>1, <1>2, <2>1
  <2>5. i + (n + 1) = i + n + 1 /\ n + 1 \in 0 .. j - i /\ n \in Nat
    BY <1>1
  <2>6. B(i) + (n + 1) <= B(i + n + 1)
    BY <2>2, <2>3, <2>4, <2>5, SMTT(30)
  <2> QED BY <2>5, <2>6
<1>6. m \in Nat
  BY <1>1
<1> HIDE DEF S, m
<1>7. \A n \in 0 .. m : n \in S
  BY <1>4, <1>5, <1>6, IntervalInduction
<1>9. m \in S
  BY <1>6, <1>7
<1>8. i + (j - i) = j
  BY <1>1
<1> QED BY <1>8, <1>9 DEF B, S, m

-----------------------------------------------------------------------------
(* Runs of elements without a gap                                          *)

\* The elements from .. to of q hold consecutive bytes.
Contiguous(q, from, to) == \A i \in from .. to - 1 : q[i].data + q[i].len = q[i + 1].data

\* The bytes of a run are those between its two ends.
LEMMA BytesContiguous ==
  ASSUME NEW q \in Seq(Element), NEW k \in 1 .. Len(q), Contiguous(q, 1, k)
  PROVE  Bytes(SubSeq(q, 1, k)) = (q[k].data + q[k].len) - q[1].data
<1> DEFINE B(n) == Bytes(SubSeq(q, 1, n))
           m == k - 1
           S == {n \in 0 .. m : B(n + 1) = (q[n + 1].data + q[n + 1].len) - q[1].data}
<1>1. Len(q) \in Nat /\ \A n \in 1 .. Len(q) : q[n].len \in Nat /\ q[n].data \in Nat
  <2>1. \A n \in 1 .. Len(q) : q[n] \in Element
    OBVIOUS
  <2> QED BY <2>1 DEF Element
<1>2. B(0) = 0 /\ \A n \in 1 .. Len(q) : B(n) = B(n - 1) + q[n].len
  BY BytesPrefix
<1> HIDE DEF B
<1>3. 0 \in S
  <2>1. B(1) = q[1].len
    BY <1>1, <1>2
  <2> QED BY <1>1, <2>1
<1>4. ASSUME NEW n \in 0 .. m - 1, n \in S PROVE n + 1 \in S
  <2>1. n + 1 \in 1 .. k - 1 /\ n + 1 \in 1 .. Len(q) /\ n + 2 \in 1 .. Len(q) /\ (n + 2) - 1 = n + 1
        /\ (n + 1) + 1 = n + 2 /\ n + 1 \in 0 .. m
    BY <1>1
  <2>2. B(n + 2) = B(n + 1) + q[n + 2].len
    BY <1>2, <2>1
  <2>3. q[n + 1].data + q[n + 1].len = q[n + 2].data
    BY <2>1 DEF Contiguous
  <2>4. B(n + 1) = (q[n + 1].data + q[n + 1].len) - q[1].data
    BY <1>4
  <2>5. /\ q[n + 1].data \in Nat /\ q[n + 1].len \in Nat /\ q[n + 2].len \in Nat
        /\ q[n + 2].data \in Nat /\ q[1].data \in Nat
    BY <1>1, <2>1
  <2>6. B(n + 2) = (q[n + 2].data + q[n + 2].len) - q[1].data
    BY <2>2, <2>3, <2>4, <2>5
  <2> QED BY <2>1, <2>6
<1>5. m \in Nat /\ m + 1 = k
  BY <1>1
<1> HIDE DEF S, m
<1>6. \A n \in 0 .. m : n \in S
  BY <1>3, <1>4, <1>5, IntervalInduction
<1>7. m \in S
  BY <1>5, <1>6
<1> QED BY <1>5, <1>7 DEF B, S

\* The same for a run inside of the list.
LEMMA BytesBetween ==
  ASSUME NEW q \in Seq(Element), NEW a \in 1 .. Len(q), NEW b \in a .. Len(q), Contiguous(q, a, b)
  PROVE  Bytes(SubSeq(q, a + 1, b)) = (q[b].data + q[b].len) - (q[a].data + q[a].len)
<1>1. Len(q) \in Nat /\ \A n \in 1 .. Len(q) : q[n].len \in Nat /\ q[n].data \in Nat
  <2>1. \A n \in 1 .. Len(q) : q[n] \in Element
    OBVIOUS
  <2> QED BY <2>1, SMTT(30) DEF Element
<1>2. CASE a = b
  <2>1. SubSeq(q, a + 1, b) = <<>> /\ SubSeq(q, 1, 0) = <<>>
    BY <1>1, <1>2
  <2>2. Bytes(SubSeq(q, 1, 0)) = 0
    BY BytesPrefix
  <2>3. Bytes(SubSeq(q, a + 1, b)) = 0
    BY <2>1, <2>2
  <2>4. (q[b].data + q[b].len) - (q[a].data + q[a].len) = 0
    BY <1>1, <1>2
  <2> QED BY <2>3, <2>4
<1>3. CASE a # b
  <2> DEFINE p == SubSeq(q, a + 1, b)
             k == b - a
  <2>1. p \in Seq(Element) /\ Len(p) = k /\ k \in 1 .. Len(p)
    BY <1>1, <1>3
  <2>2. \A n \in 1 .. k : p[n] = q[a + n]
    BY <1>1, <1>3
  <2>3. SubSeq(p, 1, k) = p
    BY <2>1
  <2> HIDE DEF p
  <2>4. Contiguous(p, 1, k)
    <3> SUFFICES ASSUME NEW n \in 1 .. k - 1 PROVE p[n].data + p[n].len = p[n + 1].data
      BY DEF Contiguous
    <3>1. n \in 1 .. k /\ n + 1 \in 1 .. k /\ a + n \in a .. b - 1 /\ a + (n + 1) = (a + n) + 1
      BY <1>1, <1>3
    <3>2. q[a + n].data + q[a + n].len = q[(a + n) + 1].data
      BY <3>1 DEF Contiguous
    <3> QED BY <2>2, <3>1, <3>2
  <2>5. Bytes(SubSeq(p, 1, k)) = (p[k].data + p[k].len) - p[1].data
    BY <2>1, <2>4, BytesContiguous
  <2>6. p[k] = q[b] /\ p[1] = q[a + 1] /\ a + 1 \in 1 .. Len(q)
    BY <1>1, <1>3, <2>1, <2>2
  <2>7. q[a].data + q[a].len = q[a + 1].data
    BY <1>1, <1>3 DEF Contiguous
  <2>8. Bytes(p) = (q[b].data + q[b].len) - q[a + 1].data
    BY <2>3, <2>5, <2>6
  <2> QED BY <1>1, <2>6, <2>7, <2>8 DEF p
<1> QED BY <1>2, <1>3

\* The bytes from d on, n of them.
Run(d, n) == [i \in 1 .. n |-> d + i - 1]

\* Two runs of bytes that follow each other are one.
LEMMA RunConcat ==
  ASSUME NEW d \in Nat, NEW m \in Nat, NEW n \in Nat
  PROVE  Run(d, m) \o Run(d + m, n) = Run(d, m + n)
<1>1. Run(d, m) \in Seq(Nat) /\ Len(Run(d, m)) = m
  BY DEF Run
<1>2. Run(d + m, n) \in Seq(Nat) /\ Len(Run(d + m, n)) = n
  BY DEF Run
<1>3. Run(d, m + n) \in Seq(Nat) /\ Len(Run(d, m + n)) = m + n
  BY DEF Run
<1>4. ASSUME NEW i \in 1 .. m + n
      PROVE  (Run(d, m) \o Run(d + m, n))[i] = Run(d, m + n)[i]
  <2>1. CASE i <= m
    BY <1>1, <1>2, <2>1 DEF Run
  <2>2. CASE i > m
    <3>1. i - m \in 1 .. n
      BY <2>2
    <3>2. (Run(d, m) \o Run(d + m, n))[i] = Run(d + m, n)[i - m]
      BY <1>1, <1>2, <2>2
    <3> QED BY <3>1, <3>2 DEF Run
  <2>3. i <= m \/ i > m
    OBVIOUS
  <2> QED BY <2>1, <2>2, <2>3
<1>5. Len(Run(d, m) \o Run(d + m, n)) = m + n /\ Run(d, m) \o Run(d + m, n) \in Seq(Nat)
  BY <1>1, <1>2, SMTT(30)
<1> DEFINE x == Run(d, m) \o Run(d + m, n)
           y == Run(d, m + n)
<1>6. x \in Seq(Nat) /\ y \in Seq(Nat) /\ Len(x) = Len(y) /\ \A i \in 1 .. Len(x) : x[i] = y[i]
  BY <1>3, <1>4, <1>5
<1> HIDE DEF x, y
<1>7. x = y
  BY <1>6, SMTT(30)
<1> QED BY <1>7 DEF x, y

\* What the elements of a run hold, one after the other, is one run of bytes.
LEMMA FlattenContiguous ==
  ASSUME NEW q \in Seq(Element), NEW k \in 1 .. Len(q), Contiguous(q, 1, k), NEW b,
         b = [i \in 1 .. k |-> BytesOf(q[i], q[i].len)]
  PROVE  FlattenSeq(b) = Run(q[1].data, (q[k].data + q[k].len) - q[1].data)
<1> DEFINE d == q[1].data
           Next(i) == q[i].data + q[i].len
           f == [i \in 1 .. k |-> Run(d, Next(i) - d)]
           Is(g) == g = [i \in 1 .. k |-> IF i = 1 THEN b[i] ELSE g[i - 1] \o b[i]]
           flat == CHOOSE g : Is(g)
<1>1. Len(q) \in Nat /\ k \in Nat /\ \A n \in 1 .. k : q[n].len \in Nat /\ q[n].data \in Nat
  <2>1. Len(q) \in Nat /\ k \in Nat /\ \A n \in 1 .. k : q[n] \in Element
    OBVIOUS
  <2> QED BY <2>1 DEF Element
<1>2. \A n \in 1 .. k : d <= q[n].data
  <2>1. ASSUME NEW n \in 1 .. k PROVE d <= q[n].data
    <3>1. Contiguous(q, 1, n)
      BY <1>1 DEF Contiguous
    <3>2. Bytes(SubSeq(q, 1, n)) = Next(n) - d
      BY <1>1, <3>1, BytesContiguous
    <3>3. Bytes(SubSeq(q, 1, n)) = Bytes(SubSeq(q, 1, n - 1)) + q[n].len /\ Bytes(SubSeq(q, 1, n - 1)) \in Nat
      BY <1>1, BytesPrefix
    <3> QED BY <1>1, <3>2, <3>3
  <2> QED BY <2>1
<1>3. \A n \in 1 .. k : b[n] = Run(q[n].data, q[n].len)
  BY DEF BytesOf, Run
<1>4. Len(b) = k
  BY <1>1
<1>5. FlattenSeq(b) = flat[k]
  <2>1. Len(b) # 0
    BY <1>1, <1>4
  <2> QED BY <1>4, <2>1 DEF FlattenSeq
<1>6. ASSUME NEW n \in 2 .. k
      PROVE  Run(d, Next(n - 1) - d) \o b[n] = Run(d, Next(n) - d)
  <2>1. n \in 1 .. k /\ n - 1 \in 1 .. k /\ n - 1 \in 1 .. k - 1 /\ (n - 1) + 1 = n
    BY <1>1
  <2>2. Next(n - 1) = q[n].data
    BY <2>1 DEF Contiguous
  <2>3. q[n].data - d \in Nat /\ d + (q[n].data - d) = q[n].data /\ d \in Nat /\ q[n].len \in Nat
        /\ (q[n].data - d) + q[n].len = Next(n) - d
    BY <1>1, <1>2, <2>1
  <2>4. Run(d, q[n].data - d) \o Run(d + (q[n].data - d), q[n].len) = Run(d, (q[n].data - d) + q[n].len)
    <3> DEFINE m == q[n].data - d
    <3> HIDE DEF d, m
    <3>1. m \in Nat /\ d \in Nat /\ q[n].len \in Nat
      BY <2>3 DEF m
    <3>2. Run(d, m) \o Run(d + m, q[n].len) = Run(d, m + q[n].len)
      BY <3>1, RunConcat
    <3> QED BY <3>2 DEF m
  <2>5. b[n] = Run(q[n].data, q[n].len)
    BY <1>3, <2>1
  <2> HIDE DEF d, Next
  <2> QED BY <2>2, <2>3, <2>4, <2>5
<1>7. b[1] = Run(d, Next(1) - d)
  <2>1. Next(1) - d = q[1].len
    BY <1>1
  <2>2. b[1] = Run(q[1].data, q[1].len)
    BY <1>1, <1>3
  <2> QED BY <2>1, <2>2
<1>8. Is(f)
  <2> DEFINE v(i) == Run(d, Next(i) - d)
  <2>1. \A i \in 1 .. k : i = 1 \/ (i \in 2 .. k /\ i - 1 \in 1 .. k)
    BY <1>1
  <2>2. \A i \in 1 .. k : f[i] = v(i)
    OBVIOUS
  <2>3. v(1) = b[1] /\ \A i \in 2 .. k : v(i - 1) \o b[i] = v(i)
    BY <1>6, <1>7
  <2>4. f = [i \in 1 .. k |-> v(i)]
    OBVIOUS
  <2> HIDE DEF v, f
  <2>5. \A i \in 1 .. k : v(i) = IF i = 1 THEN b[i] ELSE f[i - 1] \o b[i]
    BY <2>1, <2>2, <2>3
  <2> QED BY <2>4, <2>5
<1>9. Is(flat)
  BY <1>8
<1> HIDE DEF f, flat
<1>10. flat[k] = f[k]
  <2> DEFINE m == k - 1
             S == {n \in 0 .. m : flat[n + 1] = f[n + 1]}
  <2>1. \A i \in 1 .. k : flat[i] = IF i = 1 THEN b[i] ELSE flat[i - 1] \o b[i]
    BY <1>9
  <2>2. \A i \in 1 .. k : f[i] = IF i = 1 THEN b[i] ELSE f[i - 1] \o b[i]
    BY <1>8
  <2> HIDE DEF Is
  <2>3. 0 \in S
    BY <1>1, <2>1, <2>2
  <2>4. ASSUME NEW n \in 0 .. m - 1, n \in S PROVE n + 1 \in S
    <3>1. n + 2 \in 1 .. k /\ n + 2 # 1 /\ (n + 2) - 1 = n + 1 /\ n + 1 \in 0 .. m /\ (n + 1) + 1 = n + 2
      BY <1>1
    <3>2. flat[n + 2] = flat[n + 1] \o b[n + 2] /\ f[n + 2] = f[n + 1] \o b[n + 2]
      BY <2>1, <2>2, <3>1
    <3>3. flat[n + 1] = f[n + 1]
      BY <2>4
    <3>4. flat[n + 2] = f[n + 2]
      BY <3>2, <3>3
    <3> QED BY <3>1, <3>4
  <2>5. m \in Nat /\ m + 1 = k
    BY <1>1
  <2> HIDE DEF S, m
  <2>6. \A n \in 0 .. m : n \in S
    BY <2>3, <2>4, <2>5, IntervalInduction
  <2>7. m \in S
    BY <2>5, <2>6
  <2> QED BY <2>5, <2>7 DEF S
<1>11. f[k] = Run(d, Next(k) - d)
  BY <1>1 DEF f
<1> QED BY <1>5, <1>10, <1>11

-----------------------------------------------------------------------------
(* Sequence numbers                                                        *)

\* The addition wraps at most once.
LEMMA SeqAddValue ==
  ASSUME NEW a \in SeqNum, NEW n \in 0 .. SEQMOD
  PROVE  /\ SeqAdd(a, n) \in SeqNum
         /\ SeqAdd(a, n) = IF a + n < SEQMOD THEN a + n ELSE a + n - SEQMOD
<1>1. SEQMOD \in Nat /\ SEQMOD >= 2
  BY SeqModAssumption
<1>2. ASSUME NEW x \in 0 .. SEQMOD - 1 PROVE x % SEQMOD = x
  BY <1>1
<1>3. ASSUME NEW x \in SEQMOD .. 2 * SEQMOD - 1 PROVE x % SEQMOD = x - SEQMOD
  BY <1>1
<1>4. a + n \in 0 .. 2 * SEQMOD - 1
  BY <1>1 DEF SeqNum
<1>5. CASE a + n < SEQMOD
  BY <1>1, <1>2, <1>4, <1>5 DEF SeqAdd, SeqNum
<1>6. CASE a + n >= SEQMOD
  BY <1>1, <1>3, <1>4, <1>6 DEF SeqAdd, SeqNum
<1> QED BY <1>1, <1>4, <1>5, <1>6

\* Two positions of a stream compare as their sequence numbers do, if the
\* stream is shorter than half of the numbers.
LEMMA SeqCompare ==
  ASSUME NEW isn \in SeqNum, NEW x \in Nat, NEW y \in Nat,
         x < SEQMOD \div 2, y < SEQMOD \div 2
  PROVE  /\ SeqAdd(isn, x) = SeqAdd(isn, y) <=> x = y
         /\ SEQ_LT(SeqAdd(isn, x), SeqAdd(isn, y)) <=> x < y
         /\ SEQ_GEQ(SeqAdd(isn, x), SeqAdd(isn, y)) <=> x >= y
         /\ x >= y => SeqDiff(SeqAdd(isn, x), SeqAdd(isn, y)) = x - y
<1> DEFINE H == SEQMOD \div 2
           a == SeqAdd(isn, x)
           b == SeqAdd(isn, y)
<1>1. SEQMOD \in Nat /\ SEQMOD >= 2 /\ H \in Nat /\ SEQMOD = 2 * H
  BY SeqModAssumption
<1>2. isn \in 0 .. SEQMOD - 1 /\ x \in 0 .. SEQMOD /\ y \in 0 .. SEQMOD
  BY <1>1 DEF SeqNum
<1>3. a = (IF isn + x < SEQMOD THEN isn + x ELSE isn + x - SEQMOD) /\ a \in 0 .. SEQMOD - 1
  BY <1>2, SeqAddValue DEF SeqNum
<1>4. b = (IF isn + y < SEQMOD THEN isn + y ELSE isn + y - SEQMOD) /\ b \in 0 .. SEQMOD - 1
  BY <1>2, SeqAddValue DEF SeqNum
<1>5. SeqDiff(a, b) = IF a >= b THEN a - b ELSE a - b + SEQMOD
  <2>1. ASSUME NEW z \in 0 .. SEQMOD - 1 PROVE z % SEQMOD = z
    BY <1>1
  <2>2. ASSUME NEW z \in -SEQMOD .. -1 PROVE z % SEQMOD = z + SEQMOD
    BY <1>1
  <2> HIDE DEF a, b
  <2>3. CASE a >= b
    BY <1>1, <1>3, <1>4, <2>1, <2>3 DEF SeqDiff
  <2>4. CASE a < b
    BY <1>1, <1>3, <1>4, <2>2, <2>4 DEF SeqDiff
  <2> QED BY <1>1, <1>3, <1>4, <2>3, <2>4
<1> HIDE DEF H, a, b
<1>6. x < H /\ y < H
  BY DEF H
<1>7. SeqDiff(a, b) = IF x >= y THEN x - y ELSE x - y + SEQMOD
  BY <1>1, <1>2, <1>3, <1>4, <1>5, <1>6
<1>8. SEQ_LT(a, b) <=> x < y
  BY <1>1, <1>2, <1>6, <1>7 DEF SEQ_LT, H
<1>9. a = b <=> x = y
  BY <1>1, <1>2, <1>3, <1>4, <1>6
<1>10. SEQ_GEQ(a, b) <=> x >= y
  BY <1>8 DEF SEQ_GEQ
<1> QED BY <1>7, <1>8, <1>9, <1>10 DEF a, b

\* Going on from a position of the stream.
LEMMA SeqAddAdd ==
  ASSUME NEW isn \in SeqNum, NEW x \in Nat, NEW n \in Nat, x + n < SEQMOD \div 2
  PROVE  SeqAdd(SeqAdd(isn, x), n) = SeqAdd(isn, x + n)
<1> DEFINE a == SeqAdd(isn, x)
<1>1. SEQMOD \in Nat /\ SEQMOD >= 2 /\ x + n < SEQMOD
  BY SeqModAssumption
<1>2. x \in 0 .. SEQMOD /\ n \in 0 .. SEQMOD /\ x + n \in 0 .. SEQMOD
  BY <1>1
<1>3. a \in SeqNum /\ a = IF isn + x < SEQMOD THEN isn + x ELSE isn + x - SEQMOD
  BY <1>2, SeqAddValue
<1>4. SeqAdd(isn, x + n) = IF isn + (x + n) < SEQMOD THEN isn + (x + n) ELSE isn + (x + n) - SEQMOD
  BY <1>2, SeqAddValue
<1> HIDE DEF a
<1>5. SeqAdd(a, n) = IF a + n < SEQMOD THEN a + n ELSE a + n - SEQMOD
  BY <1>2, <1>3, SeqAddValue
<1>6. isn \in 0 .. SEQMOD - 1
  BY DEF SeqNum
<1>7. SeqAdd(a, n) = SeqAdd(isn, x + n)
  BY <1>1, <1>2, <1>3, <1>4, <1>5, <1>6
<1> QED BY <1>7 DEF a

-----------------------------------------------------------------------------
(* The list                                                                *)

\* The loop of updateContinuous() ends at the first gap or at the end of the list.
LEMMA EndOfRunIs ==
  ASSUME NEW q \in Seq(Element), NEW from \in 1 .. Len(q), NEW end, end = EndOfRun(q, from)
  PROVE  /\ end \in from .. Len(q)
         /\ \A i \in from .. end - 1 : getNextSeqNum(q[i]) = q[i + 1].seqNum
         /\ end < Len(q) => getNextSeqNum(q[end]) # q[end + 1].seqNum
<1> DEFINE T == {k \in from .. Len(q) : k < Len(q) => getNextSeqNum(q[k]) # q[k + 1].seqNum}
           P(k) == /\ \A i \in from .. k - 1 : getNextSeqNum(q[i]) = q[i + 1].seqNum
                   /\ k < Len(q) => getNextSeqNum(q[k]) # q[k + 1].seqNum
<1>1. Len(q) \in Nat /\ from \in Nat
  OBVIOUS
<1>2. T \subseteq Nat /\ T # {}
  <2>1. Len(q) \in T
    BY <1>1
  <2> QED BY <1>1, <2>1
<1>3. PICK k \in T : \A j \in T : k <= j
  <2> HIDE DEF T
  <2> QED BY <1>2, LeastNatural
<1>4. \A i \in from .. k - 1 : getNextSeqNum(q[i]) = q[i + 1].seqNum
  <2> TAKE i \in from .. k - 1
  <2>1. i \in from .. Len(q) /\ i < Len(q) /\ ~(k <= i)
    BY <1>1, <1>3
  <2>2. i \notin T
    BY <1>3, <2>1
  <2> QED BY <2>1, <2>2
<1>5. k \in from .. Len(q) /\ P(k)
  BY <1>3, <1>4
<1>6. end = CHOOSE n \in from .. Len(q) : P(n)
  BY DEF EndOfRun
<1> HIDE DEF P
<1>7. end \in from .. Len(q) /\ P(end)
  BY <1>5, <1>6
<1> QED BY <1>7 DEF P

\* The first element that insert() looks at.
First(rb) == IF rb.recv_continuous = 0 THEN 1 ELSE rb.recv_continuous

\* insert() stops at the first element, from there on, that ends behind seqnum.
LEMMA InsertPositionIs ==
  ASSUME NEW rb, rb.list \in Seq(Element), rb.recv_continuous \in 0 .. Len(rb.list),
         NEW seqnum, NEW pos, pos = InsertPosition(rb, seqnum)
  PROVE  /\ pos \in First(rb) .. Len(rb.list) + 1
         /\ \A i \in First(rb) .. pos - 1 : ~SEQ_LT(seqnum, getNextSeqNum(rb.list[i]))
         /\ pos <= Len(rb.list) => SEQ_LT(seqnum, getNextSeqNum(rb.list[pos]))
<1> DEFINE q == rb.list
           beyond == {i \in First(rb) .. Len(q) : SEQ_LT(seqnum, getNextSeqNum(q[i]))}
<1>1. Len(q) \in Nat /\ First(rb) \in 1 .. Len(q) + 1
  BY DEF First
<1>2. pos = IF beyond = {} THEN Len(q) + 1 ELSE Min(beyond)
  BY DEF InsertPosition, First
<1>3. CASE beyond = {}
  BY <1>1, <1>2, <1>3
<1>4. CASE beyond # {}
  <2>1. beyond \subseteq Nat
    BY <1>1
  <2> HIDE DEF beyond
  <2>2. \E m \in beyond : \A k \in beyond : m <= k
    BY <1>4, <2>1, LeastNatural
  <2>3. pos \in beyond /\ \A k \in beyond : pos <= k
    BY <1>2, <1>4, <2>2 DEF Min
  <2>4. pos \in First(rb) .. Len(q) /\ SEQ_LT(seqnum, getNextSeqNum(q[pos]))
    BY <2>3 DEF beyond
  <2>5. ASSUME NEW i \in First(rb) .. pos - 1 PROVE ~SEQ_LT(seqnum, getNextSeqNum(q[i]))
    <3>1. i \in First(rb) .. Len(q) /\ ~(pos <= i)
      BY <1>1, <2>4
    <3> QED BY <2>3, <3>1 DEF beyond
  <2> QED BY <1>1, <2>4, <2>5
<1> QED BY <1>3, <1>4

\* The new element is linked in at pos, the others keep their order.
LEMMA InsertAtIs ==
  ASSUME NEW S, NEW q \in Seq(S), NEW pos \in 1 .. Len(q) + 1, NEW e \in S
  PROVE  LET r == InsertAt(q, pos, e)
         IN  /\ r \in Seq(S) /\ Len(r) = Len(q) + 1 /\ r[pos] = e
             /\ \A i \in 1 .. pos - 1 : r[i] = q[i]
             /\ \A i \in pos .. Len(q) : r[i + 1] = q[i]
<1> DEFINE r == InsertAt(q, pos, e)
           a == SubSeq(q, 1, pos - 1)
           b == SubSeq(q, pos, Len(q))
<1>1. Len(q) \in Nat /\ pos \in Nat
  OBVIOUS
<1>2. a \in Seq(S) /\ Len(a) = pos - 1 /\ \A i \in 1 .. pos - 1 : a[i] = q[i]
  BY <1>1
<1>3. b \in Seq(S) /\ Len(b) = Len(q) - pos + 1 /\ \A i \in 1 .. Len(q) - pos + 1 : b[i] = q[pos + i - 1]
  BY <1>1
<1>4. r = a \o <<e>> \o b
  BY DEF InsertAt
<1> HIDE DEF a, b, r
<1> DEFINE c == a \o <<e>>
<1>5. c \in Seq(S) /\ Len(c) = pos /\ c[pos] = e /\ \A i \in 1 .. pos - 1 : c[i] = q[i]
  BY <1>1, <1>2
<1>6. r = c \o b
  BY <1>4
<1> HIDE DEF c
<1>7. r \in Seq(S) /\ Len(r) = Len(q) + 1
  BY <1>1, <1>3, <1>5, <1>6
<1>8. \A i \in 1 .. pos : r[i] = c[i]
  BY <1>1, <1>3, <1>5, <1>6
<1>9. ASSUME NEW i \in pos .. Len(q) PROVE r[i + 1] = q[i]
  <2>1. (i + 1) - pos \in 1 .. Len(q) - pos + 1 /\ pos + ((i + 1) - pos) - 1 = i
    BY <1>1
  <2>2. r[i + 1] = b[(i + 1) - pos]
    BY <1>1, <1>3, <1>5, <1>6, <2>1
  <2> QED BY <1>3, <2>1, <2>2
<1>10. \A i \in 1 .. pos - 1 : r[i] = q[i]
  BY <1>1, <1>5, <1>8
<1>11. r[pos] = e
  BY <1>1, <1>5, <1>8
<1> QED BY <1>7, <1>9, <1>10, <1>11 DEF r

LEMMA InsertAtLen ==
  ASSUME NEW S, NEW q \in Seq(S), NEW pos \in 1 .. Len(q) + 1, NEW e \in S
  PROVE  Len(InsertAt(q, pos, e)) = Len(q) + 1
BY InsertAtIs

\* copyData() consumes as many elements as are complete in len bytes.
LEMMA ConsumedIs ==
  ASSUME NEW rb, rb.list \in Seq(Element), NEW len \in Nat, NEW k, k = Consumed(rb, len)
  PROVE  /\ k \in 0 .. Len(rb.list)
         /\ Bytes(SubSeq(rb.list, 1, k)) <= len
         /\ k < Len(rb.list) => Bytes(SubSeq(rb.list, 1, k + 1)) > len
<1> DEFINE q == rb.list
           B(n) == Bytes(SubSeq(q, 1, n))
           T == {n \in 0 .. Len(q) : B(n) <= len}
           P(n) == B(n) <= len /\ (n < Len(q) => B(n + 1) > len)
<1>1. Len(q) \in Nat /\ q \in Seq(Element)
  OBVIOUS
<1>2. B(0) = 0 /\ \A n \in 0 .. Len(q) : B(n) \in Nat
  BY <1>1, BytesPrefix
<1>3. k = CHOOSE n \in 0 .. Len(q) : P(n)
  BY DEF Consumed
<1> HIDE DEF B
<1>4. T \subseteq Int /\ T # {} /\ \A n \in T : n <= Len(q)
  <2>1. 0 \in T
    BY <1>1, <1>2
  <2> QED BY <1>1, <2>1
<1>5. PICK n \in T : \A j \in T : j <= n
  <2> DEFINE m == Len(q)
  <2>1. m \in Int /\ \A j \in T : j <= m
    BY <1>1, <1>4
  <2> HIDE DEF T, m
  <2> QED BY <1>4, <2>1, GreatestInteger
<1>6. n < Len(q) => B(n + 1) > len
  <2> SUFFICES ASSUME n < Len(q) PROVE B(n + 1) > len
    OBVIOUS
  <2>1. n + 1 \in 0 .. Len(q) /\ ~(n + 1 <= n)
    BY <1>1, <1>5
  <2>2. n + 1 \notin T
    BY <1>5, <2>1
  <2>3. ~(B(n + 1) <= len)
    BY <2>1, <2>2
  <2> QED BY <1>2, <2>1, <2>3
<1>7. n \in 0 .. Len(q) /\ P(n)
  BY <1>5, <1>6
<1> HIDE DEF P
<1>8. k \in 0 .. Len(q) /\ P(k)
  BY <1>3, <1>7
<1> QED BY <1>8 DEF P, B

-----------------------------------------------------------------------------
(* The buffer of a stream                                                  *)

\* The position behind the last byte of an element.
End(e) == e.data + e.len

\* What a segment of a stream of size bytes looks like in the list, or what is
\* left of one; isn is the sequence number of the stream's first byte.
StreamElement(isn, size) ==
    {e \in [seqNum : SeqNum, len : 1 .. size, data : 0 .. size - 1] :
        End(e) <= size /\ e.seqNum = SeqAdd(isn, e.data)}

\* The first n elements of q continue the stream, of which done bytes are
\* read, up to the position Acked(q, n, done).
Joined(q, n, done) == n > 0 => q[1].data = done /\ Contiguous(q, 1, n)
Acked(q, n, done) == IF n = 0 THEN done ELSE End(q[n])

\* No element that continues the stream comes behind the first m.
Stops(q, m, done) == m < Len(q) => Acked(q, m, done) # q[m + 1].data

StreamBuffer(isn, size) ==
    [list : Seq(StreamElement(isn, size)), recv_continuous : Nat, recv_bytes : Nat,
     read_firstSeqNum : SeqNum, pushFlag : BOOLEAN]

\* The state of a buffer with the sliding window aspect, done bytes being read.
Consistent(isn, size, b, done) ==
    /\ b \in StreamBuffer(isn, size) /\ b.recv_continuous \in 0 .. Len(b.list)
    /\ b.read_firstSeqNum = SeqAdd(isn, done)
    /\ Joined(b.list, b.recv_continuous, done)
    /\ b.recv_bytes = Acked(b.list, b.recv_continuous, done) - done

LEMMA ElementFacts ==
  ASSUME NEW isn \in SeqNum, NEW size \in Nat, size < SEQMOD \div 2,
         NEW e \in StreamElement(isn, size)
  PROVE  /\ e \in Element /\ e.seqNum \in SeqNum /\ e.seqNum = SeqAdd(isn, e.data)
         /\ e.len \in 1 .. size /\ e.data \in 0 .. size - 1
         /\ End(e) \in e.data + 1 .. size /\ End(e) = e.data + e.len
<1>1. size \in Nat
  OBVIOUS
<1>2. e \in [seqNum : SeqNum, len : 1 .. size, data : 0 .. size - 1]
      /\ End(e) <= size /\ e.seqNum = SeqAdd(isn, e.data)
  BY DEF StreamElement
<1> QED BY <1>1, <1>2 DEF Element, End

LEMMA ListFacts ==
  ASSUME NEW isn \in SeqNum, NEW size \in Nat, size < SEQMOD \div 2,
         NEW q \in Seq(StreamElement(isn, size))
  PROVE  /\ q \in Seq(Element) /\ Len(q) \in Nat
         /\ \A i \in 1 .. Len(q) :
              /\ q[i] \in StreamElement(isn, size) /\ q[i].seqNum = SeqAdd(isn, q[i].data)
              /\ q[i].len \in 1 .. size /\ q[i].data \in 0 .. size - 1
              /\ End(q[i]) \in q[i].data + 1 .. size /\ End(q[i]) = q[i].data + q[i].len
<1>1. Len(q) \in Nat /\ \A i \in 1 .. Len(q) : q[i] \in StreamElement(isn, size)
  OBVIOUS
<1>2. \A i \in 1 .. Len(q) : q[i] \in Element
  BY <1>1, ElementFacts
<1>3. q \in Seq(Element)
  BY <1>1, <1>2
<1> QED BY <1>1, <1>3, ElementFacts

\* Positions of the stream compare as their sequence numbers do.
LEMMA StreamCompare ==
  ASSUME NEW isn \in SeqNum, NEW size \in Nat, size < SEQMOD \div 2,
         NEW x \in 0 .. size, NEW y \in 0 .. size
  PROVE  /\ SeqAdd(isn, x) \in SeqNum
         /\ SeqAdd(isn, x) = SeqAdd(isn, y) <=> x = y
         /\ SEQ_LT(SeqAdd(isn, x), SeqAdd(isn, y)) <=> x < y
         /\ SEQ_GEQ(SeqAdd(isn, x), SeqAdd(isn, y)) <=> x >= y
         /\ x >= y => SeqDiff(SeqAdd(isn, x), SeqAdd(isn, y)) = x - y
<1>1. isn \in SeqNum /\ size \in Nat /\ size < SEQMOD \div 2 /\ SEQMOD \in Nat
  BY SeqModAssumption
<1>2. x \in Nat /\ y \in Nat /\ x < SEQMOD \div 2 /\ y < SEQMOD \div 2 /\ x \in 0 .. SEQMOD
  BY <1>1
<1> QED BY <1>1, <1>2, SeqCompare, SeqAddValue

\* Going on by n bytes.
LEMMA StreamAdd ==
  ASSUME NEW isn \in SeqNum, NEW size \in Nat, size < SEQMOD \div 2,
         NEW x \in 0 .. size, NEW n \in Nat, x + n <= size
  PROVE  SeqAdd(SeqAdd(isn, x), n) = SeqAdd(isn, x + n)
<1>1. isn \in SeqNum /\ size \in Nat /\ size < SEQMOD \div 2 /\ SEQMOD \in Nat
  BY SeqModAssumption
<1>2. x \in Nat /\ x + n < SEQMOD \div 2
  BY <1>1
<1> QED BY <1>1, <1>2, SeqAddAdd

\* getNextSeqNum() of an element is the sequence number of the position behind it.
LEMMA NextSeqNum ==
  ASSUME NEW isn \in SeqNum, NEW size \in Nat, size < SEQMOD \div 2,
         NEW e \in StreamElement(isn, size)
  PROVE  getNextSeqNum(e) = SeqAdd(isn, End(e))
<1>1. size \in Nat
  OBVIOUS
<1>2. e.data \in 0 .. size /\ e.len \in Nat /\ e.data + e.len <= size /\ e.seqNum = SeqAdd(isn, e.data)
  BY <1>1, ElementFacts
<1>3. SeqAdd(SeqAdd(isn, e.data), e.len) = SeqAdd(isn, e.data + e.len)
  BY <1>2, StreamAdd
<1> QED BY <1>2, <1>3 DEF getNextSeqNum, End

\* A byte between the reading position and the acknowledged one is in the list.
LEMMA JoinedCovers ==
  ASSUME NEW isn \in SeqNum, NEW size \in Nat, size < SEQMOD \div 2,
         NEW q \in Seq(StreamElement(isn, size)), NEW n \in 0 .. Len(q), NEW done \in 0 .. size,
         Joined(q, n, done), NEW b \in done .. Acked(q, n, done) - 1
  PROVE  \E i \in 1 .. n : b \in q[i].data .. End(q[i]) - 1
<1> DEFINE T == {i \in 1 .. n : b < End(q[i])}
<1>1. Len(q) \in Nat /\ size \in Nat
  OBVIOUS
<1>2. \A i \in 1 .. Len(q) : q[i].data \in Int /\ End(q[i]) \in Int /\ End(q[i]) = q[i].data + q[i].len
  BY <1>1, ListFacts
<1>3. n # 0 /\ n \in T
  <2>1. n # 0
    BY DEF Acked
  <2>2. n \in 1 .. n /\ n \in 1 .. Len(q)
    BY <1>1, <2>1
  <2>3. b \in done .. End(q[n]) - 1
    BY <2>1 DEF Acked
  <2> QED BY <1>2, <2>1, <2>2, <2>3
<1>4. PICK i \in T : \A j \in T : i <= j
  <2>1. T \subseteq Nat /\ T # {}
    BY <1>1, <1>3
  <2> HIDE DEF T
  <2> QED BY <2>1, LeastNatural
<1>5. i \in 1 .. n /\ i \in 1 .. Len(q) /\ b < End(q[i])
  BY <1>1, <1>4
<1>6. q[i].data <= b
  <2>1. CASE i = 1
    BY <1>3, <2>1 DEF Joined
  <2>2. CASE i # 1
    <3>1. i - 1 \in 1 .. n - 1 /\ i - 1 \in 1 .. n /\ i - 1 \in 1 .. Len(q) /\ (i - 1) + 1 = i /\ ~(i <= i - 1)
      BY <1>1, <1>5, <2>2
    <3>2. ~(b < End(q[i - 1]))
      BY <1>4, <3>1
    <3>3. q[i - 1].data + q[i - 1].len = q[i].data
      BY <1>3, <3>1 DEF Joined, Contiguous
    <3> QED BY <1>1, <1>2, <3>1, <3>2, <3>3
  <2> QED BY <2>1, <2>2
<1> QED BY <1>1, <1>2, <1>5, <1>6

\* The acknowledged position is one of the stream, not before the reading position.
LEMMA AckedBounds ==
  ASSUME NEW isn \in SeqNum, NEW size \in Nat, size < SEQMOD \div 2,
         NEW q \in Seq(StreamElement(isn, size)), NEW n \in 0 .. Len(q), NEW done \in 0 .. size,
         Joined(q, n, done)
  PROVE  /\ Acked(q, n, done) \in done .. size
         /\ n > 0 => Acked(q, n, done) > done /\ Bytes(SubSeq(q, 1, n)) = Acked(q, n, done) - done
<1>1. size \in Nat /\ Len(q) \in Nat
  OBVIOUS
<1>2. CASE n = 0
  BY <1>1, <1>2 DEF Acked
<1>3. CASE n > 0
  <2>1. n \in 1 .. Len(q) /\ q[1].data = done /\ Contiguous(q, 1, n) /\ q \in Seq(Element)
    BY <1>1, <1>3, ListFacts DEF Joined
  <2>2. Bytes(SubSeq(q, 1, n)) = End(q[n]) - done
    BY <2>1, BytesContiguous DEF End
  <2>3. Bytes(SubSeq(q, 1, n)) = Bytes(SubSeq(q, 1, n - 1)) + q[n].len /\ Bytes(SubSeq(q, 1, n - 1)) \in Nat
    <3>1. n - 1 \in 0 .. Len(q)
      BY <1>1, <2>1
    <3> QED BY <2>1, <3>1, BytesPrefix
  <2>4. End(q[n]) \in 0 .. size /\ q[n].len \in 1 .. size
    <3>1. /\ q[n].len \in 1 .. size /\ q[n].data \in 0 .. size - 1
          /\ End(q[n]) \in q[n].data + 1 .. size
      BY <2>1, ListFacts
    <3> QED BY <3>1
  <2>5. Bytes(SubSeq(q, 1, n)) > 0
    BY <2>3, <2>4
  <2>6. Acked(q, n, done) = End(q[n])
    BY <1>3 DEF Acked
  <2> QED BY <1>1, <1>3, <2>2, <2>4, <2>5, <2>6
<1> QED BY <1>1, <1>2, <1>3

-----------------------------------------------------------------------------
(* insert()                                                                *)

\* updateContinuous() moves recv_continuous on to the next gap and counts
\* the bytes in between.
LEMMA UpdateContinuousIs ==
  ASSUME NEW isn \in SeqNum, NEW size \in Nat, size < SEQMOD \div 2,
         NEW b, NEW done \in 0 .. size, Consistent(isn, size, b, done),
         NEW s, s = updateContinuous(b), NEW m, m = s.recv_continuous
  PROVE  /\ Consistent(isn, size, s, done) /\ s.list = b.list /\ s.pushFlag = b.pushFlag
         /\ m \in b.recv_continuous .. Len(b.list)
         /\ Stops(b.list, m, done)
<1> DEFINE q == b.list
           n == b.recv_continuous
           headStarts == q # <<>> /\ b.read_firstSeqNum = q[1].seqNum
           start == IF n = 0 THEN 1 ELSE n
           bytes == IF n = 0 THEN q[1].len ELSE b.recv_bytes
           end   == EndOfRun(q, start)
           add == Bytes(SubSeq(q, start + 1, end))
<1>1. /\ size \in Nat /\ q \in Seq(StreamElement(isn, size)) /\ Len(q) \in Nat /\ n \in 0 .. Len(q) /\ b \in StreamBuffer(isn, size)
      /\ b.read_firstSeqNum = SeqAdd(isn, done) /\ Joined(q, n, done) /\ b.recv_bytes = Acked(q, n, done) - done
  BY DEF Consistent, StreamBuffer
<1>2. q \in Seq(Element) /\ \A i \in 1 .. Len(q) : q[i] \in StreamElement(isn, size)
         /\ q[i].seqNum = SeqAdd(isn, q[i].data) /\ q[i].data \in 0 .. size /\ q[i].len \in 1 .. size
         /\ End(q[i]) \in 0 .. size /\ End(q[i]) = q[i].data + q[i].len
         /\ getNextSeqNum(q[i]) = SeqAdd(isn, End(q[i]))
  BY <1>1, ListFacts, NextSeqNum, SMTT(30)
<1>3. Len(q) > 0 => (headStarts <=> q[1].data = done)
  <2> SUFFICES ASSUME Len(q) > 0 PROVE headStarts <=> q[1].data = done
    OBVIOUS
  <2>1. q # <<>> /\ 1 \in 1 .. Len(q)
    BY <1>1
  <2>2. q[1].seqNum = SeqAdd(isn, q[1].data) /\ q[1].data \in 0 .. size
    BY <1>2, <2>1
  <2>3. SeqAdd(isn, done) = SeqAdd(isn, q[1].data) <=> done = q[1].data
    BY <2>2, StreamCompare
  <2> QED BY <1>1, <2>1, <2>2, <2>3
<1>4. s = IF n = 0 /\ ~headStarts THEN b
          ELSE [b EXCEPT !.recv_continuous = end, !.recv_bytes = bytes + add]
  BY Zenon DEF updateContinuous
<1>5. CASE n = 0 /\ ~headStarts
  <2>1. s = b /\ m = 0
    BY <1>4, <1>5
  <2>2. Stops(q, 0, done)
    BY <1>1, <1>3, <1>5 DEF Acked, Stops
  <2> QED BY <1>1, <2>1, <2>2
<1>6. CASE ~(n = 0 /\ ~headStarts)
  <2>1. Len(q) > 0 /\ start \in 1 .. Len(q) /\ start \in Nat
    BY <1>1, <1>6
  <2>2. /\ end \in start .. Len(q)
        /\ \A i \in start .. end - 1 : getNextSeqNum(q[i]) = q[i + 1].seqNum
        /\ end < Len(q) => getNextSeqNum(q[end]) # q[end + 1].seqNum
    <3> HIDE DEF q, start
    <3>1. q \in Seq(Element)
      BY <1>2
    <3> QED BY <2>1, <3>1, EndOfRunIs
  <2> HIDE DEF end
  <2>3. end \in 1 .. Len(q) /\ end \in n .. Len(q) /\ end > 0
    BY <1>1, <2>1, <2>2
  <2>4. q[1].data = done /\ (n > 0 => Contiguous(q, 1, n))
    BY <1>1, <1>3, <1>6, <2>1 DEF Joined
  <2>5. \A i \in start .. end - 1 : q[i].data + q[i].len = q[i + 1].data
    <3> TAKE i \in start .. end - 1
    <3>1. i \in 1 .. Len(q) /\ i + 1 \in 1 .. Len(q)
      BY <1>1, <2>1, <2>3
    <3>2. SeqAdd(isn, End(q[i])) = SeqAdd(isn, q[i + 1].data)
      BY <1>2, <2>2, <3>1
    <3>3. End(q[i]) = q[i + 1].data
      BY <1>2, <3>1, <3>2, StreamCompare
    <3> QED BY <1>2, <3>1, <3>3
  <2>6. Contiguous(q, start, end)
    BY <2>5 DEF Contiguous
  <2>7. Contiguous(q, 1, end)
    <3> SUFFICES ASSUME NEW i \in 1 .. end - 1 PROVE q[i].data + q[i].len = q[i + 1].data
      BY DEF Contiguous
    <3>1. CASE i >= start
      BY <1>1, <2>1, <2>3, <2>5, <3>1
    <3>2. CASE i < start
      <4>1. n > 0 /\ i \in 1 .. n - 1
        BY <1>1, <3>2
      <4> QED BY <2>4, <4>1 DEF Contiguous
    <3> QED BY <2>1, <2>3, <3>1, <3>2
  <2>8. add = End(q[end]) - End(q[start])
    <3>1. q \in Seq(Element) /\ start \in 1 .. Len(q) /\ end \in start .. Len(q)
      BY <1>2, <2>1, <2>2
    <3> HIDE DEF q, start
    <3> QED BY <2>6, <3>1, BytesBetween DEF End
  <2>9. bytes = End(q[start]) - done
    BY <1>1, <1>2, <2>1, <2>4 DEF Acked
  <2>10. End(q[start]) \in Nat /\ End(q[end]) \in Nat
    BY <1>2, <2>1, <2>3
  <2> HIDE DEF add, bytes
  <2>11. bytes + add = End(q[end]) - done
    BY <1>1, <2>8, <2>9, <2>10
  <2>12. s = [b EXCEPT !.recv_continuous = end, !.recv_bytes = bytes + add]
    BY <1>4, <1>6
  <2>13. Joined(q, end, done) /\ Acked(q, end, done) = End(q[end])
    BY <2>3, <2>4, <2>7 DEF Joined, Acked
  <2>14. End(q[end]) - done \in Nat
    <3>1. Acked(q, end, done) \in done .. size
      BY <1>1, <2>3, <2>13, AckedBounds
    <3> QED BY <1>1, <2>13, <3>1
  <2>15. end < Len(q) => End(q[end]) # q[end + 1].data
    BY <1>1, <1>2, <2>2, <2>3
  <2>17. Stops(q, end, done)
    BY <2>13, <2>15 DEF Stops
  <2> HIDE DEF start, headStarts, q, n
  <2>16. /\ s.list = b.list /\ s.pushFlag = b.pushFlag /\ s.read_firstSeqNum = b.read_firstSeqNum
         /\ s.recv_continuous = end /\ s.recv_bytes = End(q[end]) - done /\ s \in StreamBuffer(isn, size)
    <3> DEFINE z == End(q[end]) - done
    <3>1. s = [b EXCEPT !.recv_continuous = end, !.recv_bytes = z] /\ z \in Nat /\ end \in Nat
      <4>1. bytes + add = z
        BY <2>11
      <4>2. z \in Nat /\ end \in Nat
        BY <1>1, <2>3, <2>14
      <4> HIDE DEF z
      <4> QED BY <2>12, <4>1, <4>2, Zenon
    <3> HIDE DEF z
    <3>2. b \in StreamBuffer(isn, size)
      BY <1>1
    <3>3. s \in StreamBuffer(isn, size)
      BY <3>1, <3>2 DEF StreamBuffer
    <3>4. /\ s.list = b.list /\ s.pushFlag = b.pushFlag /\ s.read_firstSeqNum = b.read_firstSeqNum
          /\ s.recv_continuous = end /\ s.recv_bytes = z
      BY <3>1, <3>2 DEF StreamBuffer
    <3> QED BY <3>3, <3>4 DEF z
  <2> QED BY <1>1, <2>3, <2>13, <2>17, <2>16 DEF Consistent, q, n
<1> QED BY <1>5, <1>6

\* Where insert() puts a segment it accepts: behind the continuous elements.
LEMMA CanInsertIs ==
  ASSUME NEW isn \in SeqNum, NEW size \in Nat, size < SEQMOD \div 2,
         NEW b, NEW done \in 0 .. size, Consistent(isn, size, b, done), NEW x \in 0 .. size - 1,
         NEW pos, pos = InsertPosition(b, SeqAdd(isn, x))
  PROVE  /\ pos \in First(b) .. Len(b.list) + 1
         /\ \A i \in First(b) .. pos - 1 : End(b.list[i]) <= x
         /\ pos <= Len(b.list) => x < End(b.list[pos])
         /\ CanInsert(b, SeqAdd(isn, x)) <=>
              /\ Len(b.list) < TCP_RECEIVEBUFFER_MAX_PACKETS
              /\ done <= x
              /\ pos > b.recv_continuous
              /\ pos <= Len(b.list) => x < b.list[pos].data
<1> DEFINE q == b.list
           n == b.recv_continuous
<1>1. /\ size \in Nat /\ q \in Seq(StreamElement(isn, size)) /\ Len(q) \in Nat /\ n \in 0 .. Len(q)
      /\ b.read_firstSeqNum = SeqAdd(isn, done)
  BY DEF Consistent, StreamBuffer
<1>2. q \in Seq(Element) /\ \A i \in 1 .. Len(q) : q[i] \in StreamElement(isn, size)
         /\ q[i].seqNum = SeqAdd(isn, q[i].data) /\ q[i].data \in 0 .. size
         /\ End(q[i]) \in 0 .. size
         /\ getNextSeqNum(q[i]) = SeqAdd(isn, End(q[i]))
  BY <1>1, ListFacts, NextSeqNum
<1>3. x \in 0 .. size /\ First(b) \in 1 .. Len(q) + 1 /\ First(b) = IF n = 0 THEN 1 ELSE n
  BY <1>1 DEF First
<1>4. /\ pos \in First(b) .. Len(q) + 1
      /\ \A i \in First(b) .. pos - 1 : ~SEQ_LT(SeqAdd(isn, x), getNextSeqNum(q[i]))
      /\ pos <= Len(q) => SEQ_LT(SeqAdd(isn, x), getNextSeqNum(q[pos]))
  BY <1>1, <1>2, InsertPositionIs
<1>5. \A i \in First(b) .. pos - 1 : End(q[i]) <= x
  <2> TAKE i \in First(b) .. pos - 1
  <2>1. i \in 1 .. Len(q)
    BY <1>1, <1>3, <1>4
  <2>2. ~(x < End(q[i])) /\ End(q[i]) \in Int
    BY <1>2, <1>3, <1>4, <2>1, StreamCompare
  <2> QED BY <1>3, <2>2
<1>6. pos <= Len(q) => pos \in 1 .. Len(q)
  BY <1>1, <1>3, <1>4
<1>7. pos <= Len(q) => x < End(q[pos])
  BY <1>2, <1>3, <1>4, <1>6, StreamCompare
<1>8. SEQ_LT(SeqAdd(isn, x), b.read_firstSeqNum) <=> x < done
  BY <1>1, <1>3, StreamCompare
<1>9. pos <= Len(q) => (SEQ_GEQ(SeqAdd(isn, x), q[pos].seqNum) <=> x >= q[pos].data)
  <2> SUFFICES ASSUME pos <= Len(q) PROVE SEQ_GEQ(SeqAdd(isn, x), q[pos].seqNum) <=> x >= q[pos].data
    OBVIOUS
  <2>1. q[pos].seqNum = SeqAdd(isn, q[pos].data) /\ q[pos].data \in 0 .. size
    BY <1>2, <1>6
  <2>2. SEQ_GEQ(SeqAdd(isn, x), SeqAdd(isn, q[pos].data)) <=> x >= q[pos].data
    BY <1>3, <2>1, StreamCompare
  <2> QED BY <2>1, <2>2, Zenon
<1>10. CanInsert(b, SeqAdd(isn, x)) <=>
         /\ Len(q) < TCP_RECEIVEBUFFER_MAX_PACKETS
         /\ ~(x < done)
         /\ pos <= Len(q) => ~(x >= q[pos].data) /\ pos # n
  <2>1. CanInsert(b, SeqAdd(isn, x)) <=>
          /\ Len(q) < TCP_RECEIVEBUFFER_MAX_PACKETS
          /\ ~SEQ_LT(SeqAdd(isn, x), b.read_firstSeqNum)
          /\ pos <= Len(q) => ~SEQ_GEQ(SeqAdd(isn, x), q[pos].seqNum) /\ pos # n
    BY Zenon DEF CanInsert
  <2> QED BY <1>8, <1>9, <2>1, Zenon
<1>11. pos <= Len(q) => q[pos].data \in Int
  BY <1>2, <1>6
<1> QED BY <1>1, <1>3, <1>4, <1>5, <1>7, <1>10, <1>11

\* The list after an insertion: the new element, and the old ones in their order.
LEMMA InsertIs ==
  ASSUME NEW isn \in SeqNum, NEW size \in Nat, size < SEQMOD \div 2,
         NEW b, NEW done \in 0 .. size, Consistent(isn, size, b, done), NEW x \in 0 .. size - 1,
         NEW len \in 1 .. size, x + len <= size,
         CanInsert(b, SeqAdd(isn, x)),
         NEW pos, pos = InsertPosition(b, SeqAdd(isn, x)),
         NEW e, e = [seqNum |-> SeqAdd(isn, x), len |-> len, data |-> x],
         NEW r, r = InsertAt(b.list, pos, e), NEW seg, seg.seq = SeqAdd(isn, x), seg.len = len, seg.data = x,
         NEW s, s = insert(b, seg, seg.seq, seg.len), NEW m, m = s.recv_continuous
  PROVE  /\ Consistent(isn, size, s, done) /\ s.list = r /\ r \in Seq(StreamElement(isn, size)) /\ e \in StreamElement(isn, size)
         /\ m \in b.recv_continuous .. Len(r) /\ Joined(r, m, done)
         /\ m < Len(r) => Acked(r, m, done) # r[m + 1].data
<1> DEFINE q == b.list
           n == b.recv_continuous
           linked == [b EXCEPT !.list = r]
<1>1. /\ size \in Nat /\ q \in Seq(StreamElement(isn, size)) /\ Len(q) \in Nat /\ n \in 0 .. Len(q) /\ b \in StreamBuffer(isn, size)
      /\ b.read_firstSeqNum = SeqAdd(isn, done) /\ Joined(q, n, done) /\ b.recv_bytes = Acked(q, n, done) - done
  BY DEF Consistent, StreamBuffer
<1>2. pos \in 1 .. Len(q) + 1 /\ pos > n
  <2>1. pos \in First(b) .. Len(q) + 1 /\ pos > n
    BY CanInsertIs
  <2> QED BY <1>1, <2>1 DEF First
<1>3. e \in StreamElement(isn, size)
  <2>1. x \in 0 .. size
    BY <1>1
  <2>2. SeqAdd(isn, x) \in SeqNum
    BY <2>1, StreamCompare
  <2> QED BY <2>2 DEF StreamElement, End
<1>4. /\ r \in Seq(StreamElement(isn, size)) /\ Len(r) = Len(q) + 1 /\ r[pos] = e
      /\ \A i \in 1 .. pos - 1 : r[i] = q[i]
  <2> HIDE DEF q
  <2>1. r = InsertAt(q, pos, e)
    BY DEF q
  <2> QED BY <1>1, <1>2, <1>3, <2>1, InsertAtIs, SMTT(30)
<1>5. Joined(r, n, done) /\ Acked(r, n, done) = Acked(q, n, done)
  <2>1. CASE n = 0
    BY <2>1 DEF Joined, Acked
  <2>2. CASE n > 0
    <3>1. \A i \in 1 .. n : r[i] = q[i]
      <4> TAKE i \in 1 .. n
      <4>1. i \in 1 .. pos - 1
        BY <1>1, <1>2
      <4> QED BY <1>4, <4>1
    <3>2. 1 \in 1 .. n /\ n \in 1 .. n /\ \A i \in 1 .. n - 1 : i \in 1 .. n /\ i + 1 \in 1 .. n
      BY <1>1, <2>2
    <3> QED BY <1>1, <2>2, <3>1, <3>2 DEF Joined, Acked, Contiguous
  <2> QED BY <1>1, <2>1, <2>2
<1>6. linked \in StreamBuffer(isn, size) /\ linked.list = r /\ linked.recv_continuous = n
      /\ linked.recv_bytes = b.recv_bytes /\ linked.read_firstSeqNum = b.read_firstSeqNum
  BY <1>1, <1>4 DEF StreamBuffer
<1>7. Consistent(isn, size, linked, done)
  <2>1. n \in 0 .. Len(r)
    BY <1>1, <1>4
  <2> HIDE DEF linked
  <2> QED BY <1>1, <1>5, <1>6, <2>1 DEF Consistent
<1> DEFINE u == updateContinuous(linked)
<1>8. seg.seq = SeqAdd(isn, x) /\ seg.len = len /\ seg.data = x
  OBVIOUS
<1>9. s = [u EXCEPT !.pushFlag = @ \/ has(seg, "PSH")]
  <2>1. s = insert(b, seg, SeqAdd(isn, x), len)
    BY <1>8
  <2>2. InsertAt(b.list, InsertPosition(b, SeqAdd(isn, x)), [seqNum |-> SeqAdd(isn, x), len |-> len, data |-> seg.data]) = r
    BY <1>8
  <2> QED BY <2>1, <2>2 DEF insert
<1>10. /\ Consistent(isn, size, u, done) /\ u.list = linked.list /\ u.pushFlag = linked.pushFlag
       /\ u.recv_continuous \in linked.recv_continuous .. Len(linked.list)
       /\ Stops(linked.list, u.recv_continuous, done)
  <2> HIDE DEF linked
  <2> DEFINE c == u.recv_continuous
  <2>1. u = updateContinuous(linked) /\ c = u.recv_continuous
    OBVIOUS
  <2> HIDE DEF u, c
  <2>2. /\ Consistent(isn, size, u, done) /\ u.list = linked.list /\ u.pushFlag = linked.pushFlag
        /\ c \in linked.recv_continuous .. Len(linked.list)
        /\ Stops(linked.list, c, done)
    <3>1. isn \in SeqNum /\ size \in Nat /\ size < SEQMOD \div 2 /\ done \in 0 .. size
      OBVIOUS
    <3> QED BY <1>7, <2>1, <3>1, UpdateContinuousIs
  <2> QED BY <2>2 DEF c
<1> HIDE DEF u, linked
<1>11. u \in StreamBuffer(isn, size)
  BY <1>10 DEF Consistent
<1>12. has(seg, "PSH") \in BOOLEAN
  BY DEF has
<1>13. s.list = u.list /\ s.recv_continuous = u.recv_continuous /\ s.recv_bytes = u.recv_bytes
       /\ s.read_firstSeqNum = u.read_firstSeqNum /\ s \in StreamBuffer(isn, size)
  BY <1>9, <1>11, <1>12 DEF StreamBuffer
<1>14. Consistent(isn, size, s, done)
  BY <1>10, <1>13 DEF Consistent
<1>15. Joined(r, m, done)
  BY <1>6, <1>10, <1>13 DEF Consistent
<1> QED BY <1>3, <1>4, <1>6, <1>10, <1>13, <1>14, <1>15 DEF Stops

-----------------------------------------------------------------------------
(* copyData()                                                              *)

\* A read of len bytes takes the first k of the n continuous elements and
\* part bytes of the next one.
Consuming(q, n, done, len, k, part) ==
    /\ k \in 0 .. n /\ part \in 0 .. len
    /\ k < n => q[k + 1].data + part = done + len /\ part < q[k + 1].len
    /\ k = n => part = 0 /\ done + len = Acked(q, n, done)

\* A read of continuous bytes consumes k of the continuous elements and a
\* part of the next one, and copies the next len bytes of the stream.
LEMMA ConsumedContinuous ==
  ASSUME NEW isn \in SeqNum, NEW size \in Nat, size < SEQMOD \div 2,
         NEW b, NEW q \in Seq(StreamElement(isn, size)), b.list = q, NEW n \in 1 .. Len(q),
         NEW done \in 0 .. size, Joined(q, n, done), NEW len \in Nat, 0 < len,
         done + len <= Acked(q, n, done),
         NEW k, k = Consumed(b, len), NEW part, part = Remainder(b, len)
  PROVE  Consuming(q, n, done, len, k, part) /\ copiedBytes(b, len) = Run(done, len)
<1> DEFINE B(i) == Bytes(SubSeq(q, 1, i))
<1>1. size \in Nat /\ Len(q) \in Nat /\ q \in Seq(Element) /\ n \in 0 .. Len(q) /\ n > 0
  BY ListFacts
<1>2. /\ k \in 0 .. Len(q) /\ B(k) <= len
      /\ k < Len(q) => B(k + 1) > len
  BY <1>1, ConsumedIs
<1>3. part = len - B(k)
  BY DEF Remainder
<1>4. B(0) = 0 /\ (\A i \in 0 .. Len(q) : B(i) \in Nat) /\ \A i \in 1 .. Len(q) : B(i) = B(i - 1) + q[i].len
  BY <1>1, BytesPrefix
<1>5. B(n) = Acked(q, n, done) - done /\ Acked(q, n, done) \in done .. size
  BY <1>1, AckedBounds
<1>6. \A i \in 1 .. Len(q) : q[i].len > 0 /\ q[i].len \in Nat /\ q[i].data \in Nat /\ End(q[i]) = q[i].data + q[i].len
  <2> TAKE i \in 1 .. Len(q)
  <2>1. q[i].len \in 1 .. size /\ q[i].data \in 0 .. size - 1 /\ End(q[i]) = q[i].data + q[i].len
    BY ListFacts
  <2> QED BY <1>1, <2>1
<1>7. len <= B(n)
  BY <1>1, <1>5
<1>8. k <= n
  <2> SUFFICES ASSUME n < k PROVE FALSE
    BY <1>1, <1>2
  <2>1. n \in 0 .. Len(q) /\ k \in n .. Len(q)
    BY <1>1, <1>2
  <2>2. B(n) + (k - n) <= B(k)
    <3>1. \A i \in 1 .. Len(q) : q[i].len > 0
      BY <1>6
    <3> QED BY <1>1, <2>1, <3>1, BytesMonotonic, Zenon
  <2>3. B(n) \in Nat /\ B(k) \in Nat
    BY <1>2, <1>4, <2>1
  <2> HIDE DEF B
  <2> QED BY <1>1, <1>2, <1>7, <2>1, <2>2, <2>3
<1>9. q[1].data = done /\ Contiguous(q, 1, n)
  BY <1>1 DEF Joined
<1>10. ASSUME NEW i \in 1 .. n PROVE Contiguous(q, 1, i) /\ B(i) = End(q[i]) - done
  <2>1. Contiguous(q, 1, i)
    <3>1. \A j \in 1 .. i - 1 : j \in 1 .. n - 1
      BY <1>1
    <3> QED BY <1>9, <3>1 DEF Contiguous
  <2>2. i \in 1 .. Len(q)
    BY <1>1
  <2>3. B(i) = (q[i].data + q[i].len) - q[1].data
    BY <1>1, <2>1, <2>2, BytesContiguous
  <2> QED BY <1>9, <2>1, <2>3 DEF End
<1>11. k < n => q[k + 1].data = done + B(k)
  <2> SUFFICES ASSUME k < n PROVE q[k + 1].data = done + B(k)
    OBVIOUS
  <2>1. k + 1 \in 1 .. n /\ k + 1 \in 1 .. Len(q) /\ (k + 1) - 1 = k /\ k \in 0 .. Len(q)
    BY <1>1, <1>2
  <2>2. B(k + 1) = End(q[k + 1]) - done /\ B(k + 1) = B(k) + q[k + 1].len
    BY <1>4, <1>10, <2>1
  <2>3. B(k) \in Nat /\ End(q[k + 1]) = q[k + 1].data + q[k + 1].len /\ q[k + 1].data \in Nat /\ q[k + 1].len \in Nat
    BY <1>4, <1>6, <2>1
  <2> DEFINE x == q[k + 1].data
             y == q[k + 1].len
             b1 == B(k + 1)
             b0 == B(k)
  <2>4. b1 = (x + y) - done /\ b1 = b0 + y /\ b0 \in Nat /\ x \in Nat /\ y \in Nat /\ done \in Nat
    BY <1>1, <2>2, <2>3
  <2> HIDE DEF x, y, b1, b0
  <2>5. x = done + b0
    BY <2>4
  <2> QED BY <2>5 DEF x, b0
<1>12. B(k) \in Nat /\ part \in 0 .. len
  <2>1. B(k) \in Nat
    BY <1>2, <1>4
  <2> HIDE DEF B
  <2> QED BY <1>2, <1>3, <2>1
<1>13. k < n => q[k + 1].data + part = done + len /\ part < q[k + 1].len
  <2> SUFFICES ASSUME k < n PROVE q[k + 1].data + part = done + len /\ part < q[k + 1].len
    OBVIOUS
  <2>1. k + 1 \in 1 .. Len(q) /\ k < Len(q) /\ (k + 1) - 1 = k
    BY <1>1, <1>2
  <2>2. B(k + 1) = B(k) + q[k + 1].len /\ B(k + 1) > len /\ q[k + 1].len \in Nat
    BY <1>2, <1>4, <1>6, <2>1
  <2> HIDE DEF B
  <2> QED BY <1>1, <1>3, <1>11, <1>12, <2>2, SMTT(30)
<1>14. k = n => part = 0 /\ done + len = Acked(q, n, done)
  <2> HIDE DEF B
  <2> QED BY <1>1, <1>2, <1>3, <1>5, <1>7, <1>12
<1> DEFINE whole == [i \in 1 .. k |-> BytesOf(q[i], q[i].len)]
           rest == IF k < Len(q) THEN BytesOf(q[k + 1], part) ELSE <<>>
<1>15. copiedBytes(b, len) = FlattenSeq(whole) \o rest
  BY Zenon DEF copiedBytes
<1>16. FlattenSeq(whole) = Run(done, B(k))
  <2>1. CASE k = 0
    <3>1. whole = <<>> /\ Len(whole) = 0
      BY <2>1
    <3>2. FlattenSeq(whole) = <<>>
      <4> HIDE DEF whole
      <4> QED BY <3>1 DEF FlattenSeq
    <3>3. Run(done, 0) = <<>>
      BY DEF Run
    <3> QED BY <1>4, <2>1, <3>2, <3>3
  <2>2. CASE k # 0
    <3>1. k \in 1 .. n /\ k \in 1 .. Len(q)
      BY <1>1, <1>2, <1>8, <2>2
    <3>2. Contiguous(q, 1, k) /\ B(k) = (q[k].data + q[k].len) - done
      BY <1>10, <3>1 DEF End
    <3>3. FlattenSeq(whole) = Run(q[1].data, (q[k].data + q[k].len) - q[1].data)
      BY <1>1, <3>1, <3>2, FlattenContiguous
    <3> QED BY <1>9, <3>2, <3>3
  <2> QED BY <2>1, <2>2
<1>17. rest = Run(done + B(k), part)
  <2>1. CASE k < n
    <3>1. k < Len(q) /\ q[k + 1].data = done + B(k)
      BY <1>1, <1>2, <1>11, <2>1
    <3> QED BY <3>1 DEF BytesOf, Run
  <2>2. CASE k = n
    <3>1. part = 0
      BY <1>14, <2>2
    <3>2. Run(done + B(k), 0) = <<>> /\ BytesOf(q[k + 1], 0) = <<>>
      BY DEF Run, BytesOf
    <3> QED BY <3>1, <3>2
  <2> QED BY <1>1, <1>2, <1>8, <2>1, <2>2
<1>18. Run(done, B(k)) \o Run(done + B(k), part) = Run(done, len)
  <2>1. B(k) + part = len /\ done \in Nat /\ part \in Nat
    <3> HIDE DEF B
    <3> QED BY <1>1, <1>3, <1>12
  <2> HIDE DEF B
  <2>2. Run(done, B(k)) \o Run(done + B(k), part) = Run(done, B(k) + part)
    <3> DEFINE j == B(k)
    <3>1. j \in Nat /\ done \in Nat /\ part \in Nat
      BY <1>12, <2>1
    <3> HIDE DEF j
    <3>2. Run(done, j) \o Run(done + j, part) = Run(done, j + part)
      BY <3>1, RunConcat, ZenonT(60)
    <3> QED BY <3>2 DEF j
  <2> QED BY <2>1, <2>2
<1>19. copiedBytes(b, len) = Run(done, len)
  BY <1>15, <1>16, <1>17, <1>18
<1>20. k \in 0 .. n
  BY <1>1, <1>2, <1>8
<1> HIDE DEF B
<1> QED BY <1>12, <1>13, <1>14, <1>19, <1>20 DEF Consuming

\* The list without its first k elements and without part bytes of the next one.
Advance(q, k, part) ==
    LET rest == SubSeq(q, k + 1, Len(q))
    IN  IF part > 0 /\ rest # <<>> THEN [rest EXCEPT ![1] = increment(@, part)] ELSE rest

IsAdvance(isn, size, q, k, part, p) ==
    /\ p \in Seq(StreamElement(isn, size)) /\ Len(p) = Len(q) - k
    /\ \A i \in 1 .. Len(q) - k :
         /\ End(p[i]) = End(q[k + i])
         /\ p[i].data = q[k + i].data + (IF i = 1 THEN part ELSE 0)
         /\ i # 1 \/ part = 0 => p[i] = q[k + i]

LEMMA AdvanceIs ==
  ASSUME NEW isn \in SeqNum, NEW size \in Nat, size < SEQMOD \div 2,
         NEW q \in Seq(StreamElement(isn, size)), NEW k \in 0 .. Len(q), NEW part \in Nat,
         part > 0 => k < Len(q) /\ part < q[k + 1].len
  PROVE  IsAdvance(isn, size, q, k, part, Advance(q, k, part))
<1> DEFINE p == Advance(q, k, part)
           rest == SubSeq(q, k + 1, Len(q))
           n == Len(q) - k
<1>1. size \in Nat /\ Len(q) \in Nat /\ n \in Nat
  OBVIOUS
<1>2. rest \in Seq(StreamElement(isn, size)) /\ Len(rest) = n /\ \A i \in 1 .. n : rest[i] = q[k + i]
  BY <1>1
<1>3. ASSUME NEW i \in 1 .. n
      PROVE  q[k + i] \in StreamElement(isn, size) /\ q[k + i].data \in Nat /\ q[k + i].len \in Nat
  <2>1. k + i \in 1 .. Len(q)
    BY <1>1
  <2>2. q[k + i] \in StreamElement(isn, size) /\ q[k + i].data \in 0 .. size - 1 /\ q[k + i].len \in 1 .. size
    BY <2>1, ListFacts
  <2> QED BY <1>1, <2>2
<1>4. CASE part = 0
  <2>1. p = rest
    BY <1>4 DEF Advance
  <2> HIDE DEF p, rest
  <2>2. ASSUME NEW i \in 1 .. n
        PROVE  /\ End(p[i]) = End(q[k + i]) /\ p[i] = q[k + i]
               /\ p[i].data = q[k + i].data + (IF i = 1 THEN part ELSE 0)
    <3>1. p[i] = q[k + i] /\ q[k + i].data \in Nat
      BY <1>2, <1>3, <2>1
    <3>2. q[k + i].data + (IF i = 1 THEN part ELSE 0) = q[k + i].data
      BY <1>4, <3>1
    <3> QED BY <3>1, <3>2
  <2>3. p \in Seq(StreamElement(isn, size)) /\ Len(p) = n
    BY <1>2, <2>1
  <2>4. IsAdvance(isn, size, q, k, part, p)
    BY <2>2, <2>3 DEF IsAdvance
  <2> QED BY <2>4 DEF p
<1>5. CASE part > 0
  <2> DEFINE e == q[k + 1]
             h == increment(e, part)
  <2>1. 1 \in 1 .. n /\ rest # <<>> /\ rest[1] = e
    <3>1. k < Len(q) /\ n > 0 /\ 1 \in 1 .. n
      BY <1>1, <1>5
    <3> HIDE DEF rest
    <3>2. rest[1] = q[k + 1]
      BY <1>2, <3>1
    <3>3. rest # <<>>
      BY <1>2, <3>1
    <3> QED BY <3>1, <3>2, <3>3
  <2>2. p = [rest EXCEPT ![1] = h]
    BY <1>5, <2>1 DEF Advance
  <2>3. e \in StreamElement(isn, size)
    BY <1>3, <2>1
  <2>4. /\ e.len \in 1 .. size /\ e.data \in 0 .. size - 1 /\ End(e) \in e.data + 1 .. size
        /\ End(e) = e.data + e.len /\ part < e.len /\ e.seqNum = SeqAdd(isn, e.data)
    BY <1>5, <2>3, ElementFacts
  <2> HIDE DEF e
  <2>5. h.len = e.len - part /\ h.data = e.data + part /\ h.seqNum = SeqAdd(isn, e.data + part)
    <3>1. e.data \in 0 .. size /\ part \in Nat /\ e.data + part <= size
      BY <1>1, <2>4, SMTT(30)
    <3> QED BY <2>4, <3>1, StreamAdd DEF increment
  <2>6. e.len - part \in 1 .. size /\ e.data + part \in 0 .. size - 1 /\ e.data + part \in 0 .. size
        /\ (e.data + part) + (e.len - part) = e.data + e.len
    <3> DEFINE x == e.data
               y == e.len
    <3>1. x \in Nat /\ y \in Nat /\ y <= size /\ x + y <= size /\ part < y
      BY <1>1, <2>4
    <3> HIDE DEF x, y
    <3>2. y - part \in 1 .. size /\ x + part \in 0 .. size - 1 /\ x + part \in 0 .. size
          /\ (x + part) + (y - part) = x + y
      BY <1>1, <1>5, <3>1
    <3> QED BY <3>2 DEF x, y
  <2>7. End(h) = End(e)
    BY <2>4, <2>5, <2>6 DEF End
  <2>8. SeqAdd(isn, e.data + part) \in SeqNum
    BY <2>6, StreamCompare
  <2>9. h \in [seqNum : SeqNum, len : 1 .. size, data : 0 .. size - 1]
    BY <2>5, <2>6, <2>8 DEF increment
  <2>10. End(h) <= size /\ h.seqNum = SeqAdd(isn, h.data)
    BY <1>1, <2>4, <2>5, <2>7
  <2> HIDE DEF h, rest, p
  <2>11. h \in StreamElement(isn, size)
    BY <2>9, <2>10 DEF StreamElement
  <2>12. p \in Seq(StreamElement(isn, size)) /\ Len(p) = n /\ p[1] = h /\ \A i \in 1 .. n : i # 1 => p[i] = rest[i]
    BY <1>1, <1>2, <2>1, <2>2, <2>11
  <2>13. ASSUME NEW i \in 1 .. n
         PROVE  /\ End(p[i]) = End(q[k + i])
                /\ p[i].data = q[k + i].data + (IF i = 1 THEN part ELSE 0)
                /\ i # 1 \/ part = 0 => p[i] = q[k + i]
    <3>1. CASE i = 1
      BY <1>5, <2>5, <2>7, <2>12, <3>1 DEF e
    <3>2. CASE i # 1
      BY <1>2, <1>3, <2>12, <3>2
    <3> QED BY <3>1, <3>2
  <2>14. IsAdvance(isn, size, q, k, part, p)
    BY <2>12, <2>13 DEF IsAdvance
  <2> QED BY <2>14 DEF p
<1> QED BY <1>4, <1>5

\* After a read of len bytes the continuous elements that are left continue the
\* stream at the new reading position, up to the same acknowledged position.
LEMMA AdvanceJoined ==
  ASSUME NEW isn \in SeqNum, NEW size \in Nat, size < SEQMOD \div 2,
         NEW q \in Seq(StreamElement(isn, size)), NEW n \in 0 .. Len(q), NEW done \in 0 .. size,
         Joined(q, n, done), NEW len \in Nat, NEW k, NEW part, Consuming(q, n, done, len, k, part),
         NEW p, p = Advance(q, k, part), NEW m, m = n - k, NEW d, d = done + len
  PROVE  /\ p \in Seq(StreamElement(isn, size)) /\ Len(p) = Len(q) - k /\ m \in 0 .. Len(p)
         /\ Joined(p, m, d) /\ Acked(p, m, d) = Acked(q, n, done)
<1> DEFINE r == Len(q) - k
<1>0. /\ k \in 0 .. n /\ part \in Nat
      /\ k < n => q[k + 1].data + part = done + len /\ part < q[k + 1].len
      /\ k = n => part = 0 /\ done + len = Acked(q, n, done)
  BY DEF Consuming
<1>1. size \in Nat /\ Len(q) \in Nat /\ k \in 0 .. Len(q) /\ r \in Nat /\ m \in 0 .. r
  BY <1>0, SMTT(30)
<1>2. part > 0 => k < Len(q) /\ part < q[k + 1].len
  BY <1>0, <1>1
<1>3. /\ p \in Seq(StreamElement(isn, size)) /\ Len(p) = r
      /\ \A i \in 1 .. r :
           /\ End(p[i]) = End(q[k + i])
           /\ p[i].data = q[k + i].data + (IF i = 1 THEN part ELSE 0)
           /\ i # 1 \/ part = 0 => p[i] = q[k + i]
  <2>1. IsAdvance(isn, size, q, k, part, p)
    BY <1>0, <1>1, <1>2, AdvanceIs
  <2> QED BY <2>1 DEF IsAdvance
<1>5. Acked(p, m, d) = Acked(q, n, done)
  <2>1. CASE m = 0
    BY <1>0, <1>1, <2>1 DEF Acked
  <2>2. CASE m # 0
    <3>1. m \in 1 .. r /\ k + m = n /\ n # 0
      BY <1>0, <1>1, <2>2, SMTT(30)
    <3> QED BY <1>0, <1>3, <2>2, <3>1 DEF Acked
  <2> QED BY <2>1, <2>2
<1>6. Joined(p, m, d)
  <2> SUFFICES ASSUME m > 0 PROVE p[1].data = d /\ Contiguous(p, 1, m)
    BY DEF Joined
  <2>1. k < n /\ 1 \in 1 .. r /\ n > 0
    BY <1>0, <1>1
  <2>2. p[1].data = d
    BY <1>0, <1>3, <2>1
  <2>3. ASSUME NEW i \in 1 .. m - 1 PROVE p[i].data + p[i].len = p[i + 1].data
    <3>1. i \in 1 .. r /\ i + 1 \in 1 .. r /\ i + 1 # 1 /\ k + i \in 1 .. n - 1 /\ k + (i + 1) = (k + i) + 1
      <4>1. k \in 0 .. n /\ k \in Nat /\ n \in Nat /\ m = n - k /\ m \in Nat /\ m <= r /\ r \in Nat
        BY <1>0, <1>1
      <4> HIDE DEF r
      <4> QED BY <4>1
    <3>2. q[k + i].data + q[k + i].len = q[(k + i) + 1].data
      BY <2>1, <3>1 DEF Joined, Contiguous
    <3>3. End(p[i]) = End(q[k + i]) /\ p[i + 1] = q[k + (i + 1)]
      BY <1>3, <3>1
    <3> QED BY <3>1, <3>2, <3>3 DEF End
  <2> QED BY <2>2, <2>3 DEF Contiguous
<1> QED BY <1>0, <1>1, <1>3, <1>5, <1>6
=============================================================================
