-------------------------- MODULE UDPSocketsProofs --------------------------
(***************************************************************************)
(* Proofs about UDPSockets, for every number of sockets, ports, blocks and *)
(* queue slots: the list of Demux holds the bound sockets with a port each *)
(* of their own, and every block of a mempool is accounted for.            *)
(***************************************************************************)
EXTENDS UDPSockets, WellFoundedInduction, TLAPS, FiniteSetTheorems

-----------------------------------------------------------------------------
(* Induction over the natural numbers and recursion on an interval, stated  *)
(* for sets and functions, which the provers can instantiate.               *)

\* A set of natural numbers that is not empty has a least element.
LEMMA LeastNatural ==
  ASSUME NEW S, S \subseteq Nat, S # {}
  PROVE  \E m \in S : \A k \in S : m <= k
<1> DEFINE R == OpToRel(<, Nat)
<1>1. \E x \in S : \A y \in S : ~(<<y, x>> \in R)
  <2>1. IsWellFoundedOn(R, Nat)
    BY NatLessThanWellFounded
  <2> HIDE DEF R
  <2> QED BY <2>1, WFMin
<1>2. \A x, y \in Nat : <<y, x>> \in R <=> y < x
  BY DEF OpToRel
<1> HIDE DEF R
<1>3. PICK x \in S : \A y \in S : ~(<<y, x>> \in R)
  BY <1>1
<1>4. \A y \in S : ~(y < x)
  BY <1>2, <1>3
<1>5. \A y \in S : x <= y
  BY <1>4
<1> QED BY <1>5

\* Induction from 0 to m: a set that contains 0, and with n < m also n + 1,
\* contains them all.
LEMMA IntervalInduction ==
  ASSUME NEW S, NEW m \in Nat, 0 \in S,
         \A n \in 0 .. m - 1 : n \in S => n + 1 \in S
  PROVE  \A n \in 0 .. m : n \in S
<1> DEFINE T == {n \in 0 .. m : n \notin S}
<1> SUFFICES ASSUME T # {} PROVE FALSE
  OBVIOUS
<1>1. T \subseteq Nat
  OBVIOUS
<1>2. PICK n \in T : \A k \in T : n <= k
  <2> HIDE DEF T
  <2> QED BY <1>1, LeastNatural
<1>3. n \in 1 .. m
  BY <1>2
<1>4. n - 1 \in S
  BY <1>2, <1>3
<1> QED BY <1>2, <1>3, <1>4

\* f is defined on 0 .. m by recursion: step[<<n, x>>] is its value at n if x is
\* its value at n - 1.
IsRecursive(f, A, a, m, step) ==
  f \in [0 .. m -> A] /\ f[0] = a /\ \A n \in 1 .. m : f[n] = step[<<n, f[n - 1]>>]

\* Such a function exists.
LEMMA Recursion ==
  ASSUME NEW A, NEW a \in A, NEW m \in Nat, NEW step \in [(1 .. m) \X A -> A]
  PROVE  \E f : IsRecursive(f, A, a, m, step)
<1> DEFINE Is(f, k) == f[0] = a /\ \A n \in 1 .. k : f[n] = step[<<n, f[n - 1]>>]
           S == {k \in 0 .. m : \E f \in [0 .. k -> A] : Is(f, k)}
<1>1. 0 \in S
  <2> DEFINE f == [n \in 0 .. 0 |-> a]
  <2>1. f \in [0 .. 0 -> A] /\ Is(f, 0)
    OBVIOUS
  <2>2. 0 \in 0 .. m
    OBVIOUS
  <2> HIDE DEF f, Is
  <2> QED BY <2>1, <2>2
<1>2. ASSUME NEW k \in 0 .. m - 1, k \in S
      PROVE  k + 1 \in S
  <2>1. PICK f \in [0 .. k -> A] : Is(f, k)
    BY <1>2
  <2> DEFINE g == [n \in 0 .. k + 1 |-> IF n = k + 1 THEN step[<<n, f[k]>>] ELSE f[n]]
  <2>2. <<k + 1, f[k]>> \in (1 .. m) \X A
    OBVIOUS
  <2>3. g \in [0 .. k + 1 -> A]
    BY <2>2
  <2>4. ASSUME NEW n \in 1 .. k + 1
        PROVE  g[n] = step[<<n, g[n - 1]>>]
    <3>1. CASE n = k + 1
      BY <3>1
    <3>2. CASE n # k + 1
      <4>1. n \in 1 .. k /\ n \in 0 .. k /\ n - 1 \in 0 .. k
        BY <3>2
      <4>2. f[n] = step[<<n, f[n - 1]>>]
        BY <2>1, <4>1
      <4>3. g[n] = f[n] /\ g[n - 1] = f[n - 1]
        BY <3>2, <4>1
      <4> HIDE DEF g
      <4> QED BY <4>2, <4>3
    <3> QED BY <3>1, <3>2
  <2>5. g[0] = a
    BY <2>1
  <2>6. k + 1 \in 0 .. m
    OBVIOUS
  <2> HIDE DEF g
  <2> QED BY <2>3, <2>4, <2>5, <2>6
<1>3. m \in S
  <2> HIDE DEF S
  <2> QED BY <1>1, <1>2, IntervalInduction
<1> QED BY <1>3 DEF IsRecursive

-----------------------------------------------------------------------------
Port == 0 .. PORTS - 1
AnySocket == [next : Sockets \cup {Nil}, sport : Port]
AnyBuffer == [block : Blocks, for : Datagrams]
AnyEntry == [id : Nat, buffer : AnyBuffer \cup {Nil}]
AnyTask == [at : {"run", "wait", "clear", "use"}, buffer : AnyBuffer \cup {Nil}]
AnyStats == [arrived : Nat, nulls : SUBSET Sockets, full : SUBSET (Sockets \X Blocks),
             got : SUBSET Nat]

LEMMA BufferIs ==
  ASSUME NEW b \in AnyBuffer
  PROVE  b # Nil /\ b.block \in Blocks /\ b.for \in Datagrams
<1>1. b = [block |-> b.block, for |-> b.for] /\ b.block \in Blocks /\ b.for \in Datagrams
  BY DEF AnyBuffer
<1> QED BY <1>1, NilAssumption

\* m is a ReceiveBuffer made of datagram d, and it identifies its sender.
Carries(m, d) == \E behind \in Behind : m = createReceiveBufferUDP(d, behind)

Identifies(m, d) ==
  /\ m.size = Len(d.payload) /\ \A k \in 1 .. m.size : m.bytes[k] = d.payload[k]
  /\ cast(m, d.ver) /\ remote(m, d.ver) = [addr |-> d.src, port |-> d.sport]

\* The reader finds RemoteInfo where the writer has put it, and each of its
\* fields at its offset.
LEMMA CarriesIdentifies ==
  ASSUME NEW d \in Datagrams, NEW m, Carries(m, d)
  PROVE  Identifies(m, d)
<1>1. PICK behind \in Behind : m = createReceiveBufferUDP(d, behind)
  BY DEF Carries
<1> DEFINE n == Len(d.payload)
           at == InfoStart(d)
           v == d.ver
<1>2. /\ v \in {4, 6} /\ n \in Nat /\ d.payload \in Seq(Byte)
      /\ d.sport \in [1 .. 2 -> Byte] /\ d.src \in [1 .. AddrSize(v) -> Byte]
  BY SocketsAssumption
<1>3. m.size = n /\ m.bytes = Bytes(d, behind)
  BY <1>1 DEF createReceiveBufferUDP
<1>4. at = getRemoteInfo(m, v)
  BY <1>2, <1>3 DEF InfoStart, getRemoteInfo
<1>5. at \in Nat /\ n <= at
  <2> DEFINE rest == (n + InfoSize(4)) % 4
             pad == (4 - rest) % 4
  <2>1. n + InfoSize(4) \in Nat
    BY <1>2 DEF InfoSize
  <2>2. rest \in 0 .. 3
    BY <2>1
  <2>3. 4 - rest \in Int
    BY <2>2
  <2>4. pad \in 0 .. 3
    <3> HIDE DEF rest
    <3> QED BY <2>3
  <2>5. at = n + (IF v = 4 THEN pad ELSE 0)
    BY DEF InfoStart
  <2> HIDE DEF pad, at, n
  <2> QED BY <1>2, <2>4, <2>5
<1> DEFINE D == 1 .. at + InfoSize(v)
<1>6. \A k \in D : m.bytes[k] = IF k <= n THEN d.payload[k]
                                ELSE IF k <= at THEN behind ELSE Info(d, behind)[k - at]
  BY <1>3 DEF Bytes
<1>7. \A k \in 1 .. n : k \in D /\ m.bytes[k] = d.payload[k]
  <2> HIDE DEF at, n
  <2>1. \A k \in 1 .. n : k \in D /\ k <= n
    BY <1>2, <1>5 DEF InfoSize
  <2> HIDE DEF D
  <2> QED BY <1>6, <2>1
<1>8. \A j \in 1 .. InfoSize(v) : m.bytes[at + j] = Info(d, behind)[j]
  <2> TAKE j \in 1 .. InfoSize(v)
  <2> HIDE DEF at, n, v
  <2>1. InfoSize(v) \in Nat
    BY DEF InfoSize
  <2>2. at + j \in D /\ ~(at + j <= n) /\ ~(at + j <= at) /\ (at + j) - at = j
    BY <1>2, <1>5, <2>1
  <2> HIDE DEF D
  <2> QED BY <1>6, <2>2
<1>9. \A j \in 1 .. InfoSize(v) :
        Info(d, behind)[j] = IF j = InfoId(v) + 1 THEN Id(v)
                             ELSE IF Within(j, InfoPort(v), 2) THEN d.sport[j - InfoPort(v)]
                             ELSE IF Within(j, InfoAddr(v), AddrSize(v)) THEN d.src[j - InfoAddr(v)]
                             ELSE behind
  BY DEF Info
<1> HIDE DEF at, n
<1>10. /\ InfoId(v) + 1 \in 1 .. InfoSize(v)
       /\ \A k \in 1 .. 2 : /\ InfoPort(v) + k \in 1 .. InfoSize(v) /\ InfoPort(v) + k # InfoId(v) + 1
                            /\ Within(InfoPort(v) + k, InfoPort(v), 2)
                            /\ (InfoPort(v) + k) - InfoPort(v) = k
       /\ \A k \in 1 .. AddrSize(v) :
            /\ InfoAddr(v) + k \in 1 .. InfoSize(v) /\ InfoAddr(v) + k # InfoId(v) + 1
            /\ ~Within(InfoAddr(v) + k, InfoPort(v), 2)
            /\ Within(InfoAddr(v) + k, InfoAddr(v), AddrSize(v))
            /\ (InfoAddr(v) + k) - InfoAddr(v) = k
  BY <1>2 DEF InfoId, InfoPort, InfoAddr, InfoSize, AddrSize, Within
<1>11. cast(m, v)
  <2>1. m.bytes[at + (InfoId(v) + 1)] = Id(v)
    BY <1>8, <1>9, <1>10
  <2>2. at + (InfoId(v) + 1) = at + InfoId(v) + 1
    BY <1>2, <1>5 DEF InfoId
  <2> QED BY <1>4, <2>1, <2>2 DEF cast
<1>12. \A k \in 1 .. 2 : m.bytes[at + InfoPort(v) + k] = d.sport[k]
  <2> TAKE k \in 1 .. 2
  <2>1. m.bytes[at + (InfoPort(v) + k)] = d.sport[k]
    BY <1>8, <1>9, <1>10
  <2>2. at + (InfoPort(v) + k) = at + InfoPort(v) + k
    BY <1>2, <1>5 DEF InfoPort
  <2> QED BY <2>1, <2>2
<1>13. \A k \in 1 .. AddrSize(v) : m.bytes[at + InfoAddr(v) + k] = d.src[k]
  <2> TAKE k \in 1 .. AddrSize(v)
  <2>1. m.bytes[at + (InfoAddr(v) + k)] = d.src[k]
    BY <1>8, <1>9, <1>10
  <2>2. k \in Nat
    BY <1>2 DEF AddrSize
  <2>3. at + (InfoAddr(v) + k) = at + InfoAddr(v) + k
    BY <1>2, <1>5, <2>2 DEF InfoAddr
  <2> QED BY <2>1, <2>3
<1>14. remote(m, v) = [addr |-> d.src, port |-> d.sport]
  <2>1. d.src = [k \in 1 .. AddrSize(v) |-> m.bytes[at + InfoAddr(v) + k]]
    BY <1>2, <1>13
  <2>2. d.sport = [k \in 1 .. 2 |-> m.bytes[at + InfoPort(v) + k]]
    BY <1>2, <1>12
  <2> QED BY <1>4, <2>1, <2>2 DEF remote
<1> QED BY <1>3, <1>7, <1>11, <1>14 DEF Identifies, n

-----------------------------------------------------------------------------
(* The list of Demux.                                                       *)

\* What follows position i of L; position 0 is the head of the list.
After(L, i) == IF i < Len(L) THEN L[i + 1] ELSE Nil

\* L is the list: the bound sockets, each once, linked in this order.
Chain(L) ==
  /\ L \in Seq(Sockets)
  /\ \A i, j \in 1 .. Len(L) : L[i] = L[j] => i = j
  /\ \A s : s \in bound <=> \E i \in 1 .. Len(L) : L[i] = s
  /\ head = After(L, 0)
  /\ \A i \in 1 .. Len(L) : sock[L[i]].next = After(L, i)

LEMMA ChainIsShort ==
  ASSUME NEW L, Chain(L)
  PROVE  Len(L) <= Cardinality(Sockets) /\ Cardinality(Sockets) \in Nat /\ Len(L) \in Nat
<1>1. Len(L) \in Nat /\ L \in [1 .. Len(L) -> Sockets]
  BY DEF Chain
<1>2. IsFiniteSet(Sockets)
  BY SocketsAssumption
<1>3. L \in Injection(1 .. Len(L), Sockets)
  BY <1>1 DEF Chain, Injection, IsInjective
<1> DEFINE n == Len(L)
<1> HIDE DEF n
<1>4. Cardinality(1 .. n) <= Cardinality(Sockets)
  BY <1>2, <1>3, FS_Injection DEF n
<1>5. n \in Int /\ 1 \in Int
  BY <1>1 DEF n
<1>6. Cardinality(1 .. n) = IF 1 > n THEN 0 ELSE n - 1 + 1
  BY <1>5, FS_Interval
<1>7. n \in Nat /\ Cardinality(1 .. n) = n
  BY <1>1, <1>6 DEF n
<1>8. Cardinality(Sockets) \in Nat
  BY <1>2, FS_CardinalityType
<1> QED BY <1>4, <1>7, <1>8 DEF n

\* The walk of the interrupt from the head finds L.
LEMMA ListedIs ==
  ASSUME sock \in [Sockets -> AnySocket], head \in Sockets \cup {Nil}, NEW L, Chain(L)
  PROVE  Listed = L
<1> DEFINE n == Cardinality(Sockets)
           A == Sockets \cup {Nil}
           Is(f) == f = [k \in 0 .. n |-> IF k = 0 THEN head
                                         ELSE IF f[k - 1] = Nil THEN Nil ELSE sock[f[k - 1]].next]
           step == [x \in (1 .. n) \X A |-> IF x[2] = Nil THEN Nil ELSE sock[x[2]].next]
           at == CHOOSE g : Is(g)
           D == {j \in 1 .. n + 1 : \A k \in 0 .. j - 1 : at[k] # Nil}
<1>1. Listed = [i \in D |-> at[i - 1]]
  BY DEF Listed
<1>2. n \in Nat /\ Len(L) \in Nat /\ Len(L) <= n
  BY ChainIsShort
<1>3. head \in A /\ \A x \in Sockets : sock[x].next \in A
  BY DEF AnySocket
<1> HIDE DEF n
<1>4. step \in [(1 .. n) \X A -> A]
  BY <1>3
<1>a. Nil \in A /\ \A x \in A : x # Nil => x \in Sockets
  OBVIOUS
<1> HIDE DEF step, A
<1>5. PICK f : IsRecursive(f, A, head, n, step)
  BY <1>2, <1>3, <1>4, Recursion, Zenon
<1>6. \A k \in 1 .. n : step[<<k, f[k - 1]>>] = IF f[k - 1] = Nil THEN Nil ELSE sock[f[k - 1]].next
  <2> TAKE k \in 1 .. n
  <2>1. k - 1 \in 0 .. n
    BY <1>2
  <2>2. f[k - 1] \in A
    BY <1>5, <2>1 DEF IsRecursive
  <2>3. <<k, f[k - 1]>> \in (1 .. n) \X A
    BY <2>2
  <2> QED BY <2>3 DEF step
<1>7. \A k \in 0 .. n : f[k] = IF k = 0 THEN head
                               ELSE IF f[k - 1] = Nil THEN Nil ELSE sock[f[k - 1]].next
  <2>1. \A k \in 0 .. n : k = 0 \/ k \in 1 .. n
    BY <1>2
  <2> QED BY <1>5, <1>6, <2>1 DEF IsRecursive
<1>8. Is(f)
  BY <1>5, <1>7 DEF IsRecursive
<1>9. Is(at)
  BY <1>8
<1> HIDE DEF at
<1>10. at[0] = head /\ \A k \in 1 .. n : at[k] = IF at[k - 1] = Nil THEN Nil ELSE sock[at[k - 1]].next
  <2> DEFINE v(k) == IF k = 0 THEN head ELSE IF at[k - 1] = Nil THEN Nil ELSE sock[at[k - 1]].next
  <2>1. at = [k \in 0 .. n |-> v(k)]
    BY <1>9
  <2> HIDE DEF v
  <2>2. \A k \in 0 .. n : at[k] = v(k)
    BY <2>1
  <2>3. 0 \in 0 .. n /\ \A k \in 1 .. n : k \in 0 .. n /\ k # 0
    BY <1>2
  <2> QED BY <2>2, <2>3, Zenon DEF v
<1>11. \A i \in 1 .. Len(L) : L[i] \in Sockets /\ L[i] # Nil
  BY SocketsAssumption DEF Chain
<1> DEFINE S == {k \in 0 .. n : at[k] = After(L, k)}
<1>12. 0 \in S
  BY <1>2, <1>10 DEF Chain
<1>13. ASSUME NEW k \in 0 .. n - 1, k \in S PROVE k + 1 \in S
  <2>1. k + 1 \in 1 .. n /\ k + 1 \in 0 .. n /\ (k + 1) - 1 = k /\ k \in Nat
    BY <1>2
  <2>2. at[k + 1] = IF at[k] = Nil THEN Nil ELSE sock[at[k]].next
    BY <1>10, <2>1
  <2>3. CASE k < Len(L)
    <3>1. k + 1 \in 1 .. Len(L)
      BY <1>2, <2>1, <2>3
    <3>2. at[k] = L[k + 1]
      BY <1>13, <2>3 DEF After
    <3>3. at[k + 1] = sock[L[k + 1]].next
      BY <1>11, <2>2, <3>1, <3>2
    <3>4. at[k + 1] = After(L, k + 1)
      BY <3>1, <3>3 DEF Chain
    <3> QED BY <2>1, <3>4
  <2>4. CASE ~(k < Len(L))
    <3>1. at[k] = Nil
      BY <1>13, <2>4 DEF After
    <3>2. ~(k + 1 < Len(L))
      BY <1>2, <2>1, <2>4
    <3> QED BY <2>1, <2>2, <3>1, <3>2 DEF After
  <2> QED BY <2>3, <2>4
<1>14. \A k \in 0 .. n : k \in S
  <2> HIDE DEF S
  <2> QED BY <1>2, <1>12, <1>13, IntervalInduction
<1>15. \A k \in 0 .. n : at[k] = After(L, k)
  BY <1>14
<1>16. \A k \in 0 .. n : at[k] # Nil <=> k < Len(L)
  <2> TAKE k \in 0 .. n
  <2>1. k < Len(L) => k + 1 \in 1 .. Len(L)
    BY <1>2
  <2> QED BY <1>11, <1>15, <2>1 DEF After
<1>17. D = 1 .. Len(L)
  <2>1. ASSUME NEW j \in D PROVE j \in 1 .. Len(L)
    <3>1. j \in 1 .. n + 1 /\ j - 1 \in 0 .. j - 1 /\ j - 1 \in 0 .. n
      BY <1>2
    <3>2. j - 1 < Len(L)
      BY <1>16, <3>1
    <3> QED BY <1>2, <3>1, <3>2
  <2>2. ASSUME NEW j \in 1 .. Len(L) PROVE j \in D
    <3>1. j \in 1 .. n + 1 /\ \A k \in 0 .. j - 1 : k \in 0 .. n /\ k < Len(L)
      BY <1>2
    <3> QED BY <1>16, <3>1
  <2> QED BY <2>1, <2>2
<1>18. \A i \in 1 .. Len(L) : at[i - 1] = L[i]
  <2> TAKE i \in 1 .. Len(L)
  <2>1. i - 1 \in 0 .. n /\ i - 1 < Len(L) /\ (i - 1) + 1 = i
    BY <1>2
  <2> QED BY <1>15, <2>1 DEF After
<1>19. Listed = [i \in 1 .. Len(L) |-> L[i]]
  BY <1>1, <1>17, <1>18
<1>20. L = [i \in 1 .. Len(L) |-> L[i]]
  BY DEF Chain
<1> QED BY <1>19, <1>20

\* The search yields a port that no listed socket has, not below FIRST_PORT.
LEMMA FollowingIs == \A p \in Port : Following(p) \in FIRST_PORT .. PORTS - 1
<1> TAKE p \in Port
<1>1. PORTS \in Nat /\ PORTS > 0 /\ FIRST_PORT \in Nat /\ FIRST_PORT < PORTS
  BY SocketsAssumption
<1> DEFINE x == p + 1
<1>2. x \in Int
  BY <1>1 DEF Port
<1> HIDE DEF x
<1>3. x % PORTS \in 0 .. PORTS - 1
  BY <1>1, <1>2
<1> QED BY <1>1, <1>3 DEF Following, x

LEMMA CandidatesAre ==
  ASSUME last \in Port
  PROVE  \A k \in 1 .. PORTS : Candidates[k] \in FIRST_PORT .. PORTS - 1
<1> DEFINE n == PORTS
           Is(f) == f = [k \in 0 .. n |-> IF k = 0 THEN last ELSE Following(f[k - 1])]
           step == [x \in (1 .. n) \X Port |-> Following(x[2])]
           at == CHOOSE g : Is(g)
<1>1. Candidates = at
  BY DEF Candidates
<1>2. n \in Nat /\ FIRST_PORT \in Nat
  BY SocketsAssumption
<1>3. \A p \in FIRST_PORT .. n - 1 : p \in Port
  BY <1>2 DEF Port
<1>4. step \in [(1 .. n) \X Port -> Port]
  BY <1>3, FollowingIs
<1> HIDE DEF n, step
<1>5. PICK f : IsRecursive(f, Port, last, n, step)
  BY <1>2, <1>4, Recursion, Zenon
<1>6. \A k \in 1 .. n : step[<<k, f[k - 1]>>] = Following(f[k - 1])
  <2> TAKE k \in 1 .. n
  <2>1. k - 1 \in 0 .. n
    BY <1>2
  <2>2. f[k - 1] \in Port
    BY <1>5, <2>1 DEF IsRecursive
  <2>3. <<k, f[k - 1]>> \in (1 .. n) \X Port
    BY <2>2
  <2> QED BY <2>3 DEF step
<1>7. \A k \in 0 .. n : f[k] = IF k = 0 THEN last ELSE Following(f[k - 1])
  <2>1. \A k \in 0 .. n : k = 0 \/ k \in 1 .. n
    BY <1>2
  <2> QED BY <1>5, <1>6, <2>1 DEF IsRecursive
<1>8. Is(f)
  BY <1>5, <1>7 DEF IsRecursive
<1>9. Is(at)
  BY <1>8
<1> HIDE DEF at
<1>10. at[0] = last /\ \A k \in 1 .. n : at[k] = Following(at[k - 1])
  <2> DEFINE v(k) == IF k = 0 THEN last ELSE Following(at[k - 1])
  <2>1. at = [k \in 0 .. n |-> v(k)]
    BY <1>9
  <2> HIDE DEF v
  <2>2. \A k \in 0 .. n : at[k] = v(k)
    BY <2>1
  <2>3. 0 \in 0 .. n /\ \A k \in 1 .. n : k \in 0 .. n /\ k # 0
    BY <1>2
  <2> QED BY <2>2, <2>3, Zenon DEF v
<1> DEFINE S == {k \in 0 .. n : at[k] \in Port}
<1>11. 0 \in S
  BY <1>2, <1>10
<1>12. ASSUME NEW k \in 0 .. n - 1, k \in S PROVE k + 1 \in S
  <2>1. k + 1 \in 1 .. n /\ k + 1 \in 0 .. n /\ (k + 1) - 1 = k
    BY <1>2
  <2>2. at[k + 1] = Following(at[k])
    BY <1>10, <2>1
  <2>3. Following(at[k]) \in FIRST_PORT .. PORTS - 1
    BY <1>12, FollowingIs
  <2> QED BY <1>3, <2>1, <2>2, <2>3 DEF n
<1>13. \A k \in 0 .. n : k \in S
  <2> HIDE DEF S
  <2> QED BY <1>2, <1>11, <1>12, IntervalInduction
<1>14. \A k \in 1 .. n : at[k - 1] \in Port
  <2> TAKE k \in 1 .. n
  <2>1. k - 1 \in 0 .. n
    BY <1>2
  <2> QED BY <1>13, <2>1
<1> QED BY <1>1, <1>10, <1>14, FollowingIs DEF n

LEMMA FreePortIs ==
  ASSUME last \in Port, Free # {}
  PROVE  udp_get_free_port \in FIRST_PORT .. PORTS - 1 /\ udp_get_free_port \notin PortsInUse
<1> DEFINE best == CHOOSE k \in Free : \A j \in Free : k <= j
<1>1. Free \subseteq Nat /\ Free # {}
  BY DEF Free
<1>2. best \in Free
  <2> HIDE DEF best
  <2>1. \E k \in Free : \A j \in Free : k <= j
    BY <1>1, LeastNatural
  <2> QED BY <2>1 DEF best
<1> HIDE DEF best
<1>3. best \in 1 .. PORTS /\ Candidates[best] \notin PortsInUse
  BY <1>2 DEF Free
<1>4. Candidates[best] \in FIRST_PORT .. PORTS - 1
  BY <1>3, CandidatesAre
<1> QED BY <1>3, <1>4 DEF udp_get_free_port, best

-----------------------------------------------------------------------------
(* bind() and unbind().                                                     *)

ListType ==
  /\ head \in Sockets \cup {Nil} /\ last \in Port
  /\ sock \in [Sockets -> AnySocket] /\ bound \subseteq Sockets /\ moved \subseteq bound

\* The ports of the bound sockets that have kept theirs.
OwnPorts ==
  /\ \A s, t \in bound \ moved : s # t => sock[s].sport # sock[t].sport
  /\ \A s \in bound \ moved : sock[s].sport # 0

ListInv == ListType /\ (\E L : Chain(L)) /\ OwnPorts

LEMMA PortsInUseAre ==
  ASSUME ListInv PROVE \A s \in bound : sock[s].sport \in PortsInUse
<1>1. PICK L : Chain(L)
  BY DEF ListInv
<1>2. Listed = L
  BY <1>1, ListedIs DEF ListInv, ListType
<1>3. DOMAIN L = 1 .. Len(L) /\ \A s \in bound : \E i \in 1 .. Len(L) : L[i] = s
  BY <1>1 DEF Chain
<1> QED BY <1>2, <1>3 DEF PortsInUse

\* A socket is put in front of the list.
LEMMA ChainBind ==
  ASSUME NEW L, Chain(L), NEW s \in Sockets, s \notin bound,
         sock \in [Sockets -> AnySocket], NEW port,
         sock' = [sock EXCEPT ![s] = [next |-> head, sport |-> port]],
         head' = s, bound' = bound \cup {s}
  PROVE  \E M : Chain(M)'
<1> DEFINE M == <<s>> \o L
           n == Len(L)
<1>1. /\ L \in Seq(Sockets) /\ n \in Nat
      /\ \A i, j \in 1 .. n : L[i] = L[j] => i = j
      /\ \A x : x \in bound <=> \E i \in 1 .. n : L[i] = x
      /\ head = After(L, 0)
      /\ \A i \in 1 .. n : sock[L[i]].next = After(L, i)
  BY DEF Chain
<1>2. /\ M \in Seq(Sockets) /\ Len(M) = n + 1 /\ M[1] = s
      /\ \A i \in 2 .. n + 1 : M[i] = L[i - 1] /\ i - 1 \in 1 .. n
  BY <1>1
<1> HIDE DEF M
<1>3. \A i \in 1 .. n : L[i] \in Sockets /\ L[i] \in bound /\ L[i] # s
  BY <1>1
<1>4. \A i \in 1 .. n + 1 : i = 1 \/ i \in 2 .. n + 1
  BY <1>1
<1>5. \A i, j \in 1 .. n + 1 : M[i] = M[j] => i = j
  <2> TAKE i, j \in 1 .. n + 1
  <2>1. CASE i = 1 /\ j = 1
    BY <2>1
  <2>2. CASE i = 1 /\ j # 1
    BY <1>2, <1>3, <1>4, <2>2
  <2>3. CASE i # 1 /\ j = 1
    BY <1>2, <1>3, <1>4, <2>3
  <2>4. CASE i # 1 /\ j # 1
    <3>1. i \in 2 .. n + 1 /\ j \in 2 .. n + 1
      BY <1>4, <2>4
    <3>2. M[i] = L[i - 1] /\ M[j] = L[j - 1] /\ i - 1 \in 1 .. n /\ j - 1 \in 1 .. n
      BY <1>2, <3>1
    <3>3. M[i] = M[j] => i - 1 = j - 1
      BY <1>1, <3>2
    <3> QED BY <3>1, <3>3
  <2> QED BY <2>1, <2>2, <2>3, <2>4
<1>6. \A x : x \in bound' <=> \E i \in 1 .. n + 1 : M[i] = x
  <2> TAKE x
  <2>1. \A i \in 1 .. n : i + 1 \in 2 .. n + 1 /\ i + 1 \in 1 .. n + 1 /\ (i + 1) - 1 = i
    BY <1>1
  <2>2. \A i \in 1 .. n : M[i + 1] = L[i]
    BY <1>2, <2>1
  <2>3. x \in bound => \E i \in 1 .. n + 1 : M[i] = x
    BY <1>1, <2>1, <2>2
  <2>4. 1 \in 1 .. n + 1
    BY <1>1
  <2>5. (\E i \in 1 .. n + 1 : M[i] = x) => x = s \/ x \in bound
    BY <1>2, <1>3, <1>4
  <2> QED BY <1>2, <2>3, <2>4, <2>5
<1>7. \A i \in 0 .. n : After(M, i + 1) = After(L, i)
  <2> TAKE i \in 0 .. n
  <2>1. i + 1 < n + 1 <=> i < n
    BY <1>1
  <2>2. i < n => (i + 1) + 1 \in 2 .. n + 1 /\ ((i + 1) + 1) - 1 = i + 1
    BY <1>1
  <2> QED BY <1>2, <2>1, <2>2 DEF After
<1>8. head' = After(M, 0)
  BY <1>1, <1>2 DEF After
<1>9. sock'[s].next = head /\ \A i \in 1 .. n : sock'[L[i]].next = sock[L[i]].next
  BY <1>3
<1>10. ASSUME NEW i \in 1 .. n + 1 PROVE sock'[M[i]].next = After(M, i)
  <2>1. CASE i = 1
    <3>1. After(M, 0 + 1) = After(L, 0)
      BY <1>1, <1>7
    <3> QED BY <1>1, <1>2, <1>9, <2>1, <3>1
  <2>2. CASE i # 1
    <3>1. i \in 2 .. n + 1 /\ i - 1 \in 1 .. n /\ i - 1 \in 0 .. n /\ (i - 1) + 1 = i
      BY <1>1, <1>4, <2>2
    <3>2. M[i] = L[i - 1] /\ After(M, i) = After(L, i - 1)
      BY <1>2, <1>7, <3>1
    <3> QED BY <1>1, <1>9, <3>1, <3>2
  <2> QED BY <2>1, <2>2
<1>11. Chain(M)'
  BY <1>2, <1>5, <1>6, <1>8, <1>10 DEF Chain, After
<1> QED BY <1>11

\* Position j is taken out of the list: its predecessor, or the head, now
\* points to its successor.
LEMMA ChainUnbind ==
  ASSUME NEW L, Chain(L), NEW j \in 1 .. Len(L), ListType,
         bound' = bound \ {L[j]},
         head' = IF j = 1 THEN After(L, 1) ELSE head,
         sock' \in [Sockets -> AnySocket],
         \A c \in Sockets : sock'[c].next = IF j > 1 /\ c = L[j - 1] THEN After(L, j)
                                                                     ELSE sock[c].next
  PROVE  \E M : Chain(M)'
<1> DEFINE n == Len(L)
           M == [i \in 1 .. n - 1 |-> IF i < j THEN L[i] ELSE L[i + 1]]
<1>1. /\ L \in Seq(Sockets) /\ n \in Nat
      /\ \A i, k \in 1 .. n : L[i] = L[k] => i = k
      /\ \A x : x \in bound <=> \E i \in 1 .. n : L[i] = x
      /\ head = After(L, 0)
      /\ \A i \in 1 .. n : L[i] \in Sockets /\ sock[L[i]].next = After(L, i)
  BY DEF Chain
<1>2. n - 1 \in Nat /\ j \in 1 .. n
  BY <1>1
<1>3. M \in Seq(Sockets) /\ Len(M) = n - 1
  <2>1. \A i \in 1 .. n - 1 : i \in 1 .. n /\ i + 1 \in 1 .. n
    BY <1>1
  <2>2. M \in [1 .. n - 1 -> Sockets]
    BY <1>1, <2>1
  <2> DEFINE m == n - 1
  <2>3. M \in [1 .. m -> Sockets] /\ m \in Nat
    BY <1>2, <2>2
  <2> HIDE DEF M, m
  <2>4. M \in Seq(Sockets) /\ Len(M) = m
    BY <2>3
  <2> QED BY <2>4 DEF m
<1>4. \A i \in 1 .. n - 1 : M[i] = IF i < j THEN L[i] ELSE L[i + 1]
  OBVIOUS
<1> HIDE DEF M
\* The position in L of what is at position i of M.
<1> DEFINE at(i) == IF i < j THEN i ELSE i + 1
<1>5. \A i \in 1 .. n - 1 : M[i] = L[at(i)] /\ at(i) \in 1 .. n /\ at(i) # j
  BY <1>1, <1>2, <1>4
<1>6. \A i, k \in 1 .. n - 1 : at(i) = at(k) => i = k
  BY <1>2
<1>7. \A i, k \in 1 .. n - 1 : M[i] = M[k] => i = k
  <2> HIDE DEF at
  <2> QED BY <1>1, <1>5, <1>6
<1>8. \A k \in 1 .. n : k # j => \E i \in 1 .. n - 1 : at(i) = k
  <2> TAKE k \in 1 .. n
  <2>1. CASE k < j
    <3>1. k \in 1 .. n - 1 /\ at(k) = k
      BY <1>2, <2>1
    <3> QED BY <3>1
  <2>2. CASE k > j
    <3>1. k - 1 \in 1 .. n - 1 /\ at(k - 1) = k
      BY <1>2, <2>2
    <3> HIDE DEF at
    <3> QED BY <3>1
  <2> QED BY <1>2, <2>1, <2>2
<1>9. \A x : x \in bound' <=> \E i \in 1 .. n - 1 : M[i] = x
  <2> TAKE x
  <2> HIDE DEF at
  <2>1. ASSUME x \in bound' PROVE \E i \in 1 .. n - 1 : M[i] = x
    <3>1. PICK k \in 1 .. n : L[k] = x
      BY <1>1, <2>1
    <3>2. k # j
      BY <2>1, <3>1
    <3> QED BY <1>5, <1>8, <3>1, <3>2
  <2>2. ASSUME NEW i \in 1 .. n - 1, M[i] = x PROVE x \in bound'
    <3>1. x = L[at(i)] /\ at(i) \in 1 .. n /\ at(i) # j
      BY <1>5, <2>2
    <3>2. x \in bound /\ x # L[j]
      BY <1>1, <1>2, <3>1
    <3> QED BY <3>2
  <2> QED BY <2>1, <2>2
<1>10. \A i \in 0 .. n - 1 : After(M, i) = After(L, IF i + 1 < j THEN i ELSE i + 1)
  <2> TAKE i \in 0 .. n - 1
  <2>1. CASE i + 1 < j
    <3>1. i + 1 \in 1 .. n - 1 /\ i < n - 1 /\ i < n
      BY <1>1, <1>2, <2>1
    <3>2. M[i + 1] = L[i + 1]
      BY <1>4, <2>1, <3>1
    <3> QED BY <1>3, <2>1, <3>1, <3>2 DEF After
  <2>2. CASE ~(i + 1 < j)
    <3>1. i < n - 1 <=> i + 1 < n
      BY <1>1
    <3>2. i < n - 1 => i + 1 \in 1 .. n - 1 /\ ~(i + 1 < j)
      BY <1>1, <2>2
    <3>3. i < n - 1 => M[i + 1] = L[(i + 1) + 1]
      BY <1>4, <3>2
    <3> QED BY <1>3, <2>2, <3>1, <3>3 DEF After
  <2> QED BY <2>1, <2>2
<1>11. head' = After(M, 0)
  <2>1. After(M, 0) = After(L, IF 0 + 1 < j THEN 0 ELSE 0 + 1)
    BY <1>2, <1>10
  <2>2. CASE j = 1
    BY <2>1, <2>2
  <2>3. CASE j # 1
    <3>1. 0 + 1 < j
      BY <1>2, <2>3
    <3> QED BY <1>1, <2>1, <2>3, <3>1
  <2> QED BY <2>2, <2>3
<1>12. ASSUME NEW i \in 1 .. n - 1 PROVE sock'[M[i]].next = After(M, i)
  <2>1. After(M, i) = After(L, IF i + 1 < j THEN i ELSE i + 1) /\ i \in 1 .. n /\ i + 1 \in 1 .. n
    BY <1>1, <1>10
  <2>2. CASE i + 1 < j
    <3>1. M[i] = L[i] /\ i < j
      BY <1>2, <1>4, <2>2
    <3>2. j - 1 \in 1 .. n /\ j - 1 # i
      BY <1>2, <2>2
    <3>3. L[i] # L[j - 1]
      BY <1>1, <2>1, <3>2
    <3> QED BY <1>1, <2>1, <2>2, <3>1, <3>3
  <2>3. CASE i + 1 = j
    <3>1. M[i] = L[i] /\ i = j - 1 /\ j > 1 /\ ~(i + 1 < j)
      BY <1>2, <1>4, <2>3
    <3>2. sock'[L[i]].next = After(L, j)
      BY <1>1, <2>1, <3>1
    <3> QED BY <2>1, <2>3, <3>1, <3>2
  <2>4. CASE i + 1 > j
    <3>1. M[i] = L[i + 1] /\ ~(i + 1 < j)
      BY <1>2, <1>4, <2>4
    <3>2. j > 1 => j - 1 \in 1 .. n /\ j - 1 # i + 1
      BY <1>2, <2>4
    <3>3. j > 1 => L[i + 1] # L[j - 1]
      BY <1>1, <2>1, <3>2
    <3>4. sock'[L[i + 1]].next = sock[L[i + 1]].next
      BY <1>1, <2>1, <3>3
    <3> QED BY <1>1, <2>1, <3>1, <3>4
  <2> QED BY <1>2, <2>2, <2>3, <2>4
<1>13. Chain(M)'
  BY <1>3, <1>7, <1>9, <1>11, <1>12 DEF Chain, After
<1> QED BY <1>13

LEMMA SetSportKeepsList ==
  ASSUME ListInv, NEW s \in Sockets, NEW port \in UserPorts, set_sport(s, port) PROVE ListInv'
<1>1. /\ sock' = [sock EXCEPT ![s].sport = port]
      /\ head' = head /\ last' = last /\ bound' = bound
      /\ moved' = IF s \in bound THEN moved \cup {s} ELSE moved
  BY DEF set_sport
<1>2. port \in Port
  BY SocketsAssumption DEF Port
<1>3. sock \in [Sockets -> AnySocket]
  BY DEF ListInv, ListType
<1>4. /\ sock' \in [Sockets -> AnySocket]
      /\ \A c \in Sockets : sock'[c].next = sock[c].next
      /\ \A c \in Sockets : c # s => sock'[c] = sock[c]
  BY <1>1, <1>2, <1>3 DEF AnySocket
<1>5. ListType'
  BY <1>1, <1>4 DEF ListInv, ListType
<1>6. PICK L : Chain(L)
  BY DEF ListInv
<1>7. \A i \in 1 .. Len(L) : L[i] \in Sockets
  BY <1>6 DEF Chain
<1>8. Chain(L)'
  BY <1>1, <1>4, <1>6, <1>7 DEF Chain, After
\* s is not among the sockets whose port counts.
<1>9. OwnPorts'
  <2>1. \A c \in bound' \ moved' : c \in bound \ moved /\ c \in Sockets /\ c # s
    BY <1>1 DEF ListInv, ListType
  <2>2. \A c \in bound' \ moved' : sock'[c] = sock[c]
    BY <1>4, <2>1
  <2> QED BY <2>1, <2>2 DEF OwnPorts, ListInv
<1> QED BY <1>5, <1>8, <1>9 DEF ListInv

LEMMA BindKeepsList ==
  ASSUME ListInv, NEW s \in Sockets, bind(s) PROVE ListInv'
<1> DEFINE any == sock[s].sport = 0
           port == IF any THEN udp_get_free_port ELSE sock[s].sport
<1>1. /\ IF any THEN Free # {} ELSE port \notin PortsInUse
      /\ sock' = [sock EXCEPT ![s] = [next |-> head, sport |-> port]]
      /\ head' = s /\ bound' = bound \cup {s} /\ moved' = moved
      /\ last' = (IF any THEN port ELSE last) /\ (any => s \notin bound)
  BY DEF bind
<1>2. /\ head \in Sockets \cup {Nil} /\ last \in Port /\ sock \in [Sockets -> AnySocket]
      /\ bound \subseteq Sockets /\ moved \subseteq bound /\ OwnPorts
  BY DEF ListInv, ListType
<1>3. FIRST_PORT \in Nat \ {0} /\ PORTS \in Nat
  BY SocketsAssumption
<1>4. port \in Port /\ port # 0 /\ port \notin PortsInUse
  <2>1. CASE any
    <3>1. udp_get_free_port \in FIRST_PORT .. PORTS - 1 /\ udp_get_free_port \notin PortsInUse
      BY <1>1, <1>2, <2>1, FreePortIs
    <3> QED BY <1>3, <2>1, <3>1 DEF Port
  <2>2. CASE ~any
    BY <1>1, <1>2, <2>2 DEF AnySocket
  <2> QED BY <2>1, <2>2
<1>5. \A c \in bound : sock[c].sport # port
  BY <1>4, PortsInUseAre
\* A socket that is bound already meets its own port.
<1>6. s \notin bound
  BY <1>1, <1>5
<1> HIDE DEF port, any
<1>7. ListType'
  BY <1>1, <1>2, <1>4 DEF ListType, AnySocket
<1>8. \E M : Chain(M)'
  BY <1>1, <1>2, <1>6, ChainBind DEF ListInv
<1>9. OwnPorts'
  <2>1. sock'[s].sport = port /\ \A c \in bound : sock'[c] = sock[c]
    BY <1>1, <1>2, <1>6
  <2> QED BY <1>1, <1>2, <1>4, <1>5, <2>1 DEF OwnPorts
<1> QED BY <1>7, <1>8, <1>9 DEF ListInv

LEMMA UnbindKeepsList ==
  ASSUME ListInv, NEW s \in Sockets, unbind(s) PROVE ListInv'
<1>1. PICK L : Chain(L)
  BY DEF ListInv
<1>2. Listed = L
  BY <1>1, ListedIs DEF ListInv, ListType
<1>3. /\ head # Nil /\ bound' = bound \ {s} /\ moved' = moved \ {s} /\ last' = last
      /\ IF head = s THEN head' = sock[s].next /\ sock' = sock
         ELSE /\ sock' = [c \in Sockets |->
                           IF sock[c].next = s /\ \E i \in DOMAIN L : c = L[i]
                             THEN [sock[c] EXCEPT !.next = sock[s].next] ELSE sock[c]]
              /\ head' = head
  BY <1>2 DEF unbind
<1>4. /\ head \in Sockets \cup {Nil} /\ last \in Port /\ sock \in [Sockets -> AnySocket]
      /\ bound \subseteq Sockets /\ moved \subseteq bound /\ OwnPorts /\ ListType
  BY DEF ListInv, ListType
<1>5. /\ L \in Seq(Sockets) /\ Len(L) \in Nat /\ DOMAIN L = 1 .. Len(L)
      /\ \A i, k \in 1 .. Len(L) : L[i] = L[k] => i = k
      /\ \A x : x \in bound <=> \E i \in 1 .. Len(L) : L[i] = x
      /\ head = After(L, 0) /\ \A i \in 1 .. Len(L) : L[i] \in Sockets /\ sock[L[i]].next = After(L, i)
  BY <1>1 DEF Chain
<1>6. 0 < Len(L) /\ head = L[1] /\ 1 \in 1 .. Len(L)
  BY <1>3, <1>5 DEF After
<1>7. sock' \in [Sockets -> AnySocket]
  <2>1. CASE head = s
    BY <1>3, <1>4, <2>1
  <2>2. CASE head # s
    <3>1. \A c \in Sockets : [sock[c] EXCEPT !.next = sock[s].next] \in AnySocket
      BY <1>4 DEF AnySocket
    <3> QED BY <1>3, <1>4, <2>2, <3>1
  <2> QED BY <2>1, <2>2
<1>8. \A c \in Sockets : sock'[c].sport = sock[c].sport
  <2>1. CASE head = s
    BY <1>3, <2>1
  <2>2. CASE head # s
    <3>1. \A c \in Sockets : [sock[c] EXCEPT !.next = sock[s].next].sport = sock[c].sport
      BY <1>4 DEF AnySocket
    <3> QED BY <1>3, <2>2, <3>1
  <2> QED BY <2>1, <2>2
<1>9. OwnPorts'
  BY <1>3, <1>4, <1>8 DEF OwnPorts
<1>10. head' \in Sockets \cup {Nil}
  BY <1>3, <1>4 DEF AnySocket
<1>11. ListType'
  BY <1>3, <1>4, <1>7, <1>10 DEF ListType
<1>12. \E M : Chain(M)'
  <2>1. CASE head = s
    <3>1. /\ head' = After(L, 1) /\ sock' = sock /\ s = L[1]
      BY <1>3, <1>5, <1>6, <2>1
    <3>2. /\ bound' = bound \ {L[1]} /\ head' = (IF 1 = 1 THEN After(L, 1) ELSE head)
          /\ \A c \in Sockets : sock'[c].next = IF 1 > 1 /\ c = L[1 - 1] THEN After(L, 1)
                                                                         ELSE sock[c].next
      BY <1>3, <3>1
    <3> QED BY <1>1, <1>4, <1>6, <1>7, <3>2, ChainUnbind
  <2>2. CASE head # s /\ s \in bound
    <3>1. PICK j \in 1 .. Len(L) : L[j] = s
      BY <1>5, <2>2
    <3>2. j > 1 /\ j - 1 \in 1 .. Len(L) /\ (j - 1) + 1 = j /\ j - 1 < Len(L)
      BY <1>5, <1>6, <2>2, <3>1
    <3>3. \A i \in 1 .. Len(L) : After(L, i) = s <=> i = j - 1
      <4> TAKE i \in 1 .. Len(L)
      <4>1. CASE i < Len(L)
        <5>1. i + 1 \in 1 .. Len(L)
          BY <1>5, <4>1
        <5>2. L[i + 1] = s <=> i + 1 = j
          BY <1>5, <3>1, <5>1
        <5> QED BY <1>5, <4>1, <5>2 DEF After
      <4>2. CASE ~(i < Len(L))
        <5>1. i # j - 1
          BY <1>5, <4>2
        <5> QED BY <4>2, <5>1, SocketsAssumption DEF After
      <4> QED BY <4>1, <4>2
    <3>4. ASSUME NEW c \in Sockets
          PROVE  (sock[c].next = s /\ \E i \in DOMAIN L : c = L[i]) <=> c = L[j - 1]
      BY <1>5, <3>2, <3>3
    <3>5. sock[s].next = After(L, j) /\ head' = head
      BY <1>3, <1>5, <2>2, <3>1
    <3>6. \A c \in Sockets : sock'[c].next = IF j > 1 /\ c = L[j - 1] THEN After(L, j)
                                                                     ELSE sock[c].next
      <4>1. \A c \in Sockets : [sock[c] EXCEPT !.next = sock[s].next].next = After(L, j)
        BY <1>4, <3>5 DEF AnySocket
      <4> QED BY <1>3, <2>2, <3>2, <3>4, <4>1
    <3>7. head' = IF j = 1 THEN After(L, 1) ELSE head
      BY <3>2, <3>5
    <3>8. bound' = bound \ {L[j]}
      BY <1>3, <3>1
    <3> QED BY <1>1, <1>4, <1>7, <3>6, <3>7, <3>8, ChainUnbind
  <2>3. CASE head # s /\ s \notin bound
    <3>1. \A i \in 1 .. Len(L) : After(L, i) # s
      <4> TAKE i \in 1 .. Len(L)
      <4>1. CASE i < Len(L)
        <5>1. i + 1 \in 1 .. Len(L)
          BY <1>5, <4>1
        <5> QED BY <1>5, <2>3, <4>1, <5>1 DEF After
      <4>2. CASE ~(i < Len(L))
        BY <4>2, SocketsAssumption DEF After
      <4> QED BY <4>1, <4>2
    <3>2. \A c \in Sockets : ~(sock[c].next = s /\ \E i \in DOMAIN L : c = L[i])
      BY <1>5, <3>1
    <3>3. sock' = sock /\ head' = head /\ bound' = bound
      <4>1. sock' = [c \in Sockets |-> sock[c]]
        BY <1>3, <2>3, <3>2
      <4> QED BY <1>3, <1>4, <2>3, <4>1
    <3>4. Chain(L)'
      BY <1>1, <3>3 DEF Chain, After
    <3> QED BY <3>4
  <2> QED BY <2>1, <2>2, <2>3
<1> QED BY <1>9, <1>11, <1>12 DEF ListInv

-----------------------------------------------------------------------------
(* The blocks of one socket: q is its queue, t the buffer of its task, P    *)
(* the free blocks and F the ones that a full queue has lost.               *)

Full(q, i) == q[i].buffer # Nil

Accounts(q, t, P, F) ==
  /\ P \subseteq Blocks /\ F \subseteq Blocks /\ P \cap F = {}
  /\ \A i \in 1 .. Len(q) : Full(q, i) => q[i].buffer.block \notin P /\ q[i].buffer.block \notin F
  /\ t # Nil => t.block \notin P /\ t.block \notin F
  /\ \A i, j \in 1 .. Len(q) :
       Full(q, i) /\ Full(q, j) /\ q[i].buffer.block = q[j].buffer.block => i = j
  /\ \A i \in 1 .. Len(q) : Full(q, i) /\ t # Nil => q[i].buffer.block # t.block
  /\ \A b \in Blocks : \/ b \in P \/ b \in F
                       \/ t # Nil /\ t.block = b
                       \/ \E i \in 1 .. Len(q) : Full(q, i) /\ q[i].buffer.block = b

\* A datagram with a block of its own is queued.
LEMMA AccountsTake ==
  ASSUME NEW q \in Seq(AnyEntry), NEW t \in AnyBuffer \cup {Nil}, NEW P, NEW F, Accounts(q, t, P, F),
         NEW e \in AnyEntry, e.buffer # Nil, e.buffer.block \in P
  PROVE  Accounts(Append(q, e), t, P \ {e.buffer.block}, F)
<1> DEFINE Q == Append(q, e)
           n == Len(q)
           B == e.buffer.block
           R == P \ {B}
<1>1. n \in Nat /\ Len(Q) = n + 1 /\ Q[n + 1] = e /\ \A i \in 1 .. n : Q[i] = q[i]
  OBVIOUS
<1>2. /\ \A i \in 1 .. n + 1 : i \in 1 .. n \/ i = n + 1
      /\ \A i \in 1 .. n : i \in 1 .. n + 1
      /\ n + 1 \in 1 .. n + 1
  BY <1>1
<1> HIDE DEF Q, n
<1>3. /\ P \subseteq Blocks /\ F \subseteq Blocks /\ P \cap F = {} /\ B \in P /\ B \in Blocks /\ B \notin F
      /\ \A i \in 1 .. n : Full(q, i) => q[i].buffer.block \notin P /\ q[i].buffer.block \notin F
      /\ t # Nil => t.block \notin P /\ t.block \notin F
      /\ \A i, j \in 1 .. n : Full(q, i) /\ Full(q, j) /\ q[i].buffer.block = q[j].buffer.block => i = j
      /\ \A i \in 1 .. n : Full(q, i) /\ t # Nil => q[i].buffer.block # t.block
      /\ \A b \in Blocks : \/ b \in P \/ b \in F
                           \/ t # Nil /\ t.block = b
                           \/ \E i \in 1 .. n : Full(q, i) /\ q[i].buffer.block = b
  BY DEF Accounts, n
<1>4. /\ \A i \in 1 .. n : Full(Q, i) <=> Full(q, i)
      /\ Full(Q, n + 1)
  BY <1>1 DEF Full
<1> HIDE DEF B
<1>5. \A i \in 1 .. n : Full(Q, i) => Q[i].buffer.block # B
  BY <1>1, <1>3, <1>4
<1>6. Q[n + 1].buffer.block = B
  BY <1>1 DEF B
<1>7. R \subseteq Blocks /\ R \cap F = {}
  BY <1>3
<1>8. \A i \in 1 .. n + 1 : Full(Q, i) => Q[i].buffer.block \notin R /\ Q[i].buffer.block \notin F
  BY <1>1, <1>2, <1>3, <1>4, <1>6
<1>9. \A i, j \in 1 .. n + 1 : Full(Q, i) /\ Full(Q, j) /\ Q[i].buffer.block = Q[j].buffer.block => i = j
  BY <1>1, <1>2, <1>3, <1>4, <1>5, <1>6
<1>10. \A i \in 1 .. n + 1 : Full(Q, i) /\ t # Nil => Q[i].buffer.block # t.block
  BY <1>1, <1>2, <1>3, <1>4, <1>6
<1>11. ASSUME NEW b \in Blocks
       PROVE  \/ b \in R \/ b \in F
              \/ t # Nil /\ t.block = b
              \/ \E i \in 1 .. n + 1 : Full(Q, i) /\ Q[i].buffer.block = b
  BY <1>1, <1>2, <1>3, <1>4, <1>6
<1>12. t # Nil => t.block \notin R /\ t.block \notin F
  BY <1>3
<1>13. Accounts(Q, t, R, F)
  <2> HIDE DEF R
  <2> QED BY <1>1, <1>3, <1>7, <1>8, <1>9, <1>10, <1>11, <1>12 DEF Accounts
<1> QED BY <1>13 DEF Q, B

\* A null pointer is queued.
LEMMA AccountsNull ==
  ASSUME NEW q \in Seq(AnyEntry), NEW t \in AnyBuffer \cup {Nil}, NEW P, NEW F, Accounts(q, t, P, F),
         NEW e \in AnyEntry, e.buffer = Nil
  PROVE  Accounts(Append(q, e), t, P, F)
<1> DEFINE Q == Append(q, e)
           n == Len(q)
<1>1. n \in Nat /\ Len(Q) = n + 1 /\ Q[n + 1] = e /\ \A i \in 1 .. n : Q[i] = q[i]
  OBVIOUS
<1>2. /\ \A i \in 1 .. n + 1 : i \in 1 .. n \/ i = n + 1
      /\ \A i \in 1 .. n : i \in 1 .. n + 1
  BY <1>1
<1> HIDE DEF Q
<1>3. /\ \A i \in 1 .. n : Full(Q, i) <=> Full(q, i)
      /\ ~Full(Q, n + 1)
  BY <1>1 DEF Full
<1>4. \A i \in 1 .. n + 1 : Full(Q, i) => i \in 1 .. n /\ Full(q, i) /\ Q[i] = q[i]
  BY <1>1, <1>2, <1>3
<1>5. \A i \in 1 .. n : Full(q, i) => i \in 1 .. n + 1 /\ Full(Q, i) /\ Q[i] = q[i]
  BY <1>1, <1>2, <1>3
<1>6. Accounts(Q, t, P, F)
  BY <1>1, <1>4, <1>5 DEF Accounts
<1> QED BY <1>6 DEF Q

\* The queue is full: the block of the datagram is lost.
LEMMA AccountsLose ==
  ASSUME NEW q \in Seq(AnyEntry), NEW t \in AnyBuffer \cup {Nil}, NEW P, NEW F, Accounts(q, t, P, F),
         NEW b \in P
  PROVE  Accounts(q, t, P \ {b}, F \cup {b})
BY DEF Accounts

\* The task takes the first buffer, or null pointer, of the queue.
LEMMA AccountsGet ==
  ASSUME NEW q \in Seq(AnyEntry), q # <<>>, NEW P, NEW F, Accounts(q, Nil, P, F)
  PROVE  Accounts(Tail(q), q[1].buffer, P, F)
<1> DEFINE Q == Tail(q)
           n == Len(q) - 1
<1>1. n \in Nat /\ Len(q) = n + 1 /\ Len(Q) = n /\ \A i \in 1 .. n : Q[i] = q[i + 1]
  OBVIOUS
<1>2. /\ \A i \in 1 .. n + 1 : i = 1 \/ (i - 1 \in 1 .. n /\ (i - 1) + 1 = i)
      /\ \A i \in 1 .. n : i + 1 \in 1 .. n + 1 /\ i + 1 # 1
      /\ \A i, j \in 1 .. n : i + 1 = j + 1 => i = j
      /\ 1 \in 1 .. n + 1
  BY <1>1
<1> DEFINE t == q[1].buffer
<1> HIDE DEF Q, n, t
<1>3. /\ P \subseteq Blocks /\ F \subseteq Blocks /\ P \cap F = {}
      /\ \A i \in 1 .. n + 1 : Full(q, i) => q[i].buffer.block \notin P /\ q[i].buffer.block \notin F
      /\ \A i, j \in 1 .. n + 1 : Full(q, i) /\ Full(q, j) /\ q[i].buffer.block = q[j].buffer.block => i = j
      /\ \A b \in Blocks : \/ b \in P \/ b \in F
                           \/ \E i \in 1 .. n + 1 : Full(q, i) /\ q[i].buffer.block = b
  BY <1>1 DEF Accounts
<1>4. /\ \A i \in 1 .. n : Full(Q, i) <=> Full(q, i + 1)
      /\ Full(q, 1) <=> t # Nil
  BY <1>1 DEF Full, t
<1>5. \A i \in 1 .. n : Full(Q, i) => Q[i].buffer.block \notin P /\ Q[i].buffer.block \notin F
  BY <1>1, <1>2, <1>3, <1>4
<1>6. t # Nil => t.block \notin P /\ t.block \notin F
  BY <1>2, <1>3, <1>4 DEF t
<1>7. \A i, j \in 1 .. n : Full(Q, i) /\ Full(Q, j) /\ Q[i].buffer.block = Q[j].buffer.block => i = j
  <2> TAKE i, j \in 1 .. n
  <2> HAVE Full(Q, i) /\ Full(Q, j) /\ Q[i].buffer.block = Q[j].buffer.block
  <2>1. i + 1 = j + 1
    BY <1>1, <1>2, <1>3, <1>4, SMTT(30)
  <2> QED BY <1>2, <2>1
<1>8. \A i \in 1 .. n : Full(Q, i) /\ t # Nil => Q[i].buffer.block # t.block
  <2> TAKE i \in 1 .. n
  <2> HAVE Full(Q, i) /\ t # Nil
  <2>1. Full(q, i + 1) /\ Full(q, 1) /\ i + 1 # 1 /\ i + 1 \in 1 .. n + 1 /\ 1 \in 1 .. n + 1
    BY <1>2, <1>4
  <2>2. q[i + 1].buffer.block # q[1].buffer.block
    BY <1>3, <2>1
  <2> QED BY <1>1, <2>2 DEF t
<1>9. ASSUME NEW b \in Blocks
      PROVE  \/ b \in P \/ b \in F
             \/ t # Nil /\ t.block = b
             \/ \E i \in 1 .. n : Full(Q, i) /\ Q[i].buffer.block = b
  <2> SUFFICES ASSUME b \notin P, b \notin F
               PROVE  (t # Nil /\ t.block = b) \/ \E i \in 1 .. n : Full(Q, i) /\ Q[i].buffer.block = b
    OBVIOUS
  <2>1. PICK i \in 1 .. n + 1 : Full(q, i) /\ q[i].buffer.block = b
    BY <1>3
  <2>2. CASE i = 1
    BY <1>4, <2>1, <2>2 DEF t
  <2>3. CASE i # 1
    <3>1. i - 1 \in 1 .. n /\ (i - 1) + 1 = i
      BY <1>2, <2>3
    <3>2. Full(Q, i - 1) /\ Q[i - 1].buffer.block = b
      BY <1>1, <1>4, <2>1, <3>1
    <3> QED BY <3>1, <3>2
  <2> QED BY <2>2, <2>3
<1>10. Accounts(Q, t, P, F)
  BY <1>1, <1>3, <1>5, <1>6, <1>7, <1>8, <1>9 DEF Accounts
<1> QED BY <1>10 DEF Q, t

\* The task frees its buffer.
LEMMA AccountsFree ==
  ASSUME NEW q \in Seq(AnyEntry), NEW t \in AnyBuffer, NEW P, NEW F, Accounts(q, t, P, F)
  PROVE  Accounts(q, Nil, P \cup {t.block}, F)
<1>1. t # Nil /\ t.block \in Blocks
  BY BufferIs
<1> QED BY <1>1 DEF Accounts

-----------------------------------------------------------------------------
(* The inductive invariant.                                                 *)

Lost(s) == {b \in Blocks : <<s, b>> \in stats.full}

ReceiveType ==
  /\ pool \in [Sockets -> SUBSET Blocks] /\ event \in [Sockets -> BOOLEAN]
  /\ queue \in [Sockets -> Seq(AnyEntry)] /\ task \in [Sockets -> AnyTask]
  /\ stats \in AnyStats

\* What holds of the receive queue, the task and the blocks of socket s.
Receives(s) ==
  /\ Len(queue[s]) < BUFFERSIZE
  /\ task[s].at = "use" <=> task[s].buffer # Nil
  /\ Accounts(queue[s], task[s].buffer, pool[s], Lost(s))

ReceiveInv == ReceiveType /\ \A s \in Sockets : Receives(s)

MemType == mem = [s \in Sockets |-> [b \in Blocks |-> mem[s][b]]]

\* The blocks of the buffers that are queued or held carry their datagrams.
Holds(m, b) == b # Nil => Carries(m[b.block], b.for)
Intact(s) ==
  /\ Holds(mem[s], task[s].buffer)
  /\ \A i \in 1 .. Len(queue[s]) : Holds(mem[s], queue[s][i].buffer)

MemInv == MemType /\ \A s \in Sockets : Intact(s)

IInv == ListInv /\ ReceiveInv /\ MemInv

LEMMA ListSame ==
  ASSUME ListInv, UNCHANGED demuxVars PROVE ListInv'
<1>1. head' = head /\ last' = last /\ sock' = sock /\ bound' = bound /\ moved' = moved
  BY DEF demuxVars
<1>2. ListType' /\ OwnPorts'
  BY <1>1 DEF ListInv, ListType, OwnPorts
<1>3. PICK L : Chain(L)
  BY DEF ListInv
<1>4. Chain(L)'
  BY <1>1, <1>3 DEF Chain, After
<1> QED BY <1>2, <1>4 DEF ListInv

LEMMA ReceiveSame ==
  ASSUME ReceiveInv, MemInv, UNCHANGED receiveVars PROVE ReceiveInv' /\ MemInv'
<1>1. /\ pool' = pool /\ queue' = queue /\ event' = event /\ task' = task /\ stats' = stats
      /\ mem' = mem
  BY DEF receiveVars
<1>2. ReceiveType'
  BY <1>1 DEF ReceiveInv, ReceiveType
<1>3. ASSUME NEW s \in Sockets PROVE Receives(s)'
  <2>1. Receives(s)
    BY DEF ReceiveInv
  <2>2. Lost(s)' = Lost(s)
    BY <1>1 DEF Lost
  <2> QED BY <1>1, <2>1, <2>2 DEF Receives
<1>4. MemInv'
  BY <1>1 DEF MemInv, MemType, Intact, Holds
<1> QED BY <1>2, <1>3, <1>4 DEF ReceiveInv

\* A socket that a step does not touch.
LEMMA ReceivesSame ==
  ASSUME NEW s \in Sockets, Receives(s), queue'[s] = queue[s], pool'[s] = pool[s],
         task'[s] = task[s], Lost(s)' = Lost(s)
  PROVE  Receives(s)'
BY DEF Receives

LEMMA InitIInv == Init => IInv
<1> HAVE Init
<1>1. /\ head = Nil /\ last = FirstLast /\ bound = {} /\ moved = {}
      /\ sock = [s \in Sockets |-> [next |-> Nil, sport |-> 0]]
  BY DEF Init, NewSocket
<1>2. 0 \in Port /\ FirstLast \in Port
  BY SocketsAssumption DEF Port
<1>3. ListType /\ OwnPorts
  BY <1>1, <1>2 DEF ListType, OwnPorts, AnySocket
<1>4. Chain(<<>>)
  <2> DEFINE e == <<>>
  <2>1. e \in Seq(Sockets) /\ Len(e) = 0
    OBVIOUS
  <2>2. ~(0 < 0) /\ \A i \in 1 .. 0 : FALSE
    OBVIOUS
  <2> HIDE DEF e
  <2>3. Chain(e)
    BY <1>1, <2>1, <2>2 DEF Chain, After
  <2> QED BY <2>3 DEF e
<1>5. /\ pool = [s \in Sockets |-> Blocks]
      /\ mem = [s \in Sockets |-> [b \in Blocks |-> FreeBlock]]
      /\ queue = [s \in Sockets |-> <<>>]
      /\ event = [s \in Sockets |-> FALSE]
      /\ task = [s \in Sockets |-> [at |-> "run", buffer |-> Nil]]
      /\ stats = [arrived |-> 0, nulls |-> {}, full |-> {}, got |-> {}]
  BY DEF Init
<1>6. ReceiveType
  <2>1. <<>> \in Seq(AnyEntry)
    OBVIOUS
  <2>2. [at |-> "run", buffer |-> Nil] \in AnyTask
    BY DEF AnyTask
  <2>3. stats \in AnyStats
    BY <1>5 DEF AnyStats
  <2> QED BY <1>5, <2>1, <2>2, <2>3 DEF ReceiveType
<1>7. ASSUME NEW s \in Sockets PROVE Receives(s)
  <2>1. queue[s] = <<>> /\ pool[s] = Blocks /\ task[s] = [at |-> "run", buffer |-> Nil]
    BY <1>5
  <2>2. task[s].at = "run" /\ task[s].buffer = Nil
    BY <2>1
  <2>3. Lost(s) = {}
    BY <1>5 DEF Lost
  <2>4. Len(queue[s]) = 0 /\ \A i \in 1 .. 0 : FALSE
    BY <2>1
  <2>5. Accounts(queue[s], Nil, Blocks, {})
    BY <2>4 DEF Accounts
  <2>6. Len(queue[s]) < BUFFERSIZE
    BY <2>4, SocketsAssumption
  <2> QED BY <2>1, <2>2, <2>3, <2>5, <2>6 DEF Receives
<1>8. MemInv
  <2>1. MemType
    BY <1>5 DEF MemType
  <2>2. ASSUME NEW s \in Sockets PROVE Intact(s)
    <3>1. queue[s] = <<>> /\ task[s].buffer = Nil
      BY <1>5
    <3>2. Len(queue[s]) = 0
      BY <3>1
    <3> QED BY <3>1, <3>2 DEF Intact, Holds
  <2> QED BY <2>1, <2>2 DEF MemInv
<1> QED BY <1>3, <1>4, <1>6, <1>7, <1>8 DEF IInv, ListInv, ReceiveInv

-----------------------------------------------------------------------------
(* A datagram arrives; the task receives it.                                *)

LEMMA ArriveKeeps ==
  ASSUME ReceiveInv, NEW s \in Sockets, NEW d \in Datagrams, ArriveAt(s, d) PROVE ReceiveInv'
<1>1. PICK r \in IF Fits(d) /\ pool[s] # {}
                   THEN {[block |-> CHOOSE b \in pool[s] : TRUE, for |-> d]} ELSE {Nil} :
        /\ pool' = [pool EXCEPT ![s] = @ \ (IF r = Nil THEN {} ELSE {r.block})]
        /\ queue' = [queue EXCEPT ![s] = IF isFull(s) THEN @
                                         ELSE Append(@, [id |-> stats.arrived, buffer |-> r])]
        /\ event' = [event EXCEPT ![s] = @ \/ ~isFull(s)]
        /\ stats' = [stats EXCEPT !.arrived = stats.arrived + 1,
                                  !.nulls = IF r = Nil /\ ~isFull(s) THEN @ \cup {s} ELSE @,
                                  !.full = IF isFull(s) /\ r # Nil THEN @ \cup {<<s, r.block>>} ELSE @]
  BY DEF ArriveAt
<1>2. task' = task
  BY DEF ArriveAt
<1>3. ReceiveType /\ Receives(s)
  BY DEF ReceiveInv
<1>4. r = Nil \/ (r \in AnyBuffer /\ r.block \in pool[s])
  <2>1. CASE r # Nil
    <3> DEFINE block == CHOOSE b \in pool[s] : TRUE
    <3>1. pool[s] # {} /\ r = [block |-> block, for |-> d]
      BY <1>1, <2>1
    <3>2. block \in pool[s] /\ block \in Blocks
      BY <1>3, <3>1 DEF ReceiveType
    <3> HIDE DEF block
    <3>3. r \in AnyBuffer /\ r.block = block
      BY <3>1, <3>2 DEF AnyBuffer
    <3> QED BY <3>2, <3>3
  <2> QED BY <2>1
<1> DEFINE e == [id |-> stats.arrived, buffer |-> r]
<1>5. stats.arrived \in Nat /\ stats.nulls \subseteq Sockets
      /\ stats.full \subseteq Sockets \X Blocks /\ stats.got \subseteq Nat
  BY <1>3 DEF ReceiveType, AnyStats
<1>6. e \in AnyEntry /\ e.buffer = r
  BY <1>4, <1>5 DEF AnyEntry
<1> HIDE DEF e
<1>7. /\ queue' = [queue EXCEPT ![s] = IF isFull(s) THEN @ ELSE Append(@, e)]
      /\ queue \in [Sockets -> Seq(AnyEntry)] /\ task \in [Sockets -> AnyTask]
      /\ pool \in [Sockets -> SUBSET Blocks] /\ event \in [Sockets -> BOOLEAN]
  BY <1>1, <1>3 DEF e, ReceiveType
<1>8. /\ queue'[s] = (IF isFull(s) THEN queue[s] ELSE Append(queue[s], e))
      /\ \A c \in Sockets : c # s => queue'[c] = queue[c] /\ pool'[c] = pool[c]
      /\ pool'[s] = (IF r = Nil THEN pool[s] ELSE pool[s] \ {r.block})
  BY <1>1, <1>7
<1>9. stats'.full = IF isFull(s) /\ r # Nil THEN stats.full \cup {<<s, r.block>>} ELSE stats.full
  BY <1>1, <1>3 DEF ReceiveType, AnyStats
<1>10. queue' \in [Sockets -> Seq(AnyEntry)]
  <2>1. queue[s] \in Seq(AnyEntry)
    BY <1>7
  <2>2. Append(queue[s], e) \in Seq(AnyEntry)
    BY <1>6, <2>1
  <2> QED BY <1>7, <2>1, <2>2
<1>11. stats' \in AnyStats
  <2>1. r # Nil => r.block \in Blocks
    BY <1>4, BufferIs
  <2> DEFINE N == IF r = Nil /\ ~isFull(s) THEN stats.nulls \cup {s} ELSE stats.nulls
             F == IF isFull(s) /\ r # Nil THEN stats.full \cup {<<s, r.block>>} ELSE stats.full
  <2>2. stats \in AnyStats
    BY <1>3 DEF ReceiveType
  <2>3. N \subseteq Sockets /\ F \subseteq Sockets \X Blocks /\ stats.arrived + 1 \in Nat
    BY <1>5, <2>1
  <2>4. stats' = [stats EXCEPT !.arrived = stats.arrived + 1, !.nulls = N, !.full = F]
    BY <1>1
  <2> HIDE DEF N, F
  <2> QED BY <2>2, <2>3, <2>4 DEF AnyStats
<1>12. ReceiveType'
  <2>1. pool' \in [Sockets -> SUBSET Blocks] /\ event' \in [Sockets -> BOOLEAN]
    BY <1>1, <1>7
  <2> QED BY <1>2, <1>7, <1>10, <1>11, <2>1 DEF ReceiveType
<1>13. Lost(s)' = IF isFull(s) /\ r # Nil THEN Lost(s) \cup {r.block} ELSE Lost(s)
  <2>1. r # Nil => r.block \in Blocks
    BY <1>4, BufferIs
  <2> QED BY <1>9, <2>1 DEF Lost
<1>14. ASSUME NEW c \in Sockets, c # s PROVE Receives(c)'
  <2>1. Lost(c)' = Lost(c)
    BY <1>9, <1>14 DEF Lost
  <2>2. Receives(c)
    BY DEF ReceiveInv
  <2> QED BY <1>2, <1>8, <1>14, <2>1, <2>2, ReceivesSame
<1>15. Receives(s)'
  <2> DEFINE q == queue[s]
             t == task[s].buffer
  <2>1. /\ q \in Seq(AnyEntry) /\ Len(q) \in Nat /\ t \in AnyBuffer \cup {Nil}
        /\ Accounts(q, t, pool[s], Lost(s)) /\ Len(q) < BUFFERSIZE
    BY <1>3, <1>7 DEF Receives, AnyTask
  <2>2. isFull(s) <=> Len(q) = BUFFERSIZE - 1
    BY DEF isFull
  <2> HIDE DEF q, t
  <2>3. CASE isFull(s) /\ r = Nil
    BY <1>2, <1>3, <1>8, <1>13, <2>3, ReceivesSame
  <2>4. CASE isFull(s) /\ r # Nil
    <3>1. Accounts(q, t, pool[s] \ {r.block}, Lost(s) \cup {r.block})
      BY <1>4, <2>1, <2>4, AccountsLose
    <3>2. queue'[s] = q /\ task'[s].buffer = t
      BY <1>2, <1>8, <2>4 DEF q, t
    <3>3. Accounts(queue'[s], task'[s].buffer, pool'[s], Lost(s)')
      BY <1>8, <1>13, <2>4, <3>1, <3>2
    <3> QED BY <1>2, <1>3, <2>1, <3>2, <3>3 DEF Receives
  <2>5. CASE ~isFull(s)
    <3>1. Len(q) + 1 < BUFFERSIZE
      BY <2>1, <2>2, <2>5, SocketsAssumption
    <3>2. Accounts(Append(q, e), t, pool'[s], Lost(s))
      <4>1. CASE r = Nil
        <5>1. pool'[s] = pool[s]
          BY <1>8, <4>1
        <5> QED BY <1>6, <2>1, <4>1, <5>1, AccountsNull
      <4>2. CASE r # Nil
        <5>1. pool'[s] = pool[s] \ {e.buffer.block} /\ e.buffer.block \in pool[s] /\ e.buffer # Nil
          BY <1>4, <1>6, <1>8, <4>2
        <5> QED BY <1>6, <2>1, <5>1, AccountsTake
      <4> QED BY <4>1, <4>2
    <3>3. queue'[s] = Append(q, e) /\ task'[s].buffer = t /\ Lost(s)' = Lost(s)
      BY <1>2, <1>8, <1>13, <2>5 DEF q, t
    <3>4. Len(Append(q, e)) = Len(q) + 1
      BY <2>1
    <3> QED BY <1>2, <1>3, <3>1, <3>2, <3>3, <3>4 DEF Receives
  <2> QED BY <2>3, <2>4, <2>5
<1> QED BY <1>12, <1>14, <1>15 DEF ReceiveInv

LEMMA GetKeeps ==
  ASSUME ReceiveInv, NEW s \in Sockets, ReceiveGet(s) PROVE ReceiveInv'
<1> DEFINE r == IF queue[s] = <<>> THEN Nil ELSE queue[s][1].buffer
           at == IF r = Nil THEN "wait" ELSE "use"
<1>1. /\ task[s].at = "run"
      /\ queue' = [queue EXCEPT ![s] = IF @ = <<>> THEN @ ELSE Tail(@)]
      /\ task' = [task EXCEPT ![s] = [at |-> at, buffer |-> r]]
      /\ stats' = [stats EXCEPT !.got = IF r = Nil THEN @ ELSE @ \cup {queue[s][1].id}]
      /\ pool' = pool /\ event' = event
  BY DEF ReceiveGet
<1>2. ReceiveType /\ Receives(s)
  BY DEF ReceiveInv
<1>3. queue[s] \in Seq(AnyEntry) /\ queue \in [Sockets -> Seq(AnyEntry)] /\ task \in [Sockets -> AnyTask]
      /\ stats \in AnyStats
  BY <1>2 DEF ReceiveType
<1>4. queue[s] # <<>> => queue[s][1] \in AnyEntry /\ Tail(queue[s]) \in Seq(AnyEntry)
                         /\ Len(Tail(queue[s])) = Len(queue[s]) - 1
  BY <1>3
<1>5. r \in AnyBuffer \cup {Nil} /\ (r # Nil => queue[s] # <<>> /\ queue[s][1].id \in Nat)
  BY <1>4 DEF AnyEntry
<1>6. task[s].buffer = Nil
  BY <1>1, <1>2 DEF Receives
<1>7. Accounts(queue[s], Nil, pool[s], Lost(s)) /\ Len(queue[s]) < BUFFERSIZE /\ Len(queue[s]) \in Nat
  BY <1>2, <1>3, <1>6 DEF Receives
<1> DEFINE q == IF queue[s] = <<>> THEN queue[s] ELSE Tail(queue[s])
<1>8. q \in Seq(AnyEntry) /\ Len(q) < BUFFERSIZE
  BY <1>3, <1>4, <1>7, SocketsAssumption
<1>9. Accounts(q, r, pool[s], Lost(s))
  <2>1. CASE queue[s] = <<>>
    BY <1>7, <2>1
  <2>2. CASE queue[s] # <<>>
    <3>1. Accounts(Tail(queue[s]), queue[s][1].buffer, pool[s], Lost(s))
      BY <1>3, <1>7, <2>2, AccountsGet
    <3> QED BY <2>2, <3>1
  <2> QED BY <2>1, <2>2
<1>10. queue' = [queue EXCEPT ![s] = q]
  BY <1>1
<1>11. stats' \in AnyStats /\ stats'.full = stats.full
  BY <1>1, <1>3, <1>5 DEF AnyStats
<1>12. at \in {"run", "wait", "clear", "use"} /\ (at = "use" <=> r # Nil)
  OBVIOUS
<1> HIDE DEF r, q, at
<1> DEFINE T == [at |-> at, buffer |-> r]
<1>13. T \in AnyTask /\ T.at = at /\ T.buffer = r /\ task' = [task EXCEPT ![s] = T]
  BY <1>1, <1>5, <1>12 DEF AnyTask
<1> HIDE DEF T
<1>14. ReceiveType'
  BY <1>1, <1>2, <1>3, <1>8, <1>10, <1>11, <1>13 DEF ReceiveType
<1>15. \A c \in Sockets : Lost(c)' = Lost(c)
  BY <1>11 DEF Lost
<1>16. ASSUME NEW c \in Sockets, c # s PROVE Receives(c)'
  <2>1. queue'[c] = queue[c] /\ task'[c] = task[c] /\ pool'[c] = pool[c]
    BY <1>1, <1>3, <1>10, <1>13, <1>16
  <2>2. Receives(c)
    BY DEF ReceiveInv
  <2> QED BY <1>15, <2>1, <2>2, ReceivesSame
<1>17. Receives(s)'
  <2>1. queue'[s] = q /\ task'[s] = T /\ pool'[s] = pool[s]
    BY <1>1, <1>3, <1>10, <1>13
  <2> QED BY <1>8, <1>9, <1>12, <1>13, <1>15, <2>1 DEF Receives
<1> QED BY <1>14, <1>16, <1>17 DEF ReceiveInv

\* WaitEvent and ClearEvent: the task goes on without a buffer.
LEMMA BlockKeeps ==
  ASSUME ReceiveInv, NEW s \in Sockets, WaitEvent(s) \/ ClearEvent(s) PROVE ReceiveInv'
<1>1. PICK at \in {"run", "clear"} :
        /\ task[s].at # "use" /\ task' = [task EXCEPT ![s].at = at]
        /\ pool' = pool /\ queue' = queue /\ stats' = stats
        /\ event' = event \/ event' = [event EXCEPT ![s] = FALSE]
  BY DEF WaitEvent, ClearEvent
<1>2. ReceiveType
  BY DEF ReceiveInv
<1>3. ReceiveType'
  <2>1. task' \in [Sockets -> AnyTask]
    <3>1. task \in [Sockets -> AnyTask] /\ task[s] \in AnyTask
      BY <1>2 DEF ReceiveType
    <3>2. [task[s] EXCEPT !.at = at] \in AnyTask
      BY <3>1 DEF AnyTask
    <3> QED BY <1>1, <3>1, <3>2
  <2>2. event' \in [Sockets -> BOOLEAN]
    BY <1>1, <1>2 DEF ReceiveType
  <2> QED BY <1>1, <1>2, <2>1, <2>2 DEF ReceiveType
<1>4. ASSUME NEW c \in Sockets PROVE Receives(c)'
  <2>1. Receives(c) /\ Lost(c)' = Lost(c)
    BY <1>1 DEF ReceiveInv, Lost
  <2>2. CASE c # s
    <3>1. task'[c] = task[c]
      BY <1>1, <1>2, <2>2 DEF ReceiveType
    <3> QED BY <1>1, <2>1, <3>1, ReceivesSame
  <2>3. CASE c = s
    <3>1. task'[s].buffer = task[s].buffer /\ task'[s].at # "use"
      BY <1>1, <1>2 DEF ReceiveType, AnyTask
    <3> QED BY <1>1, <2>1, <2>3, <3>1 DEF Receives
  <2> QED BY <2>2, <2>3
<1> QED BY <1>3, <1>4 DEF ReceiveInv

LEMMA FreeKeeps ==
  ASSUME ReceiveInv, NEW s \in Sockets, free(s) PROVE ReceiveInv'
<1> DEFINE T == [at |-> "run", buffer |-> Nil]
           b == task[s].buffer
<1>1. /\ task[s].at = "use" /\ pool' = [pool EXCEPT ![s] = @ \cup {b.block}]
      /\ task' = [task EXCEPT ![s] = T] /\ queue' = queue /\ event' = event /\ stats' = stats
  BY DEF free
<1>2. ReceiveType /\ Receives(s)
  BY DEF ReceiveInv
<1>3. T \in AnyTask /\ T.at = "run" /\ T.buffer = Nil
  BY DEF AnyTask
<1>4. b # Nil /\ b \in AnyBuffer
  BY <1>1, <1>2 DEF ReceiveType, Receives, AnyTask
<1>5. b.block \in Blocks
  BY <1>4, BufferIs
<1> HIDE DEF T
<1>6. /\ queue[s] \in Seq(AnyEntry) /\ Accounts(queue[s], b, pool[s], Lost(s))
  BY <1>2 DEF ReceiveType, Receives
<1> HIDE DEF b
<1>7. Accounts(queue[s], Nil, pool[s] \cup {b.block}, Lost(s))
  BY <1>4, <1>6, AccountsFree
<1>8. ReceiveType'
  BY <1>1, <1>2, <1>3, <1>5 DEF ReceiveType
<1>9. \A c \in Sockets : Lost(c)' = Lost(c)
  BY <1>1 DEF Lost
<1>10. ASSUME NEW c \in Sockets, c # s PROVE Receives(c)'
  <2>1. task'[c] = task[c] /\ pool'[c] = pool[c]
    BY <1>1, <1>2, <1>10 DEF ReceiveType
  <2>2. Receives(c)
    BY DEF ReceiveInv
  <2> QED BY <1>1, <1>9, <2>1, <2>2, ReceivesSame
<1>11. Receives(s)'
  <2>1. task'[s] = T /\ pool'[s] = pool[s] \cup {b.block}
    BY <1>1, <1>2 DEF ReceiveType
  <2> QED BY <1>1, <1>2, <1>3, <1>7, <1>9, <2>1 DEF Receives
<1> QED BY <1>8, <1>10, <1>11 DEF ReceiveInv

\* The block that a datagram is put in was free: no buffer is in it.
LEMMA ArriveKeepsMem ==
  ASSUME ReceiveInv, MemInv, NEW s \in Sockets, NEW d \in Datagrams, ArriveAt(s, d) PROVE MemInv'
<1>1. PICK r \in IF Fits(d) /\ pool[s] # {}
                   THEN {[block |-> CHOOSE b \in pool[s] : TRUE, for |-> d]} ELSE {Nil},
           behind \in Behind :
        /\ mem' = IF r = Nil THEN mem
                  ELSE [mem EXCEPT ![s][r.block] = createReceiveBufferUDP(d, behind)]
        /\ queue' = [queue EXCEPT ![s] = IF isFull(s) THEN @
                                         ELSE Append(@, [id |-> stats.arrived, buffer |-> r])]
  BY DEF ArriveAt
<1>2. task' = task
  BY DEF ArriveAt
<1>3. ReceiveType /\ Receives(s)
  BY DEF ReceiveInv
<1>4. MemType /\ \A c \in Sockets : Intact(c)
  BY DEF MemInv
<1>5. r # Nil => r.block \in pool[s] /\ r.block \in Blocks /\ r.for = d
  <2> SUFFICES ASSUME r # Nil PROVE r.block \in pool[s] /\ r.block \in Blocks /\ r.for = d
    OBVIOUS
  <2> DEFINE block == CHOOSE b \in pool[s] : TRUE
  <2>1. pool[s] # {} /\ r = [block |-> block, for |-> d]
    BY <1>1
  <2>2. block \in pool[s]
    BY <2>1
  <2>3. pool[s] \subseteq Blocks
    BY <1>3 DEF ReceiveType
  <2> HIDE DEF block
  <2> QED BY <2>1, <2>2, <2>3
<1> DEFINE m == createReceiveBufferUDP(d, behind)
           e == [id |-> stats.arrived, buffer |-> r]
<1>6. Carries(m, d)
  BY DEF Carries
<1>7. e.buffer = r
  OBVIOUS
<1> HIDE DEF m, e
<1>8. queue' = [queue EXCEPT ![s] = IF isFull(s) THEN @ ELSE Append(@, e)]
  BY <1>1 DEF e
<1>9. mem' = IF r = Nil THEN mem ELSE [mem EXCEPT ![s][r.block] = m]
  BY <1>1 DEF m
<1>10. /\ \A c \in Sockets : c # s => mem'[c] = mem[c] /\ queue'[c] = queue[c]
       /\ \A b \in Blocks : r = Nil \/ b # r.block => mem'[s][b] = mem[s][b]
       /\ r # Nil => mem'[s][r.block] = m
       /\ MemType'
  <2>1. CASE r = Nil
    BY <1>3, <1>4, <1>8, <1>9, <2>1 DEF MemType, ReceiveType
  <2>2. CASE r # Nil
    BY <1>3, <1>4, <1>5, <1>8, <1>9, <2>2 DEF MemType, ReceiveType
  <2> QED BY <2>1, <2>2
<1>11. ASSUME NEW c \in Sockets, c # s PROVE Intact(c)'
  BY <1>2, <1>4, <1>10, <1>11 DEF Intact, Holds
\* The buffers there were keep their bytes, ...
<1>12. ASSUME NEW b \in AnyBuffer \cup {Nil}, Holds(mem[s], b), b # Nil => b.block \notin pool[s]
       PROVE  Holds(mem'[s], b)
  <2>1. b # Nil => b.block \in Blocks
    BY BufferIs
  <2>2. b # Nil => r = Nil \/ b.block # r.block
    BY <1>5, <1>12
  <2>3. b # Nil => mem'[s][b.block] = mem[s][b.block]
    BY <1>10, <2>1, <2>2
  <2> QED BY <1>12, <2>3 DEF Holds
\* ... and the new one has those of d.
<1>13. Holds(mem'[s], r)
  BY <1>5, <1>6, <1>10 DEF Holds
<1>14. Intact(s)'
  <2> DEFINE q == queue[s]
             t == task[s].buffer
  <2>1. q \in Seq(AnyEntry) /\ Len(q) \in Nat /\ t \in AnyBuffer \cup {Nil}
    BY <1>3 DEF ReceiveType, AnyTask
  <2>2. /\ t # Nil => t.block \notin pool[s]
        /\ \A i \in 1 .. Len(q) : q[i].buffer # Nil => q[i].buffer.block \notin pool[s]
    BY <1>3 DEF Receives, Accounts, Full
  <2>3. Holds(mem[s], t) /\ \A i \in 1 .. Len(q) : Holds(mem[s], q[i].buffer)
    BY <1>4 DEF Intact
  <2>4. queue'[s] = (IF isFull(s) THEN q ELSE Append(q, e)) /\ task'[s].buffer = t
    BY <1>2, <1>3, <1>8 DEF ReceiveType
  <2> HIDE DEF q, t
  <2>5. Holds(mem'[s], t)
    BY <1>12, <2>1, <2>2, <2>3
  <2>6. ASSUME NEW i \in 1 .. Len(q) PROVE Holds(mem'[s], q[i].buffer)
    <3>0. q[i] \in AnyEntry
      BY <2>1
    <3>1. q[i].buffer \in AnyBuffer \cup {Nil}
      BY <3>0 DEF AnyEntry
    <3>2. Holds(mem[s], q[i].buffer) /\ (q[i].buffer # Nil => q[i].buffer.block \notin pool[s])
      BY <2>2, <2>3
    <3> QED BY <1>12, <3>1, <3>2
  <2>7. CASE isFull(s)
    BY <2>4, <2>5, <2>6, <2>7 DEF Intact, Holds
  <2>8. CASE ~isFull(s)
    <3> DEFINE Q == Append(q, e)
    <3>1. /\ Len(Q) = Len(q) + 1 /\ Q[Len(q) + 1] = e
          /\ \A i \in 1 .. Len(q) : Q[i] = q[i]
          /\ \A i \in 1 .. Len(q) + 1 : i \in 1 .. Len(q) \/ i = Len(q) + 1
      BY <2>1
    <3>2. queue'[s] = Q
      BY <2>4, <2>8
    <3> HIDE DEF Q
    <3>3. \A i \in 1 .. Len(Q) : Q[i].buffer = r \/ \E j \in 1 .. Len(q) : Q[i].buffer = q[j].buffer
      BY <1>7, <3>1
    <3>4. \A i \in 1 .. Len(Q) : Holds(mem'[s], Q[i].buffer)
      BY <1>13, <2>6, <3>3 DEF Holds
    <3> QED BY <2>4, <2>5, <3>2, <3>4 DEF Intact, Holds
  <2> QED BY <2>7, <2>8
<1> QED BY <1>10, <1>11, <1>14 DEF MemInv

LEMMA GetKeepsMem ==
  ASSUME ReceiveInv, MemInv, NEW s \in Sockets, ReceiveGet(s) PROVE MemInv'
<1> DEFINE r == IF queue[s] = <<>> THEN Nil ELSE queue[s][1].buffer
           at == IF r = Nil THEN "wait" ELSE "use"
           q == IF queue[s] = <<>> THEN queue[s] ELSE Tail(queue[s])
<1>1. queue' = [queue EXCEPT ![s] = q] /\ mem' = mem
      /\ task' = [task EXCEPT ![s] = [at |-> at, buffer |-> r]]
  BY DEF ReceiveGet
<1>2. /\ queue \in [Sockets -> Seq(AnyEntry)] /\ task \in [Sockets -> AnyTask]
      /\ MemType /\ \A c \in Sockets : Intact(c)
  BY DEF ReceiveInv, ReceiveType, MemInv
<1>3. queue[s] \in Seq(AnyEntry)
  BY <1>2
<1>4. queue[s] # <<>> => /\ 1 \in 1 .. Len(queue[s])
                         /\ \A i \in 1 .. Len(Tail(queue[s])) :
                              i + 1 \in 1 .. Len(queue[s]) /\ Tail(queue[s])[i] = queue[s][i + 1]
  BY <1>3
<1>5. \A i \in 1 .. Len(queue[s]) : Holds(mem[s], queue[s][i].buffer)
  BY <1>2 DEF Intact
<1>6. Holds(mem[s], r)
  BY <1>4, <1>5 DEF Holds
<1>7. \A i \in 1 .. Len(q) : Holds(mem[s], q[i].buffer)
  <2>1. CASE queue[s] = <<>>
    BY <1>5, <2>1
  <2>2. CASE queue[s] # <<>>
    BY <1>4, <1>5, <2>2
  <2> QED BY <2>1, <2>2
<1> HIDE DEF r, at, q
<1>8. queue'[s] = q /\ task'[s].buffer = r
      /\ \A c \in Sockets : c # s => queue'[c] = queue[c] /\ task'[c] = task[c]
  BY <1>1, <1>2
<1>9. \A c \in Sockets : Intact(c)'
  BY <1>1, <1>2, <1>6, <1>7, <1>8 DEF Intact, Holds
<1> QED BY <1>1, <1>2, <1>9 DEF MemInv, MemType

LEMMA BlockKeepsMem ==
  ASSUME ReceiveInv, MemInv, NEW s \in Sockets, WaitEvent(s) \/ ClearEvent(s) PROVE MemInv'
<1>1. PICK at : task' = [task EXCEPT ![s].at = at] /\ mem' = mem /\ queue' = queue
  BY DEF WaitEvent, ClearEvent
<1>2. task \in [Sockets -> AnyTask] /\ MemType /\ \A c \in Sockets : Intact(c)
  BY DEF ReceiveInv, ReceiveType, MemInv
<1>3. \A c \in Sockets : task'[c].buffer = task[c].buffer
  BY <1>1, <1>2 DEF AnyTask
<1>4. \A c \in Sockets : Intact(c)'
  BY <1>1, <1>2, <1>3 DEF Intact, Holds
<1> QED BY <1>1, <1>2, <1>4 DEF MemInv, MemType

\* The block that is freed is the task's alone.
LEMMA FreeKeepsMem ==
  ASSUME ReceiveInv, MemInv, NEW s \in Sockets, free(s) PROVE MemInv'
<1> DEFINE T == [at |-> "run", buffer |-> Nil]
           b == task[s].buffer
<1>1. /\ task[s].at = "use" /\ mem' = [mem EXCEPT ![s][b.block] = FreeBlock]
      /\ task' = [task EXCEPT ![s] = T] /\ queue' = queue
  BY DEF free
<1>2. ReceiveType /\ Receives(s) /\ MemType /\ \A c \in Sockets : Intact(c)
  BY DEF ReceiveInv, MemInv
<1>3. T.buffer = Nil
  OBVIOUS
<1> HIDE DEF T
<1>4. b # Nil /\ b \in AnyBuffer
  BY <1>1, <1>2 DEF ReceiveType, Receives, AnyTask
<1>5. b.block \in Blocks
  BY <1>4, BufferIs
<1>6. \A i \in 1 .. Len(queue[s]) : queue[s][i].buffer # Nil => queue[s][i].buffer.block # b.block
  BY <1>2, <1>4 DEF Receives, Accounts, Full
<1>7. \A i \in 1 .. Len(queue[s]) : queue[s][i].buffer # Nil => queue[s][i].buffer.block \in Blocks
  <2> TAKE i \in 1 .. Len(queue[s])
  <2>1. queue[s] \in Seq(AnyEntry)
    BY <1>2 DEF ReceiveType
  <2>2. queue[s][i] \in AnyEntry
    BY <2>1
  <2>3. queue[s][i].buffer \in AnyBuffer \cup {Nil}
    BY <2>2 DEF AnyEntry
  <2> QED BY <2>3, BufferIs
<1> HIDE DEF b
<1>8. /\ \A c \in Sockets : c # s => mem'[c] = mem[c] /\ task'[c] = task[c]
      /\ \A k \in Blocks : k # b.block => mem'[s][k] = mem[s][k]
      /\ task'[s].buffer = Nil /\ MemType'
  BY <1>1, <1>2, <1>3, <1>5 DEF ReceiveType, MemType
<1>9. ASSUME NEW c \in Sockets, c # s PROVE Intact(c)'
  BY <1>1, <1>2, <1>8, <1>9 DEF Intact, Holds
<1>10. Intact(s)'
  BY <1>1, <1>2, <1>6, <1>7, <1>8 DEF Intact, Holds
<1> QED BY <1>8, <1>9, <1>10 DEF MemInv

LEMMA StepKeeps == IInv /\ [Next]_vars => IInv'
<1> SUFFICES ASSUME IInv, [Next]_vars PROVE IInv'
  OBVIOUS
<1>1. ListInv /\ ReceiveInv /\ MemInv
  BY DEF IInv
<1>2. ASSUME NEW s \in Sockets, NEW port \in UserPorts, set_sport(s, port) PROVE IInv'
  <2>1. UNCHANGED receiveVars
    BY <1>2 DEF set_sport
  <2> QED BY <1>1, <1>2, <2>1, SetSportKeepsList, ReceiveSame DEF IInv
<1>3. ASSUME NEW s \in Sockets, bind(s) PROVE IInv'
  <2>1. UNCHANGED receiveVars
    BY <1>3 DEF bind
  <2> QED BY <1>1, <1>3, <2>1, BindKeepsList, ReceiveSame DEF IInv
<1>4. ASSUME NEW s \in Sockets, unbind(s) PROVE IInv'
  <2>1. UNCHANGED receiveVars
    BY <1>4 DEF unbind
  <2> QED BY <1>1, <1>4, <2>1, UnbindKeepsList, ReceiveSame DEF IInv
<1>5. ASSUME NEW s \in Sockets, TaskStep(s) PROVE IInv'
  <2>1. UNCHANGED demuxVars
    BY <1>5 DEF TaskStep, ReceiveGet, WaitEvent, ClearEvent, free
  <2>2. ReceiveInv' /\ MemInv'
    BY <1>1, <1>5, GetKeeps, BlockKeeps, FreeKeeps, GetKeepsMem, BlockKeepsMem, FreeKeepsMem
       DEF TaskStep
  <2> QED BY <1>1, <2>1, <2>2, ListSame DEF IInv
<1>6. ASSUME NEW d \in Datagrams, Arrive(d) PROVE IInv'
  <2>1. PICK L : Chain(L)
    BY <1>1 DEF ListInv
  <2>2. Listed = L
    BY <1>1, <2>1, ListedIs DEF ListInv, ListType
  <2>3. PICK i \in DOMAIN L : ArriveAt(L[i], d)
    BY <1>6, <2>2 DEF Arrive
  <2>4. L[i] \in Sockets
    BY <2>1, <2>3 DEF Chain
  <2>5. UNCHANGED demuxVars
    BY <2>3 DEF ArriveAt
  <2>6. ReceiveInv' /\ MemInv'
    BY <1>1, <2>3, <2>4, ArriveKeeps, ArriveKeepsMem
  <2> QED BY <1>1, <2>5, <2>6, ListSame DEF IInv
<1>7. CASE UNCHANGED vars
  <2>1. UNCHANGED demuxVars /\ UNCHANGED receiveVars
    BY <1>7 DEF vars, demuxVars, receiveVars
  <2> QED BY <1>1, <2>1, ListSame, ReceiveSame DEF IInv
<1> QED BY <1>2, <1>3, <1>4, <1>5, <1>6, <1>7 DEF Next

THEOREM SocketsInvariant == Spec => []IInv
BY InitIInv, StepKeeps, PTL DEF Spec

-----------------------------------------------------------------------------
(* What the invariant says of the properties.                               *)

LEMMA BuffersAre ==
  ASSUME IInv, NEW s \in Sockets
  PROVE  /\ Buffers(s) \subseteq AnyBuffer
         /\ \A b \in Buffers(s) : \/ b = task[s].buffer /\ b # Nil
                                  \/ \E i \in 1 .. Len(queue[s]) : Full(queue[s], i) /\ b = queue[s][i].buffer
         /\ task[s].buffer # Nil => task[s].buffer \in Buffers(s)
         /\ \A i \in 1 .. Len(queue[s]) : Full(queue[s], i) => queue[s][i].buffer \in Buffers(s)
<1> DEFINE q == queue[s]
           t == task[s].buffer
<1>1. q \in Seq(AnyEntry) /\ t \in AnyBuffer \cup {Nil}
  BY DEF IInv, ReceiveInv, ReceiveType, AnyTask
<1>2. DOMAIN q = 1 .. Len(q) /\ \A i \in 1 .. Len(q) : q[i].buffer \in AnyBuffer \cup {Nil}
  <2> HIDE DEF q, t
  <2>1. DOMAIN q = 1 .. Len(q) /\ \A i \in 1 .. Len(q) : q[i] \in AnyEntry
    BY <1>1
  <2> QED BY <2>1 DEF AnyEntry
<1>3. Buffers(s) = {q[i].buffer : i \in {j \in DOMAIN q : q[j].buffer # Nil}}
                     \cup (IF t = Nil THEN {} ELSE {t})
  BY DEF Buffers
<1> HIDE DEF q, t
<1>4. \A b : b \in Buffers(s) <=> \/ b = t /\ b # Nil
                                  \/ \E i \in 1 .. Len(q) : Full(q, i) /\ b = q[i].buffer
  BY <1>2, <1>3 DEF Full
<1>5. Buffers(s) \subseteq AnyBuffer
  BY <1>1, <1>2, <1>4 DEF Full
<1> QED BY <1>4, <1>5 DEF q, t

LEMMA IInvImpliesType == IInv => TypeOK
<1> HAVE IInv
<1>1. ListType /\ ReceiveType /\ \A s \in Sockets : Receives(s)
  BY DEF IInv, ListInv, ReceiveInv
<1>2. \A s \in Sockets : Len(queue[s]) < BUFFERSIZE /\ task[s].at \in {"run", "wait", "clear", "use"}
  BY <1>1 DEF Receives, ReceiveType, AnyTask
<1> QED BY <1>1, <1>2 DEF TypeOK, ListType, ReceiveType, AnySocket, Port

LEMMA IInvImpliesBoundOnce == IInv => BoundOnce
<1> HAVE IInv
<1>1. ListInv
  BY DEF IInv
<1>2. PICK L : Chain(L)
  BY <1>1 DEF ListInv
<1>3. Listed = L
  BY <1>1, <1>2, ListedIs DEF ListInv, ListType
<1>4. /\ DOMAIN L = 1 .. Len(L)
      /\ \A i, j \in 1 .. Len(L) : L[i] = L[j] => i = j
      /\ \A x : x \in bound <=> \E i \in 1 .. Len(L) : L[i] = x
  BY <1>2 DEF Chain
<1>5. {L[i] : i \in DOMAIN L} = bound
  BY <1>4
<1> QED BY <1>1, <1>3, <1>4, <1>5 DEF BoundOnce, ListInv, OwnPorts

LEMMA IInvImpliesAccounted == IInv => BlocksAccounted
<1> HAVE IInv
<1> SUFFICES ASSUME NEW s \in Sockets
             PROVE  LET inUse == {b.block : b \in Buffers(s)}
                        lost  == {l[2] : l \in {k \in stats.full : k[1] = s}}
                    IN  /\ pool[s] \cup inUse \cup lost = Blocks
                        /\ pool[s] \cap (inUse \cup lost) = {} /\ inUse \cap lost = {}
                        /\ \A b, c \in Buffers(s) : b.block = c.block => b = c
  BY DEF BlocksAccounted
<1> DEFINE q == queue[s]
           t == task[s].buffer
           inUse == {b.block : b \in Buffers(s)}
           lost == {l[2] : l \in {k \in stats.full : k[1] = s}}
<1>1. ReceiveType /\ Receives(s)
  BY DEF IInv, ReceiveInv
<1>2. lost = Lost(s)
  <2>1. stats.full \subseteq Sockets \X Blocks
    BY <1>1 DEF ReceiveType, AnyStats
  <2>2. ASSUME NEW b, b \in lost PROVE b \in Lost(s)
    <3>1. PICK l \in stats.full : l[1] = s /\ l[2] = b
      BY <2>2
    <3>2. l = <<l[1], l[2]>> /\ l[2] \in Blocks
      BY <2>1, <3>1
    <3> QED BY <3>1, <3>2 DEF Lost
  <2>3. ASSUME NEW b \in Lost(s) PROVE b \in lost
    <3>1. <<s, b>> \in stats.full
      BY DEF Lost
    <3>2. <<s, b>>[1] = s /\ <<s, b>>[2] = b
      OBVIOUS
    <3> QED BY <3>1, <3>2
  <2> QED BY <2>2, <2>3
<1>3. Accounts(q, t, pool[s], Lost(s))
  BY <1>1 DEF Receives
<1>4. \A b \in Buffers(s) : b.block \in Blocks
  BY BuffersAre, BufferIs
<1>5. /\ \A b \in Buffers(s) : \/ b = t /\ b # Nil
                               \/ \E i \in 1 .. Len(q) : Full(q, i) /\ b = q[i].buffer
      /\ t # Nil => t \in Buffers(s)
      /\ \A i \in 1 .. Len(q) : Full(q, i) => q[i].buffer \in Buffers(s)
  BY BuffersAre
<1> HIDE DEF q, t, lost
<1>6. \A b \in Buffers(s) : b.block \notin pool[s] /\ b.block \notin Lost(s)
  BY <1>3, <1>5 DEF Accounts
<1>7. \A b \in Blocks : b \in pool[s] \/ b \in Lost(s) \/ b \in inUse
  BY <1>3, <1>5 DEF Accounts
<1>8. \A b, c \in Buffers(s) : b.block = c.block => b = c
  BY <1>3, <1>5 DEF Accounts
<1>9. pool[s] \subseteq Blocks /\ Lost(s) \subseteq Blocks /\ pool[s] \cap Lost(s) = {}
  BY <1>3 DEF Accounts
<1>10. pool[s] \cup inUse \cup lost = Blocks
  BY <1>2, <1>4, <1>7, <1>9
<1>11. pool[s] \cap (inUse \cup lost) = {} /\ inUse \cap lost = {}
  BY <1>2, <1>6, <1>9
<1> QED BY <1>8, <1>10, <1>11 DEF lost

\* Every list, port, mempool and task stays well formed, and every receive
\* queue keeps an empty slot: for any sockets, ports and sizes.
THEOREM SocketsType == Spec => []TypeOK
BY SocketsInvariant, IInvImpliesType, PTL

\* The list of Demux holds the bound sockets once each, and none of them has no
\* port or shares its port with another, unless set_sport() has changed one while
\* bound: also when udp_get_free_port() wraps, when a bound socket gets another
\* port, and when unbind() is called for a socket that is not bound.  The orders
\* of calls it says nothing of are the two that Spec leaves out, because the code
\* breaks there: bind() of a bound socket whose port was set to 0, and unbind()
\* while no socket is bound.
THEOREM SocketsBoundOnce == Spec => []BoundOnce
BY SocketsInvariant, IInvImpliesBoundOnce, PTL

\* No block of a mempool is in two places, and the only ones that leave the
\* mempool for good are those whose datagram met a full queue.
THEOREM SocketsAccounted == Spec => []BlocksAccounted
BY SocketsInvariant, IInvImpliesAccounted, PTL

\* Whatever arrives, is queued and is freed meanwhile, a buffer that is queued or
\* held has in its block the payload of its datagram, and RemoteInfo where cast()
\* and getRemoteInfo() of its own IP version look for it, with the address and the
\* port of the sender: for every size of a datagram and whatever bytes were behind
\* it in the packet.  Of cast() to the other version it says nothing.
THEOREM SocketsCast == Spec => []CastIdentifies
<1>1. ASSUME IInv, NEW s \in Sockets, NEW b \in Buffers(s)
      PROVE  Identifies(mem[s][b.block], b.for)
  <2>1. b \in AnyBuffer /\ b # Nil
    BY <1>1, BuffersAre, BufferIs
  <2>2. Holds(mem[s], b)
    BY <1>1, BuffersAre DEF IInv, MemInv, Intact
  <2>3. Carries(mem[s][b.block], b.for) /\ b.for \in Datagrams
    BY <2>1, <2>2, BufferIs DEF Holds
  <2> QED BY <2>3, CarriesIdentifies
<1>2. IInv => CastIdentifies
  BY <1>1 DEF CastIdentifies, Identifies
<1> QED BY <1>2, SocketsInvariant, PTL
=============================================================================
