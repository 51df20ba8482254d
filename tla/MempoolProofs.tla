---------------------------- MODULE MempoolProofs ----------------------------
(***************************************************************************)
(* Proofs about util/Mempool.h for every number of blocks.                 *)
(*                                                                         *)
(* The stacks are safe when the task and the interrupt exclude each other: *)
(* every operation of the task is guarded, or there is no interrupt.  The  *)
(* pools in the middle of the task's operation are described by the head *)
(* and the holders they had when it began: Partition says of those what    *)
(* OneOwner says of the pools between two operations.                      *)
(***************************************************************************)
EXTENDS Mempool, FiniteSetTheorems, TLAPS

Exclusive == Unguarded = {} \/ ~Interrupts

Partition(h, f, o) ==
    /\ h \in [Pools -> Int]
    /\ \A p \in Pools : h[p] \in -1 .. COUNT[p] - 1
    /\ DOMAIN f = Pools
    /\ \A p \in Pools : f[p] \in [0 .. COUNT[p] - 1 -> PoolBlocks(p)]
    /\ o \in [Block -> Nat]
    /\ \A p \in Pools : \A i, j \in 0 .. h[p] : f[p][i] = f[p][j] => i = j
    /\ \A b \in Block :
          o[b] = IF \E i \in 0 .. h[PoolOf(b)] : f[PoolOf(b)][i] = b
                 THEN 0 ELSE 1

\* The head and the holders the operation under way began with.
HeadBefore ==
    CASE task.op = "alloc" -> [head EXCEPT ![task.p] = task.top]
      [] task.op = "free"  -> [head EXCEPT ![task.p] = task.top - 1]
      [] OTHER -> head
HoldersBefore ==
    IF task.op = "free" THEN [holders EXCEPT ![task.b] = @ + 1] ELSE holders

\* The accesses to the shared members that are still to come.
Accesses == {"load", "store block", "store head"}

AllocUnderWay ==
    task.op = "alloc" =>
        /\ task.p \in Pools
        /\ task.top \in 0 .. COUNT[task.p] - 1
        /\ head[task.p] = IF "store head" \in task.todo THEN task.top
                                                        ELSE task.top - 1
        /\ "load" \notin task.todo => task.b = freelist[task.p][task.top]

FreeUnderWay ==
    task.op = "free" =>
        /\ task.b \in Block /\ task.p = PoolOf(task.b)
        /\ task.top \in 0 .. COUNT[task.p] - 1
        /\ holders[task.b] = 0
        /\ head[task.p] = IF "store head" \in task.todo THEN task.top - 1
                                                        ELSE task.top
        /\ "store block" \notin task.todo => freelist[task.p][task.top] = task.b

IInv ==
    /\ task \in [op : Op \cup {"none"}, todo : SUBSET Accesses, p : Pools,
                 top : Int, b : Block \cup {Idle.b}]
    /\ task.op = "none" => task = Idle
    /\ head \in [Pools -> Int]
    /\ holders \in [Block -> Nat]
    /\ AllocUnderWay /\ FreeUnderWay
    /\ Partition(HeadBefore, freelist, HoldersBefore)

\* A block belongs to one pool, the one its address tells.
LEMMA BlockPool ==
    /\ \A b \in Block : PoolOf(b) \in Pools /\ b \in PoolBlocks(PoolOf(b))
    /\ \A p \in Pools : \A b \in PoolBlocks(p) : b \in Block /\ PoolOf(b) = p
BY DEF Block, PoolBlocks, PoolOf

\* n + 1 different numbers below c, all different from x: the pigeonhole.
LEMMA DistinctBelow ==
    ASSUME NEW n \in Int, n >= -1, NEW c \in Nat, NEW x \in 0 .. c - 1,
           NEW g \in [0 .. n -> (0 .. c - 1) \ {x}],
           \A i, j \in 0 .. n : g[i] = g[j] => i = j
    PROVE  n + 1 <= c - 1
<1> DEFINE S == 0 .. n
           C == 0 .. c - 1
           T == C \ {x}
<1>1. 0 \in Int /\ c - 1 \in Int OBVIOUS
<1>2. IsFiniteSet(S) /\ Cardinality(S) = IF 0 > n THEN 0 ELSE n - 0 + 1
  BY <1>1, FS_Interval
<1>3. IsFiniteSet(C) /\ Cardinality(C) = IF 0 > c - 1 THEN 0 ELSE c - 1 - 0 + 1
  BY <1>1, FS_Interval, Zenon
<1>4. x \in C OBVIOUS
<1>5. g \in [S -> T] OBVIOUS
<1>6. \A i, j \in S : g[i] = g[j] => i = j OBVIOUS
<1> HIDE DEF S, C
<1>7. IsFiniteSet(T) /\ Cardinality(T) = Cardinality(C) - 1
  BY <1>3, <1>4, FS_RemoveElement
<1> HIDE DEF T
<1>8. ~(Cardinality(T) < Cardinality(S))
  <2>1. SUFFICES ASSUME Cardinality(T) < Cardinality(S) PROVE FALSE
    OBVIOUS
  <2>2. \E i, j \in S : i /= j /\ g[i] = g[j]
    BY <2>1, <1>2, <1>5, <1>7, FS_PigeonHole
  <2> QED BY <2>2, <1>6
<1> QED BY <1>2, <1>3, <1>7, <1>8

\* A pool with a block in use has room for one more entry in its stack: a
\* free() never writes behind the end of the array.
LEMMA RoomForHeld ==
    ASSUME NEW h, NEW f, NEW o, Partition(h, f, o),
           NEW b \in Block, o[b] > 0
    PROVE  h[PoolOf(b)] + 1 <= COUNT[PoolOf(b)] - 1
<1> DEFINE p == PoolOf(b)
           n == h[p]
           g == [i \in 0 .. n |-> f[p][i][2]]
<1>1. p \in Pools /\ b \in PoolBlocks(p) BY BlockPool
<1>2. COUNT[p] \in Nat BY <1>1, MempoolAssumption
<1>3. n \in Int /\ n >= -1 /\ n <= COUNT[p] - 1 BY <1>1, <1>2 DEF Partition
<1>4. b = <<p, b[2]>> /\ b[2] \in 0 .. COUNT[p] - 1 BY <1>1 DEF PoolBlocks
<1>5. \A i \in 0 .. n : f[p][i] /= b BY DEF Partition
<1>6. \A i \in 0 .. n : /\ f[p][i] = <<p, f[p][i][2]>>
                        /\ f[p][i][2] \in 0 .. COUNT[p] - 1
  <2>1. \A i \in 0 .. n : i \in 0 .. COUNT[p] - 1 BY <1>2, <1>3
  <2>2. f[p] \in [0 .. COUNT[p] - 1 -> PoolBlocks(p)] BY <1>1 DEF Partition
  <2>3. \A c \in PoolBlocks(p) : c = <<p, c[2]>> /\ c[2] \in 0 .. COUNT[p] - 1
    BY DEF PoolBlocks
  <2>4. \A i \in 0 .. n : f[p][i] \in PoolBlocks(p) BY <2>1, <2>2
  <2> HIDE DEF p, n
  <2> QED BY <2>3, <2>4
<1>7. g \in [0 .. n -> (0 .. COUNT[p] - 1) \ {b[2]}] BY <1>4, <1>5, <1>6
<1>8. \A i, j \in 0 .. n : g[i] = g[j] => i = j
  <2>1. \A i, j \in 0 .. n : f[p][i] = f[p][j] => i = j BY <1>1 DEF Partition
  <2> QED BY <2>1, <1>6
<1> HIDE DEF p, n, g
<1>9. n + 1 <= COUNT[p] - 1 BY <1>2, <1>3, <1>4, <1>7, <1>8, DistinctBelow
<1> QED BY <1>9 DEF p, n

\* alloc() of the top of a stack keeps the blocks partitioned.
LEMMA PopPartition ==
    ASSUME NEW h, NEW f, NEW o, Partition(h, f, o), NEW p \in Pools, h[p] >= 0
    PROVE  /\ f[p][h[p]] \in Block
           /\ o[f[p][h[p]]] = 0
           /\ Partition([h EXCEPT ![p] = @ - 1], f,
                        [o EXCEPT ![f[p][h[p]]] = @ + 1])
<1> DEFINE top == f[p][h[p]]
           h2  == [h EXCEPT ![p] = @ - 1]
           o2  == [o EXCEPT ![top] = @ + 1]
<1>1. COUNT[p] \in Nat /\ h[p] \in 0 .. COUNT[p] - 1 /\ h[p] \in Int
  BY MempoolAssumption DEF Partition
<1>2. top \in PoolBlocks(p) BY <1>1 DEF Partition
<1>3. top \in Block /\ PoolOf(top) = p BY <1>2, BlockPool
<1>4. o[top] = 0
  <2>1. \E i \in 0 .. h[p] : f[p][i] = top BY <1>1
  <2> QED BY <2>1, <1>3 DEF Partition
<1>5. /\ h2 \in [Pools -> Int]
      /\ h2[p] = h[p] - 1
      /\ \A q \in Pools : q /= p => h2[q] = h[q]
  BY <1>1 DEF Partition
<1>6. o2 \in [Block -> Nat] BY <1>3 DEF Partition
<1>7. o2[top] = 1 /\ \A b \in Block : b /= top => o2[b] = o[b]
  BY <1>3, <1>4 DEF Partition
<1>8. \A q \in Pools : h2[q] \in -1 .. COUNT[q] - 1
  BY <1>1, <1>5, MempoolAssumption DEF Partition
<1>9. \A q \in Pools : \A i \in 0 .. h2[q] : i \in 0 .. h[q]
  BY <1>1, <1>5 DEF Partition
<1>10. \A q \in Pools : \A i, j \in 0 .. h2[q] : f[q][i] = f[q][j] => i = j
  BY <1>9 DEF Partition
<1>11. ASSUME NEW b \in Block
       PROVE  o2[b] = IF \E i \in 0 .. h2[PoolOf(b)] : f[PoolOf(b)][i] = b
                      THEN 0 ELSE 1
  <2> DEFINE q == PoolOf(b)
  <2>1. q \in Pools BY BlockPool
  <2>2. o[b] = IF \E i \in 0 .. h[q] : f[q][i] = b THEN 0 ELSE 1
    BY DEF Partition
  <2>3. CASE b = top
    <3>1. \A i \in 0 .. h2[p] : f[p][i] /= top
      <4>1. \A i \in 0 .. h2[p] : i \in 0 .. h[p] /\ i /= h[p] BY <1>1, <1>5
      <4>2. h[p] \in 0 .. h[p] BY <1>1
      <4>3. \A i, j \in 0 .. h[p] : f[p][i] = f[p][j] => i = j BY DEF Partition
      <4> QED BY <4>1, <4>2, <4>3
    <3> QED BY <2>3, <3>1, <1>3, <1>7
  <2>4. CASE b /= top
    <3>1. \A i \in 0 .. h[q] : f[q][i] = b => i \in 0 .. h2[q]
      <4>1. CASE q = p
        <5>1. \A i \in 0 .. h[p] : i /= h[p] => i \in 0 .. h2[p] BY <1>1, <1>5
        <5> QED BY <4>1, <5>1, <2>4
      <4>2. CASE q /= p BY <4>2, <2>1, <1>5
      <4> QED BY <4>1, <4>2
    <3>2. (\E i \in 0 .. h[q] : f[q][i] = b) <=> (\E i \in 0 .. h2[q] : f[q][i] = b)
      BY <3>1, <1>9, <2>1
    <3> QED BY <3>2, <2>2, <2>4, <1>7
  <2> QED BY <2>3, <2>4
<1>12. /\ DOMAIN f = Pools
       /\ \A q \in Pools : f[q] \in [0 .. COUNT[q] - 1 -> PoolBlocks(q)]
  BY DEF Partition
<1> HIDE DEF h2, o2, top
<1>13. Partition(h2, f, o2)
  BY <1>5, <1>6, <1>8, <1>10, <1>11, <1>12 DEF Partition
<1> QED BY <1>3, <1>4, <1>13 DEF h2, o2, top

\* free() of a block in use keeps the blocks partitioned, whatever the
\* entries above the stack are.
LEMMA PushPartition ==
    ASSUME NEW h, NEW f, NEW o, Partition(h, f, o),
           NEW b \in Block, o[b] > 0, NEW g,
           DOMAIN g = Pools,
           \A q \in Pools : g[q] \in [0 .. COUNT[q] - 1 -> PoolBlocks(q)],
           \A q \in Pools : \A i \in 0 .. h[q] : g[q][i] = f[q][i],
           g[PoolOf(b)][h[PoolOf(b)] + 1] = b
    PROVE  Partition([h EXCEPT ![PoolOf(b)] = @ + 1], g,
                     [o EXCEPT ![b] = @ - 1])
<1> DEFINE p  == PoolOf(b)
           h2 == [h EXCEPT ![p] = @ + 1]
           o2 == [o EXCEPT ![b] = @ - 1]
<1>1. p \in Pools /\ COUNT[p] \in Nat BY BlockPool, MempoolAssumption
<1>2. h[p] \in Int /\ h[p] >= -1 /\ h[p] + 1 <= COUNT[p] - 1
  <2>1. h[p] \in Int /\ h[p] >= -1 BY <1>1 DEF Partition
  <2>2. h[p] + 1 <= COUNT[p] - 1 BY RoomForHeld
  <2> QED BY <2>1, <2>2
<1>3. /\ h2 \in [Pools -> Int]
      /\ h2[p] = h[p] + 1
      /\ \A q \in Pools : q /= p => h2[q] = h[q]
  BY <1>1, <1>2 DEF Partition
<1>4. o[b] = 1 /\ \A i \in 0 .. h[p] : f[p][i] /= b BY DEF Partition
<1>5. /\ o2 \in [Block -> Nat] /\ o2[b] = 0
      /\ \A c \in Block : c /= b => o2[c] = o[c]
  BY <1>4 DEF Partition
<1>6. \A q \in Pools : h2[q] \in -1 .. COUNT[q] - 1
  BY <1>1, <1>2, <1>3, MempoolAssumption DEF Partition
<1>7. \A q \in Pools : \A i \in 0 .. h2[q] :
         i \in 0 .. h[q] \/ (q = p /\ i = h[p] + 1)
  BY <1>2, <1>3 DEF Partition
<1>8. \A q \in Pools : \A i \in 0 .. h[q] : i \in 0 .. h2[q]
  BY <1>2, <1>3 DEF Partition
<1>9. h[p] + 1 \in 0 .. h2[p] BY <1>2, <1>3
<1>10. ASSUME NEW q \in Pools, NEW i \in 0 .. h2[q], NEW j \in 0 .. h2[q],
              g[q][i] = g[q][j]
       PROVE  i = j
  <2>1. CASE i \in 0 .. h[q] /\ j \in 0 .. h[q]
    BY <2>1, <1>10 DEF Partition
  <2>2. CASE i \in 0 .. h[q] /\ j \notin 0 .. h[q]
    <3>1. q = p /\ g[q][j] = b BY <2>2, <1>7
    <3> QED BY <3>1, <2>2, <1>4, <1>10
  <2>3. CASE i \notin 0 .. h[q] /\ j \in 0 .. h[q]
    <3>1. q = p /\ g[q][i] = b BY <2>3, <1>7
    <3> QED BY <3>1, <2>3, <1>4, <1>10
  <2>4. CASE i \notin 0 .. h[q] /\ j \notin 0 .. h[q] BY <2>4, <1>7
  <2> QED BY <2>1, <2>2, <2>3, <2>4
<1>11. ASSUME NEW c \in Block
       PROVE  o2[c] = IF \E i \in 0 .. h2[PoolOf(c)] : g[PoolOf(c)][i] = c
                      THEN 0 ELSE 1
  <2> DEFINE q == PoolOf(c)
  <2>1. q \in Pools BY BlockPool
  <2>2. CASE c = b BY <2>2, <1>5, <1>9
  <2>3. CASE c /= b
    <3>1. o[c] = IF \E i \in 0 .. h[q] : f[q][i] = c THEN 0 ELSE 1
      BY DEF Partition
    <3>2. \A i \in 0 .. h2[q] : g[q][i] = c => i \in 0 .. h[q] /\ f[q][i] = c
      BY <2>1, <2>3, <1>7
    <3>3. \A i \in 0 .. h[q] : f[q][i] = c => i \in 0 .. h2[q] /\ g[q][i] = c
      BY <2>1, <1>8
    <3>4. (\E i \in 0 .. h[q] : f[q][i] = c) <=> (\E i \in 0 .. h2[q] : g[q][i] = c)
      BY <3>2, <3>3
    <3> QED BY <3>1, <3>4, <2>3, <1>5
  <2> QED BY <2>2, <2>3
<1> HIDE DEF h2, o2, p
<1>12. Partition(h2, g, o2)
  BY <1>3, <1>5, <1>6, <1>10, <1>11 DEF Partition
<1> QED BY <1>12 DEF h2, o2, p

\* What stands above the stacks does not matter.
LEMMA FramePartition ==
    ASSUME NEW h, NEW f, NEW o, Partition(h, f, o), NEW g,
           DOMAIN g = Pools,
           \A q \in Pools : g[q] \in [0 .. COUNT[q] - 1 -> PoolBlocks(q)],
           \A q \in Pools : \A i \in 0 .. h[q] : g[q][i] = f[q][i]
    PROVE  Partition(h, g, o)
<1>1. \A q \in Pools : \A i, j \in 0 .. h[q] : g[q][i] = g[q][j] => i = j
  BY DEF Partition
<1>2. ASSUME NEW b \in Block
      PROVE  o[b] = IF \E i \in 0 .. h[PoolOf(b)] : g[PoolOf(b)][i] = b
                    THEN 0 ELSE 1
  <2>1. PoolOf(b) \in Pools BY BlockPool
  <2>2. (\E i \in 0 .. h[PoolOf(b)] : g[PoolOf(b)][i] = b)
           <=> (\E i \in 0 .. h[PoolOf(b)] : f[PoolOf(b)][i] = b)
    BY <2>1
  <2> QED BY <2>2 DEF Partition
<1> QED BY <1>1, <1>2 DEF Partition

-----------------------------------------------------------------------------
(* The inductive invariant.                                                 *)

\* Between two operations of the task the pools themselves are partitioned.
LEMMA IdlePartition ==
    ASSUME IInv, task = Idle PROVE Partition(head, freelist, holders)
BY DEF IInv, HeadBefore, HoldersBefore, Idle

\* The constructor puts every block once into its stack.
LEMMA InitIInv == Init => IInv
<1> SUFFICES ASSUME Init PROVE IInv OBVIOUS
<1> USE DEF Init
<1>1. COUNT \in [Pools -> Nat] BY MempoolAssumption
<1>2. task = Idle /\ task.op = "none" BY DEF Idle
<1>3. task \in [op : Op \cup {"none"}, todo : SUBSET Accesses, p : Pools,
                top : Int, b : Block \cup {Idle.b}]
  BY DEF Idle, Pools, Accesses
<1>4. head \in [Pools -> Int] /\ holders \in [Block -> Nat] BY <1>1
<1>5. Partition(head, freelist, holders)
  <2>1. \A p \in Pools : freelist[p] \in [0 .. COUNT[p] - 1 -> PoolBlocks(p)]
    BY <1>1 DEF PoolBlocks
  <2>2. \A p \in Pools : \A i, j \in 0 .. head[p] :
           freelist[p][i] = freelist[p][j] => i = j
    BY <1>1
  <2>3. ASSUME NEW b \in Block
        PROVE  \E i \in 0 .. head[PoolOf(b)] : freelist[PoolOf(b)][i] = b
    <3>1. PoolOf(b) \in Pools /\ b \in PoolBlocks(PoolOf(b)) BY BlockPool
    <3>2. b[2] \in 0 .. COUNT[PoolOf(b)] - 1 /\ b = <<PoolOf(b), b[2]>>
      BY <3>1 DEF PoolBlocks
    <3>3. b[2] \in 0 .. head[PoolOf(b)] /\ freelist[PoolOf(b)][b[2]] = b
      BY <3>1, <3>2
    <3> QED BY <3>3
  <2>4. \A p \in Pools : head[p] \in -1 .. COUNT[p] - 1 BY <1>1
  <2>5. DOMAIN freelist = Pools OBVIOUS
  <2>6. \A b \in Block : holders[b] = 0 OBVIOUS
  <2> HIDE DEF Init
  <2> QED BY <1>4, <2>1, <2>2, <2>3, <2>4, <2>5, <2>6 DEF Partition
<1>6. HeadBefore = head /\ HoldersBefore = holders
  BY <1>2 DEF HeadBefore, HoldersBefore
<1> HIDE DEF Init
<1> QED BY <1>2, <1>3, <1>4, <1>5, <1>6 DEF IInv, AllocUnderWay, FreeUnderWay

\* A partition and an idle task make the invariant.
LEMMA IdleIInv ==
    ASSUME task' = Idle, Partition(head', freelist', holders') PROVE IInv'
<1>1. task'.op = "none" BY DEF Idle
<1>2. task' \in [op : Op \cup {"none"}, todo : SUBSET Accesses, p : Pools,
                 top : Int, b : Block \cup {Idle.b}]
  BY DEF Idle, Pools
<1>3. HeadBefore' = head' /\ HoldersBefore' = holders'
  BY <1>1 DEF HeadBefore, HoldersBefore
<1> QED BY <1>1, <1>2, <1>3 DEF IInv, AllocUnderWay, FreeUnderWay, Partition

\* A whole alloc(), of the interrupt.
LEMMA AllocIInv ==
    ASSUME IInv, task = Idle, NEW size \in Pools, alloc(size) PROVE IInv'
<1> DEFINE p == PoolFor(size)
<1>1. p \in Pools /\ head[p] >= 0 BY DEF alloc, PoolFor, hasSpace, Pools
<1>2. Partition(head, freelist, holders) BY IdlePartition
<1>3. Partition([head EXCEPT ![p] = @ - 1], freelist,
                [holders EXCEPT ![freelist[p][head[p]]] = @ + 1])
  BY <1>1, <1>2, PopPartition
<1>4. task' = Idle /\ Partition(head', freelist', holders')
  BY <1>3 DEF alloc
<1> QED BY <1>4, IdleIInv

-----------------------------------------------------------------------------
(* The steps of an alloc() of the task.                                     *)

\* The task has read head, nothing is written yet.
LEMMA AllocBeginIInv ==
    ASSUME IInv, NEW size \in Pools, AllocBegin(size) PROVE IInv'
<1> DEFINE p == PoolFor(size)
<1>1. p \in Pools /\ head[p] >= 0 BY DEF AllocBegin, PoolFor, hasSpace, Pools
<1>2. Partition(head, freelist, holders) BY IdlePartition DEF AllocBegin
<1>3. head[p] \in 0 .. COUNT[p] - 1 /\ head \in [Pools -> Int]
  BY <1>1, <1>2, MempoolAssumption DEF Partition
<1>5. /\ task'.op = "alloc" /\ task'.p = p /\ task'.top = head[p]
      /\ "load" \in task'.todo /\ "store head" \in task'.todo
  BY DEF AllocBegin
<1>6. task' \in [op : Op \cup {"none"}, todo : SUBSET Accesses, p : Pools,
                 top : Int, b : Block \cup {Idle.b}]
  <2>1. p \in Pools /\ head[p] \in Int BY <1>1, <1>3
  <2>2. task' = [op |-> "alloc", todo |-> {"load", "store head"},
                 p |-> p, top |-> head[p], b |-> Idle.b]
    BY DEF AllocBegin
  <2> HIDE DEF p
  <2> QED BY <2>1, <2>2 DEF Op, Accesses
<1>7. head' = head /\ freelist' = freelist /\ holders' = holders
  BY DEF AllocBegin
<1>8. HeadBefore' = head
  <2>1. HeadBefore' = [head' EXCEPT ![task'.p] = task'.top]
    BY <1>5 DEF HeadBefore
  <2> QED BY <2>1, <1>1, <1>3, <1>5, <1>7
<1>9. HoldersBefore' = holders BY <1>5, <1>7 DEF HoldersBefore
<1>10. AllocUnderWay' BY <1>1, <1>3, <1>5, <1>7 DEF AllocUnderWay
<1>11. FreeUnderWay' BY <1>5 DEF FreeUnderWay
<1>12. Partition(HeadBefore, freelist, HoldersBefore)' BY <1>2, <1>7, <1>8, <1>9
<1>13. holders' \in [Block -> Nat] /\ head' \in [Pools -> Int]
  BY <1>2, <1>7 DEF Partition
<1> QED BY <1>5, <1>6, <1>10, <1>11, <1>12, <1>13 DEF IInv

\* The block is loaded from the top the task has read.
LEMMA AllocLoadIInv == ASSUME IInv, AllocLoad PROVE IInv'
<1>1. /\ task'.op = "alloc" /\ task.op = "alloc"
      /\ task'.p = task.p /\ task'.top = task.top
      /\ task'.b = freelist[task.p][task.top]
      /\ task'.todo = task.todo \ {"load"}
  BY DEF IInv, AllocLoad
<1>2. head' = head /\ freelist' = freelist /\ holders' = holders
  BY DEF AllocLoad
<1>3. task.p \in Pools /\ task.top \in 0 .. COUNT[task.p] - 1
  BY <1>1 DEF IInv, AllocUnderWay
<1>4. freelist[task.p][task.top] \in Block
  <2>1. freelist[task.p] \in [0 .. COUNT[task.p] - 1 -> PoolBlocks(task.p)]
    BY <1>3 DEF IInv, Partition
  <2>2. freelist[task.p][task.top] \in PoolBlocks(task.p) BY <2>1, <1>3
  <2> QED BY <2>2, <1>3, BlockPool
<1>5. task' \in [op : Op \cup {"none"}, todo : SUBSET Accesses, p : Pools,
                 top : Int, b : Block \cup {Idle.b}]
  BY <1>4 DEF IInv, AllocLoad
<1>6. HeadBefore' = HeadBefore BY <1>1, <1>2 DEF HeadBefore
<1>7. HoldersBefore' = HoldersBefore BY <1>1, <1>2 DEF HoldersBefore
<1>8. AllocUnderWay'
  <2>1. head[task.p] = IF "store head" \in task.todo THEN task.top ELSE task.top - 1
    BY <1>1 DEF IInv, AllocUnderWay
  <2>2. "store head" \in task'.todo <=> "store head" \in task.todo BY <1>1
  <2> QED BY <2>1, <2>2, <1>1, <1>2, <1>3 DEF AllocUnderWay
<1>9. FreeUnderWay' BY <1>1 DEF FreeUnderWay
<1>10. Partition(HeadBefore, freelist, HoldersBefore)'
  BY <1>2, <1>6, <1>7 DEF IInv
<1>11. head' \in [Pools -> Int] /\ holders' \in [Block -> Nat]
  BY <1>1, <1>2 DEF IInv
<1> QED BY <1>1, <1>5, <1>8, <1>9, <1>10, <1>11 DEF IInv

\* The new head is stored.
LEMMA AllocStoreHeadIInv == ASSUME IInv, AllocStoreHead PROVE IInv'
<1>1. /\ task'.op = "alloc" /\ task.op = "alloc"
      /\ task'.p = task.p /\ task'.top = task.top /\ task'.b = task.b
      /\ task'.todo = task.todo \ {"store head"}
  BY DEF IInv, AllocStoreHead
<1>2. freelist' = freelist /\ holders' = holders BY DEF AllocStoreHead
<1>3. task.p \in Pools /\ task.top \in 0 .. COUNT[task.p] - 1 /\ task.top \in Int
  BY <1>1 DEF IInv, AllocUnderWay
<1>4. head \in [Pools -> Int] BY DEF IInv
<1>5. head' = [head EXCEPT ![task.p] = task.top - 1] BY DEF AllocStoreHead
<1>6. head' \in [Pools -> Int] /\ head'[task.p] = task.top - 1
  BY <1>3, <1>4, <1>5
<1>7. task' \in [op : Op \cup {"none"}, todo : SUBSET Accesses, p : Pools,
                 top : Int, b : Block \cup {Idle.b}]
  BY DEF IInv, AllocStoreHead
<1>8. HeadBefore' = HeadBefore
  <2>1. HeadBefore' = [head' EXCEPT ![task.p] = task.top] BY <1>1 DEF HeadBefore
  <2>2. HeadBefore = [head EXCEPT ![task.p] = task.top] BY <1>1 DEF HeadBefore
  <2>3. [head' EXCEPT ![task.p] = task.top] = [head EXCEPT ![task.p] = task.top]
    BY <1>3, <1>4, <1>5
  <2> QED BY <2>1, <2>2, <2>3
<1>9. HoldersBefore' = HoldersBefore BY <1>1, <1>2 DEF HoldersBefore
<1>10. AllocUnderWay'
  <2>1. "load" \notin task.todo => task.b = freelist[task.p][task.top]
    BY <1>1 DEF IInv, AllocUnderWay
  <2> QED BY <2>1, <1>1, <1>2, <1>3, <1>6 DEF AllocUnderWay
<1>11. FreeUnderWay' BY <1>1 DEF FreeUnderWay
<1>12. Partition(HeadBefore, freelist, HoldersBefore)'
  BY <1>2, <1>8, <1>9 DEF IInv
<1>13. holders' \in [Block -> Nat] BY <1>1, <1>2 DEF IInv
<1> QED BY <1>1, <1>6, <1>7, <1>10, <1>11, <1>12, <1>13 DEF IInv

\* The block is handed out: with both accesses done the pool is as after a
\* whole alloc().
LEMMA AllocEndIInv == ASSUME IInv, AllocEnd PROVE IInv'
<1> DEFINE p == task.p
           h == HeadBefore
<1>1. task.op = "alloc" /\ task.todo = {} BY DEF AllocEnd
<1>2. /\ p \in Pools /\ task.top \in Int /\ task.top >= 0
      /\ head[p] = task.top - 1
      /\ task.b = freelist[p][task.top]
  BY <1>1, MempoolAssumption DEF IInv, AllocUnderWay
<1>3. head \in [Pools -> Int] BY DEF IInv
<1>4. h = [head EXCEPT ![p] = task.top] BY <1>1 DEF HeadBefore
<1>5. HoldersBefore = holders BY <1>1 DEF HoldersBefore
<1>6. Partition(h, freelist, holders) BY <1>5 DEF IInv
<1>7. h[p] = task.top BY <1>2, <1>3, <1>4
<1>8. [h EXCEPT ![p] = @ - 1] = head BY <1>2, <1>3, <1>4
<1>9. Partition([h EXCEPT ![p] = @ - 1], freelist,
                [holders EXCEPT ![freelist[p][h[p]]] = @ + 1])
  <2> HIDE DEF h, p
  <2> QED BY <1>2, <1>6, <1>7, PopPartition
<1>10. Partition(head, freelist, [holders EXCEPT ![task.b] = @ + 1])
  BY <1>2, <1>7, <1>8, <1>9
<1>11. task' = Idle /\ Partition(head', freelist', holders')
  BY <1>10 DEF AllocEnd
<1> QED BY <1>11, IdleIInv

-----------------------------------------------------------------------------
(* The steps of a free() of the task.                                       *)

\* The task has read head; the pool has room for the block.
LEMMA FreeBeginIInv ==
    ASSUME IInv, NEW b \in Block, FreeBegin(b) PROVE IInv'
<1> DEFINE p == PoolOf(b)
<1>1. p \in Pools BY BlockPool
<1>2. Partition(head, freelist, holders) BY IdlePartition DEF FreeBegin
<1>3. head \in [Pools -> Int] /\ head[p] \in Int /\ head[p] >= -1
  BY <1>1, <1>2 DEF Partition
<1>4. holders[b] > 0 BY DEF FreeBegin
<1>5. head[p] + 1 <= COUNT[p] - 1 BY <1>2, <1>4, RoomForHeld
<1>6. head[p] + 1 \in 0 .. COUNT[p] - 1
  BY <1>1, <1>3, <1>5, MempoolAssumption
<1>7. holders \in [Block -> Nat] /\ holders[b] = 1 BY <1>2, <1>4 DEF Partition
<1>9. task' = [op |-> "free", todo |-> {"store block", "store head"},
               p |-> p, top |-> head[p] + 1, b |-> b]
  BY DEF FreeBegin
<1>10. /\ task'.op = "free" /\ task'.p = p /\ task'.top = head[p] + 1
       /\ task'.b = b
       /\ "store block" \in task'.todo /\ "store head" \in task'.todo
  BY <1>9
<1>11. task' \in [op : Op \cup {"none"}, todo : SUBSET Accesses, p : Pools,
                  top : Int, b : Block \cup {Idle.b}]
  <2>1. p \in Pools /\ head[p] + 1 \in Int BY <1>1, <1>3
  <2> HIDE DEF p
  <2> QED BY <2>1, <1>9 DEF Op, Accesses
<1>12. head' = head /\ freelist' = freelist BY DEF FreeBegin
<1>13. holders' = [holders EXCEPT ![b] = @ - 1] BY DEF FreeBegin
<1>14. holders' \in [Block -> Nat] /\ holders'[b] = 0 BY <1>7, <1>13
<1> HIDE DEF p
<1>t. task'.top - 1 = head[p]
  <2>1. PICK n \in Int : n = head[p] BY <1>3
  <2>2. PICK t : t = task'.top OBVIOUS
  <2>3. t = n + 1 BY <2>1, <2>2, <1>10
  <2>4. t - 1 = n BY <2>3
  <2> QED BY <2>1, <2>2, <2>4
<1>15. HeadBefore' = head
  <2>1. HeadBefore' = [head' EXCEPT ![task'.p] = task'.top - 1]
    BY <1>10 DEF HeadBefore
  <2>2. HeadBefore' = [head EXCEPT ![p] = head[p]] BY <2>1, <1>t, <1>10, <1>12
  <2> QED BY <2>2, <1>3
<1>16. HoldersBefore' = holders
  <2>1. HoldersBefore' = [holders' EXCEPT ![b] = @ + 1]
    BY <1>10 DEF HoldersBefore
  <2> QED BY <2>1, <1>7, <1>13
<1>17. FreeUnderWay'
  <2>1. head'[p] = task'.top - 1 BY <1>12, <1>t
  <2>2. task'.top \in 0 .. COUNT[p] - 1 BY <1>6, <1>10
  <2>3. holders'[task'.b] = 0 BY <1>10, <1>14
  <2> QED BY <2>1, <2>2, <2>3, <1>10 DEF FreeUnderWay, p
<1>18. AllocUnderWay' BY <1>10 DEF AllocUnderWay
<1>19. Partition(HeadBefore, freelist, HoldersBefore)'
  BY <1>2, <1>12, <1>15, <1>16
<1> QED BY <1>3, <1>10, <1>11, <1>12, <1>14, <1>17, <1>18, <1>19 DEF IInv

\* The block is written above the stack the operation began with.
LEMMA FreeStoreBlockIInv == ASSUME IInv, FreeStoreBlock PROVE IInv'
<1>1. /\ task'.op = "free" /\ task.op = "free"
      /\ task'.p = task.p /\ task'.top = task.top /\ task'.b = task.b
      /\ task'.todo = task.todo \ {"store block"}
  BY DEF IInv, FreeStoreBlock
<1>2. head' = head /\ holders' = holders BY DEF FreeStoreBlock
<1>3. /\ task.b \in Block /\ task.p = PoolOf(task.b)
      /\ task.top \in 0 .. COUNT[task.p] - 1 /\ task.top \in Int
      /\ holders[task.b] = 0
  BY <1>1 DEF IInv, FreeUnderWay
<1>4. task.p \in Pools /\ task.b \in PoolBlocks(task.p) BY <1>3, BlockPool
<1>5. task' \in [op : Op \cup {"none"}, todo : SUBSET Accesses, p : Pools,
                 top : Int, b : Block \cup {Idle.b}]
  BY DEF IInv, FreeStoreBlock
<1>6. HeadBefore' = HeadBefore BY <1>1, <1>2 DEF HeadBefore
<1>7. HoldersBefore' = HoldersBefore BY <1>1, <1>2 DEF HoldersBefore
<1>8. Partition(HeadBefore, freelist, HoldersBefore) BY DEF IInv
<1>9. head \in [Pools -> Int] BY DEF IInv
<1>10. HeadBefore[task.p] = task.top - 1
  <2>1. HeadBefore = [head EXCEPT ![task.p] = task.top - 1]
    BY <1>1 DEF HeadBefore
  <2> QED BY <2>1, <1>4, <1>9
<1>11. /\ DOMAIN freelist = Pools
       /\ \A q \in Pools : freelist[q] \in [0 .. COUNT[q] - 1 -> PoolBlocks(q)]
  BY <1>8 DEF Partition
<1>12. freelist' = [freelist EXCEPT ![task.p][task.top] = task.b]
  BY DEF FreeStoreBlock
<1>13. /\ DOMAIN freelist' = Pools
       /\ freelist'[task.p] = [freelist[task.p] EXCEPT ![task.top] = task.b]
       /\ \A q \in Pools : q /= task.p => freelist'[q] = freelist[q]
  BY <1>4, <1>11, <1>12
<1>14. ASSUME NEW q \in Pools
       PROVE  freelist'[q] \in [0 .. COUNT[q] - 1 -> PoolBlocks(q)]
  <2>1. CASE q = task.p BY <2>1, <1>4, <1>11, <1>13
  <2>2. CASE q /= task.p BY <2>2, <1>11, <1>13
  <2> QED BY <2>1, <2>2
<1>15. ASSUME NEW q \in Pools, NEW i \in 0 .. HeadBefore[q]
       PROVE  freelist'[q][i] = freelist[q][i]
  <2>1. CASE q = task.p
    <3>1. i /= task.top BY <2>1, <1>3, <1>10
    <3>2. freelist[q] \in [0 .. COUNT[q] - 1 -> PoolBlocks(q)] BY <1>11
    <3>3. i \in 0 .. COUNT[q] - 1
      BY <2>1, <1>3, <1>4, <1>10, MempoolAssumption
    <3> QED BY <2>1, <3>1, <3>2, <3>3, <1>13
  <2>2. CASE q /= task.p BY <2>2, <1>13
  <2> QED BY <2>1, <2>2
<1>16. Partition(HeadBefore, freelist', HoldersBefore)
  <2>1. PICK g : g = freelist' OBVIOUS
  <2>2. DOMAIN g = Pools BY <2>1, <1>13
  <2>3. \A q \in Pools : g[q] \in [0 .. COUNT[q] - 1 -> PoolBlocks(q)]
    BY <2>1, <1>14
  <2>4. \A q \in Pools : \A i \in 0 .. HeadBefore[q] : g[q][i] = freelist[q][i]
    BY <2>1, <1>15
  <2>5. Partition(HeadBefore, g, HoldersBefore)
    BY <1>8, <2>2, <2>3, <2>4, FramePartition
  <2> QED BY <2>1, <2>5
<1>17. Partition(HeadBefore, freelist, HoldersBefore)'
  BY <1>6, <1>7, <1>16
<1>18. FreeUnderWay'
  <2>1. freelist'[task.p][task.top] = task.b BY <1>3, <1>4, <1>11, <1>13
  <2>2. head[task.p] = IF "store head" \in task.todo THEN task.top - 1 ELSE task.top
    BY <1>1 DEF IInv, FreeUnderWay
  <2>3. "store head" \in task'.todo <=> "store head" \in task.todo BY <1>1
  <2> QED BY <2>1, <2>2, <2>3, <1>1, <1>2, <1>3 DEF FreeUnderWay
<1>19. AllocUnderWay' BY <1>1 DEF AllocUnderWay
<1>20. head' \in [Pools -> Int] /\ holders' \in [Block -> Nat]
  BY <1>1, <1>2 DEF IInv
<1> QED BY <1>1, <1>5, <1>17, <1>18, <1>19, <1>20 DEF IInv

\* The new head is stored.
LEMMA FreeStoreHeadIInv == ASSUME IInv, FreeStoreHead PROVE IInv'
<1>1. /\ task'.op = "free" /\ task.op = "free"
      /\ task'.p = task.p /\ task'.top = task.top /\ task'.b = task.b
      /\ task'.todo = task.todo \ {"store head"}
  BY DEF IInv, FreeStoreHead
<1>2. freelist' = freelist /\ holders' = holders BY DEF FreeStoreHead
<1>3. /\ task.b \in Block /\ task.p = PoolOf(task.b)
      /\ task.top \in 0 .. COUNT[task.p] - 1 /\ task.top \in Int
      /\ holders[task.b] = 0
  BY <1>1 DEF IInv, FreeUnderWay
<1>4. task.p \in Pools /\ head \in [Pools -> Int] BY <1>3, BlockPool DEF IInv
<1>5. head' = [head EXCEPT ![task.p] = task.top] BY DEF FreeStoreHead
<1>6. head' \in [Pools -> Int] /\ head'[task.p] = task.top
  BY <1>3, <1>4, <1>5
<1>7. task' \in [op : Op \cup {"none"}, todo : SUBSET Accesses, p : Pools,
                 top : Int, b : Block \cup {Idle.b}]
  BY DEF IInv, FreeStoreHead
<1>8. HeadBefore' = HeadBefore
  <2>1. HeadBefore' = [head' EXCEPT ![task.p] = task.top - 1]
    BY <1>1 DEF HeadBefore
  <2>2. HeadBefore = [head EXCEPT ![task.p] = task.top - 1]
    BY <1>1 DEF HeadBefore
  <2>3. [head' EXCEPT ![task.p] = task.top - 1]
           = [head EXCEPT ![task.p] = task.top - 1]
    BY <1>3, <1>4, <1>5
  <2> QED BY <2>1, <2>2, <2>3
<1>9. HoldersBefore' = HoldersBefore BY <1>1, <1>2 DEF HoldersBefore
<1>10. FreeUnderWay'
  <2>1. "store block" \notin task.todo => freelist[task.p][task.top] = task.b
    BY <1>1 DEF IInv, FreeUnderWay
  <2> QED BY <2>1, <1>1, <1>2, <1>3, <1>6 DEF FreeUnderWay
<1>11. AllocUnderWay' BY <1>1 DEF AllocUnderWay
<1>12. Partition(HeadBefore, freelist, HoldersBefore)'
  BY <1>2, <1>8, <1>9 DEF IInv
<1>13. holders' \in [Block -> Nat] BY <1>1, <1>2 DEF IInv
<1> QED BY <1>1, <1>6, <1>7, <1>10, <1>11, <1>12, <1>13 DEF IInv

\* With both stores done the pool is as after a whole free().
LEMMA FreeEndIInv == ASSUME IInv, FreeEnd PROVE IInv'
<1> DEFINE p == task.p
           h == HeadBefore
           o == HoldersBefore
<1>1. task.op = "free" /\ task.todo = {} BY DEF FreeEnd
<1>2. /\ task.b \in Block /\ p = PoolOf(task.b) /\ task.top \in Int
      /\ head[p] = task.top
      /\ holders[task.b] = 0
      /\ freelist[p][task.top] = task.b
  BY <1>1 DEF IInv, FreeUnderWay
<1>3. p \in Pools /\ head \in [Pools -> Int] /\ holders \in [Block -> Nat]
  BY <1>2, BlockPool DEF IInv
<1>4. h = [head EXCEPT ![p] = task.top - 1] BY <1>1 DEF HeadBefore
<1>5. o = [holders EXCEPT ![task.b] = @ + 1] BY <1>1 DEF HoldersBefore
<1>6. Partition(h, freelist, o) BY DEF IInv
<1>7. h[p] + 1 = task.top BY <1>2, <1>3, <1>4
<1>8. [h EXCEPT ![p] = @ + 1] = head
  <2>1. [h EXCEPT ![p] = h[p] + 1] = [h EXCEPT ![p] = head[p]] BY <1>2, <1>7
  <2> QED BY <2>1, <1>3, <1>4
<1>9. o[task.b] > 0 BY <1>2, <1>3, <1>5
<1>10. [o EXCEPT ![task.b] = @ - 1] = holders
  <2>1. o[task.b] - 1 = holders[task.b] BY <1>2, <1>3, <1>5
  <2>2. [o EXCEPT ![task.b] = o[task.b] - 1] = [o EXCEPT ![task.b] = holders[task.b]]
    BY <2>1
  <2> QED BY <2>2, <1>2, <1>3, <1>5
<1>11. Partition([h EXCEPT ![p] = @ + 1], freelist, [o EXCEPT ![task.b] = @ - 1])
  <2>1. PICK b : b = task.b OBVIOUS
  <2>2. /\ DOMAIN freelist = Pools
        /\ \A q \in Pools : freelist[q] \in [0 .. COUNT[q] - 1 -> PoolBlocks(q)]
    BY <1>6 DEF Partition
  <2>3. b \in Block /\ PoolOf(b) = p /\ o[b] > 0 BY <2>1, <1>2, <1>9
  <2>4. freelist[PoolOf(b)][h[PoolOf(b)] + 1] = b
    BY <2>1, <2>3, <1>2, <1>7
  <2> HIDE DEF h, o, p
  <2>5. Partition([h EXCEPT ![PoolOf(b)] = @ + 1], freelist, [o EXCEPT ![b] = @ - 1])
    BY <1>6, <2>2, <2>3, <2>4, PushPartition
  <2> QED BY <2>1, <2>3, <2>5
<1>12. task' = Idle /\ Partition(head', freelist', holders')
  BY <1>8, <1>10, <1>11 DEF FreeEnd
<1> QED BY <1>12, IdleIInv

-----------------------------------------------------------------------------
\* Every step of the task and of the interrupt keeps the invariant when the
\* two exclude each other.
LEMMA NextIInv == ASSUME Exclusive, IInv, [Next]_vars PROVE IInv'
<1>1. CASE UNCHANGED vars
  <2>1. HeadBefore' = HeadBefore /\ HoldersBefore' = HoldersBefore
    BY <1>1 DEF vars, HeadBefore, HoldersBefore
  <2>2. freelist' = freelist BY <1>1 DEF vars
  <2>3. Partition(HeadBefore, freelist, HoldersBefore)' BY <2>1, <2>2 DEF IInv
  <2>4. AllocUnderWay' /\ FreeUnderWay'
    BY <1>1 DEF vars, IInv, AllocUnderWay, FreeUnderWay
  <2> QED BY <1>1, <2>3, <2>4 DEF vars, IInv
<1>3. ASSUME NEW size \in Pools, IrqAlloc(size) PROVE IInv'
  <2>1. task = Idle BY <1>3 DEF Exclusive, IrqAlloc, Masked, IInv
  <2> QED BY <1>3, <2>1, AllocIInv DEF IrqAlloc
<1>5. ASSUME NEW size \in Pools, AllocBegin(size) PROVE IInv'
  BY <1>5, AllocBeginIInv
<1>6. ASSUME NEW b \in Block, FreeBegin(b) PROVE IInv' BY <1>6, FreeBeginIInv
<1> QED
  BY <1>1, <1>3, <1>5, <1>6, AllocLoadIInv, AllocStoreHeadIInv,
     AllocEndIInv, FreeStoreBlockIInv, FreeStoreHeadIInv, FreeEndIInv
  DEF Next

\* The invariant bounds the stacks, also in the middle of an operation.
LEMMA IInvImplies == IInv => TypeOK /\ OneOwner
<1> SUFFICES ASSUME IInv PROVE TypeOK /\ OneOwner OBVIOUS
<1>1. OneOwner
  <2> SUFFICES ASSUME task = Idle
               PROVE  /\ \A b \in Block : holders[b] = (IF IsFree(b) THEN 0 ELSE 1)
                      /\ \A p \in Pools : \A i, j \in Stack(p) :
                            freelist[p][i] = freelist[p][j] => i = j
    BY DEF OneOwner
  <2>1. Partition(head, freelist, holders) BY IdlePartition
  <2> QED BY <2>1 DEF Partition, IsFree, Stack
<1>2. \A p \in Pools : freelist[p] \in [0 .. COUNT[p] - 1 -> PoolBlocks(p)]
  BY DEF IInv, Partition
<1>3. ASSUME NEW p \in Pools PROVE head[p] \in -1 .. COUNT[p] - 1
  <2>1. CASE task.op \notin Op BY <2>1 DEF IInv, Partition, HeadBefore, Op
  <2>2. CASE task.op \in Op /\ p /= task.p
    <3>1. HeadBefore[p] = head[p] BY <2>2 DEF IInv, HeadBefore, Op
    <3> QED BY <3>1 DEF IInv, Partition
  <2>3. CASE task.op \in Op /\ p = task.p
    <3>1. task.top \in 0 .. COUNT[p] - 1 /\ head[p] \in {task.top, task.top - 1}
      BY <2>3 DEF Op, IInv, AllocUnderWay, FreeUnderWay
    <3>2. COUNT[p] \in Nat BY MempoolAssumption
    <3> QED BY <3>1, <3>2
  <2> QED BY <2>1, <2>2, <2>3
<1> QED BY <1>1, <1>2, <1>3 DEF IInv, TypeOK

\* Under the same exclusion, in the middle of an operation too: head stays
\* between -1 and the last index and every slot of the free lists points to
\* a block of its own pool, so alloc() and free() never leave the arrays.
THEOREM HeadInBounds == ASSUME Exclusive PROVE Spec => []TypeOK
<1>1. Init => IInv BY InitIInv
<1>2. IInv /\ [Next]_vars => IInv' BY NextIInv
<1>3. IInv => TypeOK BY IInvImplies
<1> QED BY <1>1, <1>2, <1>3, PTL DEF Spec

\* When every operation of the task disables the interrupts, or when nothing
\* interrupts the task, each block of the pools is free or has one owner and
\* head stays inside the arrays: for every number of blocks in the two pools
\* and every order of requests and frees.
THEOREM BlocksHaveOneOwner ==
    ASSUME Exclusive PROVE Spec => [](TypeOK /\ OneOwner)
<1>1. Init => IInv BY InitIInv
<1>2. IInv /\ [Next]_vars => IInv' BY NextIInv
<1>3. IInv => TypeOK /\ OneOwner BY IInvImplies
<1> QED BY <1>1, <1>2, <1>3, PTL DEF Spec
=============================================================================
