------------------------ MODULE NeighbourCacheProofs ------------------------
(***************************************************************************)
(* Proofs about NeighbourCache and the SharedMemory it composes, for every *)
(* size of the address memory, every set of hosts and every number of      *)
(* management buffers.                                                     *)
(***************************************************************************)
EXTENDS NeighbourCache, WellFoundedInduction, TLAPS, FiniteSetTheorems

-----------------------------------------------------------------------------
(* Induction over the natural numbers and recursion on an interval, stated  *)
(* for sets and functions, which the provers can instantiate.               *)

\* A set of natural numbers that is not empty has a least element.
LEMMA LeastNatural ==
  ASSUME NEW S, S \subseteq Nat, S # {}
  PROVE  \E m \in S : \A k \in S : m <= k
<1> DEFINE R == OpToRel(<, Nat)
<1>1. \E x \in S : \A y \in S : ~(<<y, x>> \in R)
  <2>1. IsWellFoundedOn(R, Nat)
    BY NatLessThanWellFounded
  <2> HIDE DEF R
  <2> QED BY <2>1, WFMin
<1>2. \A x, y \in Nat : <<y, x>> \in R <=> y < x
  BY DEF OpToRel
<1> HIDE DEF R
<1>3. PICK x \in S : \A y \in S : ~(<<y, x>> \in R)
  BY <1>1
<1>4. \A y \in S : ~(y < x)
  BY <1>2, <1>3
<1>5. \A y \in S : x <= y
  BY <1>4
<1> QED BY <1>5

\* Induction from 0 to m: a set that contains 0, and with n < m also n + 1,
\* contains them all.
LEMMA IntervalInduction ==
  ASSUME NEW S, NEW m \in Nat, 0 \in S,
         \A n \in 0 .. m - 1 : n \in S => n + 1 \in S
  PROVE  \A n \in 0 .. m : n \in S
<1> DEFINE T == {n \in 0 .. m : n \notin S}
<1> SUFFICES ASSUME T # {} PROVE FALSE
  OBVIOUS
<1>1. T \subseteq Nat
  OBVIOUS
<1>2. PICK n \in T : \A k \in T : n <= k
  <2> HIDE DEF T
  <2> QED BY <1>1, LeastNatural
<1>3. n \in 1 .. m
  BY <1>2
<1>4. n - 1 \in S
  BY <1>2, <1>3
<1> QED BY <1>2, <1>3, <1>4

\* A set of integers with an upper bound that is not empty has a greatest element.
LEMMA GreatestInteger ==
  ASSUME NEW S, NEW m \in Int, S \subseteq Int, S # {}, \A k \in S : k <= m
  PROVE  \E n \in S : \A k \in S : k <= n
<1> DEFINE T == {m - k : k \in S}
<1>1. T \subseteq Nat /\ T # {}
  <2>1. \A k \in S : k \in Int /\ k <= m
    OBVIOUS
  <2>2. \A k \in S : m - k \in Nat
    BY <2>1
  <2> QED BY <2>2
<1>2. PICK t \in T : \A k \in T : t <= k
  <2> HIDE DEF T
  <2> QED BY <1>1, LeastNatural
<1>3. PICK n \in S : t = m - n
  BY <1>2
<1>4. \A k \in S : m - k \in T
  OBVIOUS
<1>5. \A k \in S : m - n <= m - k
  BY <1>2, <1>3, <1>4
<1>6. \A k \in S : k \in Int /\ n \in Int
  OBVIOUS
<1> QED BY <1>5, <1>6

\* f is defined on 0 .. m by recursion: step[<<n, x>>] is its value at n if x is
\* its value at n - 1.
IsRecursive(f, A, a, m, step) ==
  f \in [0 .. m -> A] /\ f[0] = a /\ \A n \in 1 .. m : f[n] = step[<<n, f[n - 1]>>]

\* Such a function exists.
LEMMA Recursion ==
  ASSUME NEW A, NEW a \in A, NEW m \in Nat, NEW step \in [(1 .. m) \X A -> A]
  PROVE  \E f : IsRecursive(f, A, a, m, step)
<1> DEFINE Is(f, k) == f[0] = a /\ \A n \in 1 .. k : f[n] = step[<<n, f[n - 1]>>]
           S == {k \in 0 .. m : \E f \in [0 .. k -> A] : Is(f, k)}
<1>1. 0 \in S
  <2> DEFINE f == [n \in 0 .. 0 |-> a]
  <2>1. f \in [0 .. 0 -> A] /\ Is(f, 0)
    OBVIOUS
  <2>2. 0 \in 0 .. m
    OBVIOUS
  <2> HIDE DEF f, Is
  <2> QED BY <2>1, <2>2
<1>2. ASSUME NEW k \in 0 .. m - 1, k \in S
      PROVE  k + 1 \in S
  <2>1. PICK f \in [0 .. k -> A] : Is(f, k)
    BY <1>2
  <2> DEFINE g == [n \in 0 .. k + 1 |-> IF n = k + 1 THEN step[<<n, f[k]>>] ELSE f[n]]
  <2>2. <<k + 1, f[k]>> \in (1 .. m) \X A
    OBVIOUS
  <2>3. g \in [0 .. k + 1 -> A]
    BY <2>2
  <2>4. ASSUME NEW n \in 1 .. k + 1
        PROVE  g[n] = step[<<n, g[n - 1]>>]
    <3>1. CASE n = k + 1
      BY <3>1
    <3>2. CASE n # k + 1
      <4>1. n \in 1 .. k /\ n \in 0 .. k /\ n - 1 \in 0 .. k
        BY <3>2
      <4>2. f[n] = step[<<n, f[n - 1]>>]
        BY <2>1, <4>1
      <4>3. g[n] = f[n] /\ g[n - 1] = f[n - 1]
        BY <3>2, <4>1
      <4> HIDE DEF g
      <4> QED BY <4>2, <4>3
    <3> QED BY <3>1, <3>2
  <2>5. g[0] = a
    BY <2>1
  <2>6. k + 1 \in 0 .. m
    OBVIOUS
  <2> HIDE DEF g
  <2> QED BY <2>3, <2>4, <2>5, <2>6
<1>3. m \in S
  <2> HIDE DEF S
  <2> QED BY <1>1, <1>2, IntervalInduction
<1> QED BY <1>3 DEF IsRecursive

-----------------------------------------------------------------------------
LEMMA LeastIs ==
  ASSUME NEW S, S \subseteq Nat, S # {}
  PROVE  Least(S) \in S /\ \A j \in S : Least(S) <= j
<1>1. \E i \in S : \A j \in S : i <= j
  BY LeastNatural
<1> QED BY <1>1 DEF Least

-----------------------------------------------------------------------------
(* The management memory.                                                   *)

\* Which block is where: a position holds 0 or a block that no other position
\* holds and that is not in the mempool, and no block is missing.
Listing(m) ==
  /\ m \in SharedMemoryType
  /\ \A i, j \in 1 .. SLOTS :
       m.allocatedMemories[i] # 0 /\ m.allocatedMemories[i] = m.allocatedMemories[j] => i = j
  /\ \A i \in 1 .. SLOTS : m.allocatedMemories[i] \notin m.mempool
  /\ \A b \in Blocks : b \in m.mempool \/ \E i \in 1 .. SLOTS : m.allocatedMemories[i] = b

LEMMA NewListing == Listing(NewSharedMemory)
<1>1. SLOTS \in Nat
  BY SlotsAssumption
<1>2. \A i \in 1 .. SLOTS : i # 0
  BY <1>1
<1> QED BY <1>1, <1>2 DEF Listing, NewSharedMemory, SharedMemoryType, Blocks

\* The list has room for a block of the mempool.
LEMMA ListHasRoom ==
  ASSUME NEW m, Listing(m), NEW b \in m.mempool
  PROVE  \E i \in 1 .. SLOTS : m.allocatedMemories[i] = 0
<1> SUFFICES ASSUME \A i \in 1 .. SLOTS : m.allocatedMemories[i] # 0 PROVE FALSE
  OBVIOUS
<1> DEFINE f == m.allocatedMemories
           T == Blocks \ {b}
<1>1. SLOTS \in Nat /\ SLOTS > 0
  BY SlotsAssumption
<1>2. f \in [1 .. SLOTS -> Blocks \cup {0}] /\ b \in Blocks
  BY DEF Listing, SharedMemoryType
<1>3. \A i \in 1 .. SLOTS : f[i] \in T
  <2>1. \A i \in 1 .. SLOTS : f[i] # 0 /\ f[i] \notin m.mempool
    BY DEF Listing
  <2> HIDE DEF f
  <2> QED BY <1>2, <2>1
<1>4. f \in Injection(1 .. SLOTS, T)
  BY <1>2, <1>3 DEF Listing, Injection, IsInjective
<1>5. IsFiniteSet(Blocks) /\ Cardinality(Blocks) = SLOTS
  <2>1. SLOTS \in Int /\ 1 \in Int
    BY <1>1
  <2>2. IsFiniteSet(1 .. SLOTS) /\ Cardinality(1 .. SLOTS) = IF 1 > SLOTS THEN 0 ELSE SLOTS - 1 + 1
    BY <2>1, FS_Interval
  <2> QED BY <1>1, <2>2 DEF Blocks
<1>6. IsFiniteSet(T) /\ Cardinality(T) = Cardinality(Blocks) - 1
  BY <1>2, <1>5, FS_RemoveElement
<1>7. Cardinality(1 .. SLOTS) <= Cardinality(T)
  BY <1>4, <1>6, FS_Injection
<1> QED BY <1>1, <1>5, <1>6, <1>7 DEF Blocks

LEMMA FreeListing ==
  ASSUME NEW m, Listing(m), NEW S, S \subseteq 1 .. SLOTS,
         \A i \in S : m.allocatedMemories[i] # 0
  PROVE  Listing(removeAll(m, S))
<1> DEFINE f == m.allocatedMemories
           P == m.mempool \cup {f[i] : i \in S}
           g == [i \in 1 .. SLOTS |-> IF i \in S THEN 0 ELSE f[i]]
           u == removeAll(m, S)
<1>1. m \in SharedMemoryType /\ f \in [1 .. SLOTS -> Blocks \cup {0}] /\ m.mempool \subseteq Blocks
      /\ m.sending \subseteq Blocks
  BY DEF Listing, SharedMemoryType
<1>2. 0 \notin Blocks
  BY SlotsAssumption DEF Blocks
<1>3. \A i \in S : f[i] \in Blocks
  BY <1>1
<1>4. u.mempool = P /\ u.allocatedMemories = g /\ u \in SharedMemoryType
  <2>1. u = [m EXCEPT !.mempool = P, !.allocatedMemories = g]
    BY DEF removeAll
  <2>2. P \subseteq Blocks /\ g \in [1 .. SLOTS -> Blocks \cup {0}]
    BY <1>1, <1>3
  <2> HIDE DEF P, g, u
  <2> QED BY <1>1, <2>1, <2>2 DEF SharedMemoryType
<1>5. /\ \A i, j \in 1 .. SLOTS : f[i] # 0 /\ f[i] = f[j] => i = j
      /\ \A i \in 1 .. SLOTS : f[i] \notin m.mempool
      /\ \A b \in Blocks : b \in m.mempool \/ \E i \in 1 .. SLOTS : f[i] = b
  BY DEF Listing
<1> HIDE DEF f, u
<1>6. \A i, j \in 1 .. SLOTS : g[i] # 0 /\ g[i] = g[j] => i = j
  BY <1>5
<1>7. \A i \in 1 .. SLOTS : g[i] \notin P
  <2> TAKE i \in 1 .. SLOTS
  <2>1. CASE i \in S
    BY <1>1, <1>2, <1>3, <2>1
  <2>2. CASE i \notin S
    <3>1. \A j \in S : f[j] # 0
      BY DEF f
    <3> QED BY <1>5, <2>2, <3>1
  <2> QED BY <2>1, <2>2
<1>8. \A b \in Blocks : b \in P \/ \E i \in 1 .. SLOTS : g[i] = b
  BY <1>5
<1> HIDE DEF P, g
<1> QED BY <1>4, <1>6, <1>7, <1>8 DEF Listing, u

LEMMA SendListing ==
  ASSUME NEW m, Listing(m) PROVE Listing(Send(m))
<1> DEFINE u == freeAllUnused(m)
           b == Least(u.mempool)
           v == [u EXCEPT !.mempool = @ \ {b}, !.sending = @ \cup {b}]
<1>1. Listing(u)
  BY FreeListing DEF freeAllUnused
<1> HIDE DEF u
<1>2. CASE u.mempool = {}
  BY <1>1, <1>2 DEF Send, HasBlock, u
<1>3. CASE u.mempool # {}
  <2>1. u \in SharedMemoryType /\ u.mempool \subseteq Blocks /\ u.mempool \subseteq Nat
    BY <1>1, SlotsAssumption DEF Listing, SharedMemoryType, Blocks
  <2>2. b \in u.mempool /\ b \in Blocks
    BY <1>3, <2>1, LeastIs
  <2> DEFINE f == u.allocatedMemories
             empty == {i \in 1 .. SLOTS : f[i] = 0}
             p == Least(empty)
             P == u.mempool \ {b}
             g == [f EXCEPT ![p] = b]
  <2>3. empty # {} /\ empty \subseteq Nat
    BY <1>1, <2>2, ListHasRoom, SlotsAssumption
  <2>4. p \in 1 .. SLOTS /\ f[p] = 0
    BY <2>3, LeastIs
  <2>5. v \in SharedMemoryType /\ v.allocatedMemories = f /\ v.mempool = P
    <3> HIDE DEF b
    <3> QED BY <2>1, <2>2 DEF SharedMemoryType
  <2>6. Send(m) = insert(v, b)
    BY <1>3 DEF Send, HasBlock, NextBlock, u
  <2> HIDE DEF v
  <2>7. Send(m) = [v EXCEPT !.allocatedMemories = [f EXCEPT ![p] = b]]
    <3>1. Send(m) = [v EXCEPT !.allocatedMemories[p] = b]
      BY <2>3, <2>5, <2>6 DEF insert
    <3> HIDE DEF p, b
    <3> QED BY <2>5, <3>1 DEF SharedMemoryType
  <2>8. f \in [1 .. SLOTS -> Blocks \cup {0}]
    BY <2>1 DEF SharedMemoryType
  <2>9. 0 \notin Blocks
    BY SlotsAssumption DEF Blocks
  <2> HIDE DEF p, b, empty
  <2>10. g \in [1 .. SLOTS -> Blocks \cup {0}] /\ g[p] = b /\ \A i \in 1 .. SLOTS : i # p => g[i] = f[i]
    BY <2>2, <2>4, <2>8
  <2> DEFINE w == Send(m)
  <2>11. w \in SharedMemoryType /\ w.allocatedMemories = g /\ w.mempool = P
    <3> HIDE DEF g, P, f
    <3>1. w = [v EXCEPT !.allocatedMemories = g]
      BY <2>7 DEF g
    <3> HIDE DEF w
    <3> QED BY <2>5, <2>10, <3>1 DEF SharedMemoryType
  <2>12. /\ \A i, j \in 1 .. SLOTS : f[i] # 0 /\ f[i] = f[j] => i = j
         /\ \A i \in 1 .. SLOTS : f[i] \notin u.mempool
         /\ \A c \in Blocks : c \in u.mempool \/ \E i \in 1 .. SLOTS : f[i] = c
    BY <1>1 DEF Listing
  <2> HIDE DEF f, g, w
  <2>13. \A i, j \in 1 .. SLOTS : g[i] # 0 /\ g[i] = g[j] => i = j
    BY <2>2, <2>10, <2>12
  <2>14. \A i \in 1 .. SLOTS : g[i] \notin P
    BY <2>2, <2>10, <2>12
  <2>15. \A c \in Blocks : c \in P \/ \E i \in 1 .. SLOTS : g[i] = c
    BY <2>4, <2>9, <2>10, <2>12
  <2>16. Listing(w)
    <3> HIDE DEF P
    <3> QED BY <2>11, <2>13, <2>14, <2>15 DEF Listing
  <2> QED BY <2>16 DEF w
<1> QED BY <1>2, <1>3

LEMMA SentListing ==
  ASSUME NEW m, Listing(m), NEW b PROVE Listing([m EXCEPT !.sending = @ \ {b}])
BY DEF Listing, SharedMemoryType

LEMMA InvalidateListing ==
  ASSUME NEW m, Listing(m), NEW b PROVE Listing(Invalidate(m, b))
BY SentListing DEF Invalidate

LEMMA ListingIsListed ==
  ASSUME NEW m, Listing(m) PROVE EveryBlockListed(m)
<1> SUFFICES ASSUME NEW b \in Blocks
             PROVE  Cardinality({i \in 1 .. SLOTS : m.allocatedMemories[i] = b})
                      = IF b \in m.mempool THEN 0 ELSE 1
  BY DEF EveryBlockListed
<1> DEFINE T == {i \in 1 .. SLOTS : m.allocatedMemories[i] = b}
<1>1. b # 0
  BY SlotsAssumption DEF Blocks
<1>2. CASE b \in m.mempool
  <2>1. T = {}
    BY <1>2 DEF Listing
  <2> QED BY <1>2, <2>1, FS_EmptySet
<1>3. CASE b \notin m.mempool
  <2>1. PICK i \in 1 .. SLOTS : m.allocatedMemories[i] = b
    BY <1>3 DEF Listing
  <2>2. T = {i}
    BY <1>1, <2>1 DEF Listing
  <2> QED BY <1>3, <2>2, FS_Singleton
<1> QED BY <1>2, <1>3

-----------------------------------------------------------------------------
(* The bits of expire_value.                                                *)

LEMMA BitsAre ==
  ASSUME NEW x \in 0 .. 255
  PROVE  LET bit(w) == w * ((x \div w) % 2)
         IN  x = bit(1) + bit(2) + bit(4) + bit(8) + bit(16) + bit(32) + bit(64) + bit(128)
OBVIOUS

Byte == 0 .. 255
Importances == {1, 50, 70, 100, 255}

\* A bitwise or is a byte and not less than either operand.
LEMMA BitOrIs ==
  ASSUME NEW x \in Byte, NEW y \in Importances
  PROVE  BitOr[y][x] \in Byte /\ BitOr[y][x] >= x /\ BitOr[y][x] >= y
<1> USE DEF Byte, Importances
<1> DEFINE bit(w) == IF (x \div w) % 2 = 1 \/ (y \div w) % 2 = 1 THEN w ELSE 0
<1>1. BitOr[y][x] = bit(1) + bit(2) + bit(4) + bit(8) + bit(16) + bit(32) + bit(64) + bit(128)
  BY DEF BitOr
<1>2. ASSUME NEW w \in {1, 2, 4, 8, 16, 32, 64, 128}
      PROVE  /\ bit(w) \in 0 .. w
             /\ bit(w) >= w * ((x \div w) % 2) /\ w * ((x \div w) % 2) \in Nat
             /\ bit(w) >= w * ((y \div w) % 2) /\ w * ((y \div w) % 2) \in Nat
  OBVIOUS
<1>3. y \in 0 .. 255
  OBVIOUS
<1> QED BY <1>1, <1>2, <1>3, BitsAre, SMTT(60)

-----------------------------------------------------------------------------
(* The address memory.                                                      *)

Entry ==
  [id : {FreeID, NDPCacheEntryID, AddressEntryID}, ip : Hosts \cup {LinkLocal, Prefix},
   hw : {Mac[h] : h \in Hosts} \cup {Unknown, Prefetched},
   state : {Incomplete, Stale, Reachable, PrefixLength},
   isRouter : BOOLEAN, isRouting : BOOLEAN, expire : 0 .. 255,
   router : Positions \cup {EntryUndefined}]

\* A cache entry is of a host, and has the address of this host, one that a
\* frame left out, or none yet; a reachable one has an address.
EntryOK(e) ==
  e.id = NDPCacheEntryID =>
    /\ e.ip \in Hosts /\ (e.isRouting => e.ip \in Routers)
    /\ e.hw \in {Mac[e.ip], Prefetched, Unknown}
    /\ e.state = Reachable => e.hw # Unknown

\* An entry that neither dropUnused() nor a lookup takes away.
Solid(e) ==
  /\ e.id = NDPCacheEntryID /\ e.state = Reachable /\ e.hw = Mac[e.ip]
  /\ e.expire >= IMPORTANCE_good_to_know

\* A memory: no host has two entries; the first position is the configured
\* router, the second the interface's own address.
Good(m) ==
  /\ m \in [Positions -> Entry]
  /\ \A i \in Positions : EntryOK(m[i])
  /\ \A i, j \in Of(m, NDPCacheEntryID) : m[i].ip = m[j].ip => i = j
  /\ Solid(m[1]) /\ m[1].ip = StaticRouter /\ m[1].expire = IMPORTANCE_always_keep
  /\ m[2].id = AddressEntryID /\ m[2].ip = LinkLocal /\ m[2].router = EntryUndefined

\* The entry e becomes f.
Keeps(e, f) ==
  Solid(e) => /\ f.id = NDPCacheEntryID /\ f.ip = e.ip /\ f.state = Reachable /\ f.hw = e.hw
              /\ f.expire >= e.expire

\* Only routers, and hosts that had none before, are without an address.
Learns(e, f) ==
  f.id = NDPCacheEntryID /\ f.hw = Unknown =>
    f.ip \in Routers \/ (e.id = NDPCacheEntryID /\ e.hw = Unknown /\ f.ip = e.ip)

\* What the handlers of messages may make of a memory m.
Follows(m, n) ==
  Good(n) /\ \A i \in Positions : Keeps(m[i], n[i]) /\ Learns(m[i], n[i])

LEMMA PositionsAre ==
  /\ SIZE \in Nat /\ SIZE < 255 /\ 1 \in Positions /\ 2 \in Positions
  /\ EntryUndefined \notin Positions /\ 0 \notin Positions /\ Positions \subseteq Nat
  /\ \A i \in Positions : i \in 1 .. SIZE /\ (i # 1 /\ i # 2 => i \in 3 .. SIZE)
BY CacheAssumption DEF Positions, EntryUndefined

LEMMA FollowsSelf ==
  ASSUME NEW m, Good(m) PROVE Follows(m, m)
<1>1. \A i \in Positions : m[i] \in Entry
  BY DEF Good
<1>2. \A i \in Positions : m[i].expire \in 0 .. 255
  BY <1>1 DEF Entry
<1> QED BY <1>2 DEF Follows, Keeps, Learns, Solid

LEMMA FollowsTrans ==
  ASSUME NEW l, NEW m, NEW n, Good(l), Follows(l, m), Follows(m, n) PROVE Follows(l, n)
<1>1. ASSUME NEW i \in Positions PROVE Keeps(l[i], n[i]) /\ Learns(l[i], n[i])
  <2>1. l[i].expire \in 0 .. 255 /\ m[i].expire \in 0 .. 255 /\ n[i].expire \in 0 .. 255
    BY DEF Follows, Good, Entry
  <2>2. Keeps(l[i], m[i]) /\ Learns(l[i], m[i]) /\ Keeps(m[i], n[i]) /\ Learns(m[i], n[i])
    BY DEF Follows
  <2>3. ASSUME NEW a \in 0 .. 255, NEW b \in 0 .. 255, NEW c \in 0 .. 255, a >= b, b >= c PROVE a >= c
    BY <2>3
  <2>4. Solid(l[i]) => Solid(m[i])
    <3> HAVE Solid(l[i])
    <3>1. m[i].expire >= l[i].expire /\ l[i].expire >= IMPORTANCE_good_to_know
      BY <2>2 DEF Keeps, Solid
    <3>2. m[i].expire >= IMPORTANCE_good_to_know
      <4>1. IMPORTANCE_good_to_know \in 0 .. 255
        BY DEF IMPORTANCE_good_to_know
      <4> QED BY <2>1, <2>3, <3>1, <4>1
    <3> QED BY <2>2, <3>2 DEF Keeps, Solid
  <2>6. Keeps(l[i], n[i])
    <3> SUFFICES ASSUME Solid(l[i])
                 PROVE  /\ n[i].id = NDPCacheEntryID /\ n[i].ip = l[i].ip /\ n[i].state = Reachable
                        /\ n[i].hw = l[i].hw /\ n[i].expire >= l[i].expire
      BY DEF Keeps
    <3>1. m[i].expire >= l[i].expire /\ n[i].expire >= m[i].expire
      BY <2>2, <2>4 DEF Keeps
    <3>2. n[i].expire >= l[i].expire
      BY <2>1, <2>3, <3>1
    <3> QED BY <2>2, <2>4, <3>2 DEF Keeps
  <2>5. Learns(l[i], n[i])
    BY <2>2 DEF Learns
  <2> QED BY <2>5, <2>6
<1> QED BY <1>1 DEF Follows

\* An entry is written: a cache entry for a host that has no other.
LEMMA PutFollows ==
  ASSUME NEW m, Good(m), NEW p \in Positions, NEW e \in Entry, EntryOK(e), p # 2,
         Keeps(m[p], e), Learns(m[p], e),
         e.id = NDPCacheEntryID => \A i \in Of(m, NDPCacheEntryID) : m[i].ip = e.ip => i = p
  PROVE  Follows(m, [m EXCEPT ![p] = e])
<1> DEFINE n == [m EXCEPT ![p] = e]
<1>1. m \in [Positions -> Entry] /\ 1 \in Positions /\ 2 \in Positions
  BY PositionsAre DEF Good
<1>2. n \in [Positions -> Entry] /\ n[p] = e /\ \A i \in Positions : i # p => n[i] = m[i]
  BY <1>1
<1> HIDE DEF n
<1>3. \A i \in Positions : Keeps(m[i], n[i]) /\ Learns(m[i], n[i])
  BY <1>2, FollowsSelf DEF Follows
<1>4. \A i \in Positions : EntryOK(n[i])
  BY <1>2 DEF Good
<1>5. \A i, j \in Of(n, NDPCacheEntryID) : n[i].ip = n[j].ip => i = j
  BY <1>2 DEF Good, Of
<1>6. m[1].expire = 255 /\ Solid(m[1]) /\ m[1].ip = StaticRouter /\ n[1].expire \in 0 .. 255
  BY <1>1, <1>2 DEF Good, Entry, IMPORTANCE_always_keep
<1>7. Solid(n[1]) /\ n[1].ip = StaticRouter /\ n[1].expire = IMPORTANCE_always_keep
  BY <1>1, <1>3, <1>6 DEF Keeps, Solid, IMPORTANCE_always_keep, IMPORTANCE_good_to_know
<1>8. n[2] = m[2]
  BY <1>1, <1>2
<1>9. Good(n)
  BY <1>2, <1>4, <1>5, <1>7, <1>8 DEF Good
<1> QED BY <1>3, <1>9 DEF Follows, n

\* A freed entry, at which the task may still look.
LEMMA FreedIs ==
  ASSUME NEW e \in Entry
  PROVE  /\ FreeEntry \in Entry /\ FreeEntry.id = FreeID
         /\ [FreeEntry EXCEPT !.hw = e.hw, !.state = e.state] \in Entry
         /\ [FreeEntry EXCEPT !.hw = e.hw, !.state = e.state].id = FreeID
<1>1. FreeEntry \in Entry /\ FreeEntry.id = FreeID
  BY PositionsAre DEF FreeEntry, Entry, FreeID, Incomplete
<1>2. /\ e.hw \in {Mac[h] : h \in Hosts} \cup {Unknown, Prefetched}
      /\ e.state \in {Incomplete, Stale, Reachable, PrefixLength}
  BY DEF Entry
<1>3. /\ [FreeEntry EXCEPT !.hw = e.hw, !.state = e.state] \in Entry
      /\ [FreeEntry EXCEPT !.hw = e.hw, !.state = e.state].id = FreeID
  <2> DEFINE d == [FreeEntry EXCEPT !.hw = e.hw]
             f == [FreeEntry EXCEPT !.hw = e.hw, !.state = e.state]
  <2>1. d \in Entry /\ d.id = FreeID
    BY <1>1, <1>2 DEF Entry
  <2>2. f = [d EXCEPT !.state = e.state]
    BY <1>1 DEF Entry
  <2> HIDE DEF d, f
  <2>3. f \in Entry /\ f.id = FreeID
    BY <1>2, <2>1, <2>2 DEF Entry
  <2> QED BY <2>3 DEF f
<1> QED BY <1>1, <1>3

\* Entries that are not kept are freed.
LEMMA FreeFollows ==
  ASSUME NEW m, Good(m), NEW S, S \subseteq Positions, 2 \notin S, \A i \in S : ~Solid(m[i])
  PROVE  /\ Follows(m, freeEntries(m, S))
         /\ \A i \in S : freeEntries(m, S)[i].id = FreeID
         /\ \A i \in Positions \ S : freeEntries(m, S)[i] = m[i]
<1> DEFINE n == freeEntries(m, S)
           f(i) == IF lookup.entry = i THEN [FreeEntry EXCEPT !.hw = m[i].hw, !.state = m[i].state]
                   ELSE FreeEntry
<1>1. m \in [Positions -> Entry] /\ 1 \in Positions /\ 2 \in Positions
  BY PositionsAre DEF Good
<1>2. ASSUME NEW i \in Positions PROVE f(i) \in Entry /\ f(i).id = FreeID
  <2> DEFINE e == m[i]
  <2>1. e \in Entry /\ f(i) = IF lookup.entry = i THEN [FreeEntry EXCEPT !.hw = e.hw, !.state = e.state] ELSE FreeEntry
    BY <1>1
  <2> HIDE DEF e, f
  <2> QED BY <2>1, FreedIs
<1>3. /\ n = [i \in Positions |-> IF i \notin S THEN m[i] ELSE f(i)]
  BY DEF freeEntries
<1> HIDE DEF f, n
<1>4. /\ n \in [Positions -> Entry]
      /\ \A i \in S : n[i].id = FreeID
      /\ \A i \in Positions \ S : n[i] = m[i]
  BY <1>1, <1>2, <1>3
<1>5. FreeID # NDPCacheEntryID
  BY DEF FreeID, NDPCacheEntryID
<1>6. \A i \in Positions : Keeps(m[i], n[i]) /\ Learns(m[i], n[i])
  <2>1. \A i \in S : Keeps(m[i], n[i]) /\ Learns(m[i], n[i])
    BY <1>4, <1>5 DEF Keeps, Learns
  <2> QED BY <1>4, <2>1, FollowsSelf DEF Follows
<1>7. \A i \in Positions : EntryOK(n[i])
  BY <1>4, <1>5 DEF Good, EntryOK
<1>8. \A i, j \in Of(n, NDPCacheEntryID) : n[i].ip = n[j].ip => i = j
  <2>1. \A i \in Of(n, NDPCacheEntryID) : i \in Of(m, NDPCacheEntryID) /\ n[i] = m[i]
    BY <1>4, <1>5 DEF Of
  <2> QED BY <2>1 DEF Good
<1>9. 1 \notin S
  BY DEF Good
<1>10. Good(n)
  BY <1>1, <1>4, <1>7, <1>8, <1>9 DEF Good
<1> QED BY <1>4, <1>6, <1>10 DEF Follows, n

LEMMA FindIs ==
  ASSUME NEW m, NEW ip
  PROVE  LET p == ndpcache_find(m, ip)
         IN  IF p = 0 THEN \A i \in Of(m, NDPCacheEntryID) : m[i].ip # ip
             ELSE p \in Of(m, NDPCacheEntryID) /\ m[p].ip = ip
<1> DEFINE found == {i \in Of(m, NDPCacheEntryID) : m[i].ip = ip}
<1>1. found \subseteq Nat /\ 0 \notin found
  BY PositionsAre DEF Of
<1>2. ndpcache_find(m, ip) = IF found = {} THEN 0 ELSE Least(found)
  BY DEF ndpcache_find
<1>3. CASE found = {}
  BY <1>2, <1>3
<1>4. CASE found # {}
  <2>1. Least(found) \in found
    BY <1>1, <1>4, LeastIs
  <2> QED BY <1>1, <1>2, <1>4, <2>1
<1> QED BY <1>3, <1>4

LEMMA FindRouterIs ==
  ASSUME NEW m
  PROVE  LET p == ndpcache_findRouter(m)
         IN  p # 0 => p \in Of(m, NDPCacheEntryID) /\ m[p].isRouting
<1> DEFINE found == {i \in Of(m, NDPCacheEntryID) : m[i].isRouting}
<1>1. found \subseteq Nat
  BY PositionsAre DEF Of
<1>2. ndpcache_findRouter(m) = IF found = {} THEN 0 ELSE Least(found)
  BY DEF ndpcache_findRouter
<1>3. found # {} => Least(found) \in found
  BY <1>1, LeastIs
<1> QED BY <1>2, <1>3

\* A search for a free entry from the first position on.
LEMMA FindFreeIs ==
  ASSUME NEW m
  PROVE  LET p == findEntry(m, FreeID, 1)
         IN  IF p = 0 THEN Of(m, FreeID) = {} ELSE p \in Positions /\ m[p].id = FreeID
<1> DEFINE found == {i \in Of(m, FreeID) : i >= 1}
<1>1. found \subseteq Nat /\ 0 \notin found /\ found = Of(m, FreeID)
  <2>1. Of(m, FreeID) \subseteq Positions
    BY DEF Of
  <2>2. \A i \in Positions : i \in Nat /\ i >= 1
    BY PositionsAre
  <2> QED BY <2>1, <2>2
<1>2. findEntry(m, FreeID, 1) = IF found = {} THEN 0 ELSE Least(found)
  BY DEF findEntry
<1>3. found # {} => Least(found) \in found
  BY <1>1, LeastIs
<1>4. \A p \in found : p \in Positions /\ m[p].id = FreeID
  BY DEF Of
<1> HIDE DEF found
<1> QED BY <1>1, <1>2, <1>3, <1>4

LEMMA Identifiers ==
  /\ FreeID # NDPCacheEntryID /\ FreeID # AddressEntryID /\ NDPCacheEntryID # AddressEntryID
  /\ Incomplete # Reachable /\ Stale # Reachable /\ PrefixLength # Reachable
BY DEF FreeID, NDPCacheEntryID, AddressEntryID, Incomplete, Stale, Reachable, PrefixLength

\* An entry below good_to_know goes, and the prefixes of its router.
LEMMA FreeNDPFollows ==
  ASSUME NEW m, Good(m), NEW p \in Of(m, NDPCacheEntryID), ~Solid(m[p])
  PROVE  /\ Follows(m, freeNDPCacheEntry(m, p))
         /\ \A i \in Of(freeNDPCacheEntry(m, p), NDPCacheEntryID) : freeNDPCacheEntry(m, p)[i] = m[i]
<1> DEFINE S == {p} \cup {i \in Of(m, AddressEntryID) : m[p].isRouter /\ m[i].router = p}
<1>1. freeNDPCacheEntry(m, p) = freeEntries(m, S)
  BY DEF freeNDPCacheEntry
<1>2. p \in Positions /\ m[p].id = NDPCacheEntryID
  BY DEF Of
<1>3. S \subseteq Positions
  BY <1>2 DEF Of
<1>4. 2 \notin S
  BY <1>2, PositionsAre, Identifiers DEF Good
<1>5. \A i \in S : ~Solid(m[i])
  BY Identifiers DEF Of, Solid
<1> HIDE DEF S
<1>6. /\ Follows(m, freeEntries(m, S))
      /\ \A i \in S : freeEntries(m, S)[i].id = FreeID
      /\ \A i \in Positions \ S : freeEntries(m, S)[i] = m[i]
  BY <1>3, <1>4, <1>5, FreeFollows
<1> QED BY <1>1, <1>6, Identifiers DEF Of

LEMMA ReleaseFollows ==
  ASSUME NEW m, Good(m)
  PROVE  /\ Follows(m, releaseEntryBelowImportance(m))
         /\ \A i \in Of(releaseEntryBelowImportance(m), NDPCacheEntryID) :
              releaseEntryBelowImportance(m)[i] = m[i]
<1> DEFINE below == {i \in Of(m, NDPCacheEntryID) : m[i].expire < IMPORTANCE_good_to_know}
           least == {i \in below : \A j \in below : m[i].expire <= m[j].expire}
           E == {m[i].expire : i \in below}
<1>1. releaseEntryBelowImportance(m) = IF below = {} THEN m ELSE freeNDPCacheEntry(m, Least(least))
  BY DEF releaseEntryBelowImportance
<1>2. CASE below = {}
  BY <1>1, <1>2, FollowsSelf
<1>3. CASE below # {}
  <2>1. \A i \in below : i \in Positions /\ m[i].expire \in 0 .. 255
    BY DEF Of, Good, Entry
  <2>2. E \subseteq Nat /\ E # {}
    BY <1>3, <2>1, SMTT(30)
  <2>3. PICK x \in E : \A y \in E : x <= y
    BY <2>2, LeastNatural
  <2>4. least # {} /\ least \subseteq Nat
    BY <2>1, <2>3, PositionsAre
  <2>5. Least(least) \in least
    BY <2>4, LeastIs
  <2> DEFINE p == Least(least)
  <2>6. p \in Of(m, NDPCacheEntryID) /\ m[p].expire < IMPORTANCE_good_to_know /\ m[p].expire \in 0 .. 255
    BY <2>1, <2>5
  <2>7. ~Solid(m[p])
    <3>1. IMPORTANCE_good_to_know \in 0 .. 255
      BY DEF IMPORTANCE_good_to_know
    <3> HIDE DEF p
    <3>3. ASSUME NEW a \in 0 .. 255, NEW b \in 0 .. 255, a < b PROVE ~(a >= b)
      BY <3>3
    <3>2. ~(m[p].expire >= IMPORTANCE_good_to_know)
      BY <2>6, <3>1, <3>3
    <3> QED BY <3>2 DEF Solid
  <2> HIDE DEF p
  <2>8. releaseEntryBelowImportance(m) = freeNDPCacheEntry(m, p)
    BY <1>1, <1>3 DEF p
  <2> QED BY <2>6, <2>7, <2>8, FreeNDPFollows
<1> QED BY <1>2, <1>3

LEMMA NewEntryIs ==
  ASSUME NEW ip \in Hosts, NEW hw \in {Mac[ip], Unknown}, NEW state \in {Incomplete, Stale, Reachable},
         state = Reachable => hw = Mac[ip]
  PROVE  LET e == NDPCacheEntry(ip, hw, state)
         IN  /\ e \in Entry /\ EntryOK(e) /\ e.id = NDPCacheEntryID /\ e.ip = ip /\ e.hw = hw
             /\ e.state = state
<1> DEFINE x == TRESHOLD_REQUIRE_SOLICITATION + EXPIRE_RATE_PER_MINUTE
           e == NDPCacheEntry(ip, hw, state)
<1>1. x \in 0 .. 255
  BY CacheAssumption DEF TRESHOLD_REQUIRE_SOLICITATION, EXPIRE_RATE_PER_MINUTE
<1>2. e = [id |-> NDPCacheEntryID, ip |-> ip, hw |-> hw, state |-> state, isRouter |-> FALSE,
           isRouting |-> FALSE, expire |-> x, router |-> EntryUndefined]
  BY DEF NDPCacheEntry
<1> HIDE DEF x, e
<1>3. /\ e.id = NDPCacheEntryID /\ e.ip = ip /\ e.hw = hw /\ e.state = state /\ ~e.isRouting
  BY <1>2
<1>4. e \in Entry
  BY <1>1, <1>2 DEF Entry
<1>5. Mac[ip] # Unknown
  BY CacheAssumption
<1> QED BY <1>3, <1>4, <1>5 DEF EntryOK, e

\* addNDPCacheEntry() for a host that has no entry.
LEMMA AddNew ==
  ASSUME NEW m, Good(m), NEW ip \in Hosts, NEW hw \in {Mac[ip], Unknown},
         NEW state \in {Incomplete, Stale, Reachable}, state = Reachable => hw = Mac[ip],
         ndpcache_find(m, ip) = 0,
         NEW added, added = addNDPCacheEntry(m, ip, hw, state)
  PROVE  /\ Good(added.mem) /\ added.pos \in {0} \cup 3 .. SIZE
         /\ \A i \in Positions : Keeps(m[i], added.mem[i])
         /\ \A i \in Of(added.mem, NDPCacheEntryID) : i = added.pos \/ added.mem[i] = m[i]
         /\ added.pos # 0 => added.mem[added.pos] = NDPCacheEntry(ip, hw, state)
         /\ hw = Mac[ip] \/ ip \in Routers => Follows(m, added.mem)
<1> DEFINE room == IF findEntry(m, FreeID, 1) = 0 THEN releaseEntryBelowImportance(m) ELSE m
           p == findEntry(room, FreeID, 1)
           e == NDPCacheEntry(ip, hw, state)
           n == IF p = 0 THEN room ELSE [room EXCEPT ![p] = e]
<1>1. added.mem = n /\ added.pos = p
  BY DEF addNDPCacheEntry
<1>2. Follows(m, room) /\ \A i \in Of(room, NDPCacheEntryID) : room[i] = m[i]
  BY FollowsSelf, ReleaseFollows
<1> HIDE DEF room
<1>3. Good(room) /\ \A i \in Positions : Keeps(m[i], room[i])
  BY <1>2 DEF Follows
<1>4. \A i \in Of(room, NDPCacheEntryID) : room[i].ip # ip
  <2>1. \A i \in Of(m, NDPCacheEntryID) : m[i].ip # ip
    BY FindIs
  <2> QED BY <1>2, <2>1 DEF Of
<1>5. CASE p = 0
  BY <1>1, <1>2, <1>3, <1>5
<1>6. CASE p # 0
  <2>1. p \in Positions /\ room[p].id = FreeID
    BY <1>6, FindFreeIs
  <2> HIDE DEF p
  <2>2. p # 1 /\ p # 2 /\ p \in 3 .. SIZE
    BY <1>3, <2>1, PositionsAre, Identifiers DEF Good, Solid
  <2>3. e \in Entry /\ EntryOK(e) /\ e.id = NDPCacheEntryID /\ e.ip = ip /\ e.hw = hw
    BY NewEntryIs
  <2> HIDE DEF e
  <2>4. Keeps(room[p], e)
    BY <2>1, Identifiers DEF Keeps, Solid
  <2>5. n = [room EXCEPT ![p] = e] /\ room \in [Positions -> Entry]
    BY <1>3, <1>6 DEF Good
  <2> HIDE DEF n
  <2>6. n[p] = e /\ \A i \in Positions : i # p => n[i] = room[i]
    BY <2>1, <2>5
  <2>7. \A i \in Of(n, NDPCacheEntryID) : i = p \/ n[i] = m[i]
    BY <1>2, <2>6 DEF Of
  \* Without a Learns(): PutFollows for an entry that differs in hw only.
  <2>8. Good(n) /\ \A i \in Positions : Keeps(room[i], n[i])
    <3>1. \A i \in Positions : Keeps(room[i], n[i])
      BY <1>3, <2>4, <2>6, FollowsSelf DEF Follows
    <3>2. n \in [Positions -> Entry] /\ \A i \in Positions : EntryOK(n[i])
      BY <1>3, <2>1, <2>3, <2>5, <2>6 DEF Good
    <3>3. \A i, j \in Of(n, NDPCacheEntryID) : n[i].ip = n[j].ip => i = j
      <4>1. \A i \in Of(n, NDPCacheEntryID) : i # p => i \in Of(room, NDPCacheEntryID) /\ n[i] = room[i]
        BY <2>6 DEF Of
      <4>2. n[p].ip = ip
        BY <2>3, <2>6
      <4> QED BY <1>3, <1>4, <4>1, <4>2 DEF Good
    <3>4. n[1] = room[1] /\ n[2] = room[2]
      BY <2>2, <2>6, PositionsAre
    <3> QED BY <1>3, <3>1, <3>2, <3>3, <3>4 DEF Good
  <2>9. \A i \in Positions : Keeps(m[i], n[i])
    BY <1>3, <2>1, <2>4, <2>6, Identifiers DEF Keeps
  <2>10. hw = Mac[ip] \/ ip \in Routers => \A i \in Positions : Learns(m[i], n[i])
    <3>1. \A i \in Positions : Learns(m[i], room[i])
      BY <1>2 DEF Follows
    <3>2. hw = Mac[ip] \/ ip \in Routers => Learns(m[p], e)
      BY <2>3, CacheAssumption DEF Learns
    <3> QED BY <2>6, <3>1, <3>2
  <2> QED BY <1>1, <1>6, <2>2, <2>6, <2>7, <2>8, <2>9, <2>10 DEF Follows, e
<1> QED BY <1>5, <1>6

LEMMA WrittenIs ==
  ASSUME NEW m \in [Positions -> Entry], NEW n \in [Positions -> Entry], NEW p \in Positions,
         \A i \in Positions : i # p => n[i] = m[i]
  PROVE  n = [m EXCEPT ![p] = n[p]]
OBVIOUS

\* The entry f is e, but for isRouter, isRouting and expire.
SameHost(e, f) == f.id = e.id /\ f.ip = e.ip /\ f.hw = e.hw /\ f.state = e.state /\ f.router = e.router

LEMMA ImportanceIs ==
  ASSUME NEW m \in [Positions -> Entry], NEW p \in Positions, NEW importance \in Importances,
         NEW n, n = update_importance(m, p, importance)
  PROVE  /\ n \in [Positions -> Entry] /\ \A i \in Positions : i # p => n[i] = m[i]
         /\ SameHost(m[p], n[p]) /\ n[p].isRouter = m[p].isRouter /\ n[p].isRouting = m[p].isRouting
         /\ n[p].expire \in Byte /\ n[p].expire >= m[p].expire /\ n[p].expire >= importance
<1> DEFINE x == BitOr[importance][m[p].expire]
           e == [m[p] EXCEPT !.expire = x]
<1>1. m[p] \in Entry /\ m[p].expire \in 0 .. 255
  BY DEF Entry
<1>2. x \in 0 .. 255 /\ x >= m[p].expire /\ x >= importance
  <2> DEFINE y == m[p].expire
  <2>1. y \in Byte
    BY <1>1 DEF Byte
  <2> HIDE DEF y
  <2>2. BitOr[importance][y] \in Byte /\ BitOr[importance][y] >= y /\ BitOr[importance][y] >= importance
    BY <2>1, BitOrIs
  <2> QED BY <2>2 DEF y, Byte
<1>3. n = [m EXCEPT ![p] = e]
  BY DEF update_importance
<1> HIDE DEF x
<1>4. e \in Entry
  BY <1>1, <1>2 DEF Entry
<1> HIDE DEF e
<1>5. n \in [Positions -> Entry] /\ n[p] = e /\ \A i \in Positions : i # p => n[i] = m[i]
  BY <1>3, <1>4
<1>6. n[p].expire = x /\ SameHost(m[p], n[p]) /\ n[p].isRouter = m[p].isRouter /\ n[p].isRouting = m[p].isRouting
  BY <1>1, <1>5 DEF e, SameHost, Entry
<1> QED BY <1>2, <1>5, <1>6 DEF Byte

\* An entry of a host is renewed in place.
LEMMA RenewFollows ==
  ASSUME NEW m, Good(m), NEW p \in Of(m, NDPCacheEntryID), NEW n \in [Positions -> Entry],
         \A i \in Positions : i # p => n[i] = m[i],
         n[p].id = NDPCacheEntryID, n[p].ip = m[p].ip, EntryOK(n[p]), Keeps(m[p], n[p]),
         n[p].hw = Unknown => m[p].hw = Unknown
  PROVE  Follows(m, n)
<1>1. m \in [Positions -> Entry] /\ p \in Positions /\ p # 2 /\ m[p].id = NDPCacheEntryID
  BY PositionsAre, Identifiers DEF Good, Of
<1>2. n = [m EXCEPT ![p] = n[p]] /\ n[p] \in Entry
  BY <1>1, WrittenIs
<1>3. Learns(m[p], n[p])
  BY <1>1 DEF Learns
<1>4. \A i \in Of(m, NDPCacheEntryID) : m[i].ip = n[p].ip => i = p
  BY DEF Good
<1> DEFINE e == n[p]
<1>5. e \in Entry /\ EntryOK(e) /\ Keeps(m[p], e) /\ Learns(m[p], e) /\ n = [m EXCEPT ![p] = e]
      /\ \A i \in Of(m, NDPCacheEntryID) : m[i].ip = e.ip => i = p
  BY <1>2, <1>3, <1>4
<1> HIDE DEF e
<1>6. Follows(m, [m EXCEPT ![p] = e])
  BY <1>1, <1>5, PutFollows
<1> QED BY <1>5, <1>6

\* AddressResolutionUpdate: the entry of h, in place; an advertisement that
\* overrides and carries the address makes it solid.
LEMMA AdvertisedFollows ==
  ASSUME NEW m, Good(m), NEW h \in Hosts, NEW na, NEW p \in Of(m, NDPCacheEntryID), m[p].ip = h
  PROVE  LET n == Advertised(m, p, h, na)
         IN  /\ Follows(m, n)
             /\ na.override /\ get_option_linklayer_address(TargetLinkLayer, na.options) =>
                  Solid(n[p]) /\ n[p].ip = h /\ n[p].expire >= IMPORTANCE_solicitation_renew
<1> DEFINE b == h \in Routers
           a == [m EXCEPT ![p] = [m[p] EXCEPT !.isRouter = b]]
           importance == IF a[p].isRouter THEN IMPORTANCE_router ELSE IMPORTANCE_solicitation_renew
           flagged == update_importance(a, p, importance)
           learns == get_option_linklayer_address(TargetLinkLayer, na.options) /\ (na.override \/ m[p].state # Reachable)
           n == Advertised(m, p, h, na)
<1>1. m \in [Positions -> Entry] /\ p \in Positions /\ m[p] \in Entry /\ m[p].id = NDPCacheEntryID
      /\ m[p].expire \in 0 .. 255 /\ EntryOK(m[p])
  BY DEF Good, Of, Entry
<1>2. n = IF learns THEN [flagged EXCEPT ![p].hw = Mac[h], ![p].state = Reachable] ELSE flagged
  BY DEF Advertised, entryConfirmed
<1>3. a \in [Positions -> Entry] /\ a[p] = [m[p] EXCEPT !.isRouter = b] /\ \A i \in Positions : i # p => a[i] = m[i]
  <2>1. [m[p] EXCEPT !.isRouter = b] \in Entry
    <3>1. b \in BOOLEAN
      OBVIOUS
    <3> HIDE DEF b
    <3> QED BY <1>1, <3>1 DEF Entry
  <2> QED BY <1>1, <2>1
<1>4. importance \in Importances /\ importance \in 0 .. 255 /\ importance >= 70
  BY DEF IMPORTANCE_router, IMPORTANCE_solicitation_renew, Importances
<1> HIDE DEF a, b, importance
<1>5. /\ flagged \in [Positions -> Entry] /\ \A i \in Positions : i # p => flagged[i] = a[i]
      /\ SameHost(a[p], flagged[p]) /\ flagged[p].isRouting = a[p].isRouting
      /\ flagged[p].expire \in Byte /\ flagged[p].expire >= a[p].expire /\ flagged[p].expire >= importance
  <2>1. flagged = update_importance(a, p, importance)
    OBVIOUS
  <2> HIDE DEF flagged
  <2>2. a \in [Positions -> Entry] /\ p \in Positions /\ importance \in Importances
    BY <1>1, <1>3, <1>4
  <2> QED BY <2>1, <2>2, ImportanceIs
<1> DEFINE x == flagged[p].expire
<1> HIDE DEF flagged
<1>7. a[p].expire = m[p].expire /\ SameHost(m[p], a[p]) /\ a[p].isRouting = m[p].isRouting
  BY <1>1, <1>3 DEF Entry, SameHost
<1>8. flagged[p] \in Entry /\ flagged[p].ip = h /\ flagged[p].id = NDPCacheEntryID
      /\ flagged[p].hw = m[p].hw /\ flagged[p].state = m[p].state /\ flagged[p].isRouting = m[p].isRouting
  BY <1>1, <1>5, <1>7 DEF SameHost
<1>9. x >= m[p].expire /\ x >= 70 /\ x \in 0 .. 255
  BY <1>1, <1>4, <1>5, <1>7 DEF Byte
<1>10. Mac[h] # Unknown /\ h \in Hosts
  BY CacheAssumption
<1>11. CASE ~learns
  <2>1. n = flagged
    BY <1>2, <1>11
  <2>2. EntryOK(n[p])
    BY <1>1, <1>8, <2>1 DEF EntryOK
  <2>3. Keeps(m[p], n[p])
    BY <1>8, <1>9, <2>1 DEF Keeps, Solid
  <2> HIDE DEF n, learns
  <2>5. n \in [Positions -> Entry] /\ \A i \in Positions : i # p => n[i] = m[i]
    BY <1>3, <1>5, <2>1
  <2>6. n[p].id = NDPCacheEntryID /\ n[p].ip = m[p].ip /\ n[p].hw = m[p].hw
    BY <1>8, <2>1
  <2>4. Follows(m, n)
    BY <2>2, <2>3, <2>5, <2>6, RenewFollows
  <2> QED BY <1>11, <2>4 DEF n, learns
<1>12. CASE learns
  <2> DEFINE e == [[flagged[p] EXCEPT !.hw = Mac[h]] EXCEPT !.state = Reachable]
  <2>1. n = [flagged EXCEPT ![p] = e]
    <3>1. n = [flagged EXCEPT ![p].hw = Mac[h], ![p].state = Reachable]
      BY <1>2, <1>12
    <3> HIDE DEF n, learns
    <3> QED BY <1>1, <1>5, <3>1
  <2> HIDE DEF n
  <2>2. e \in Entry /\ e.id = NDPCacheEntryID /\ e.ip = h /\ e.hw = Mac[h] /\ e.state = Reachable /\ e.expire = x
        /\ e.isRouting = m[p].isRouting
    <3> DEFINE d == [flagged[p] EXCEPT !.hw = Mac[h]]
    <3>1. d \in Entry /\ d.id = NDPCacheEntryID /\ d.ip = h /\ d.hw = Mac[h] /\ d.expire = x
          /\ d.isRouting = m[p].isRouting
      BY <1>8, <1>10 DEF Entry
    <3> HIDE DEF d
    <3>2. e = [d EXCEPT !.state = Reachable]
      BY DEF d
    <3> HIDE DEF e
    <3> QED BY <3>1, <3>2 DEF Entry
  <2> HIDE DEF e
  <2>3. n \in [Positions -> Entry] /\ n[p] = e /\ \A i \in Positions : i # p => n[i] = m[i]
    BY <1>1, <1>3, <1>5, <2>1, <2>2
  <2>4. EntryOK(e)
    BY <1>1, <1>10, <2>2 DEF EntryOK
  <2>5. Keeps(m[p], e)
    BY <1>9, <2>2 DEF Keeps, Solid
  <2>6. Follows(m, n)
    BY <1>10, <2>2, <2>3, <2>4, <2>5, RenewFollows
  <2>7. e.expire >= IMPORTANCE_good_to_know /\ e.expire >= IMPORTANCE_solicitation_renew
    BY <1>9, <2>2 DEF IMPORTANCE_good_to_know, IMPORTANCE_solicitation_renew
  <2>8. Solid(n[p]) /\ n[p].ip = h /\ n[p].expire >= IMPORTANCE_solicitation_renew
    BY <2>2, <2>3, <2>7 DEF Solid
  <2> QED BY <2>6, <2>8 DEF n
<1> QED BY <1>11, <1>12

LEMMA ImportanceFollows ==
  ASSUME NEW m, Good(m), NEW p \in Of(m, NDPCacheEntryID), NEW importance \in Importances
  PROVE  Follows(m, update_importance(m, p, importance))
<1> DEFINE n == update_importance(m, p, importance)
<1>1. m \in [Positions -> Entry] /\ p \in Positions /\ m[p].id = NDPCacheEntryID /\ EntryOK(m[p])
  BY DEF Good, Of
<1>2. n = update_importance(m, p, importance)
  OBVIOUS
<1> HIDE DEF n
<1>3. /\ n \in [Positions -> Entry] /\ \A i \in Positions : i # p => n[i] = m[i]
      /\ SameHost(m[p], n[p]) /\ n[p].isRouting = m[p].isRouting
      /\ n[p].expire >= m[p].expire
  BY <1>1, <1>2, ImportanceIs
<1>4. EntryOK(n[p])
  BY <1>1, <1>3 DEF EntryOK, SameHost
<1>5. Keeps(m[p], n[p])
  BY <1>3 DEF Keeps, SameHost, Solid
<1>6. n[p].id = NDPCacheEntryID /\ n[p].ip = m[p].ip /\ n[p].hw = m[p].hw
  BY <1>1, <1>3 DEF SameHost
<1>7. Follows(m, n)
  BY <1>3, <1>4, <1>5, <1>6, RenewFollows
<1> QED BY <1>7 DEF n

\* A frame from h makes its entry reachable.
LEMMA PrefetchFollows ==
  ASSUME NEW m, Good(m), NEW h \in Hosts, NEW unicast
  PROVE  Follows(m, Prefetch(m, h, unicast))
<1> DEFINE old == ndpcache_find(m, h)
           added == addNDPCacheEntry(m, h, Mac[h], Reachable)
           p == added.pos
           marked == IF added.mem[p].hw = Unknown THEN [added.mem EXCEPT ![p].hw = Prefetched] ELSE added.mem
<1>1. Prefetch(m, h, unicast) = IF ~unicast THEN m ELSE IF p = 0 THEN added.mem
                                ELSE update_importance(marked, p, IMPORTANCE_good_to_know)
  BY DEF Prefetch
<1>2. IMPORTANCE_good_to_know \in Importances
  BY DEF IMPORTANCE_good_to_know, Importances
<1>3. CASE ~unicast
  BY <1>1, <1>3, FollowsSelf
<1>4. CASE unicast /\ old # 0
  <2>1. added.mem = [m EXCEPT ![old].state = Reachable] /\ p = old
    BY <1>4 DEF addNDPCacheEntry
  <2>2. old \in Of(m, NDPCacheEntryID) /\ m[old].ip = h
    BY <1>4, FindIs
  <2>3. m \in [Positions -> Entry] /\ old \in Positions /\ m[old] \in Entry /\ EntryOK(m[old])
        /\ m[old].id = NDPCacheEntryID
    BY <2>2 DEF Good, Of
  <2> DEFINE a == added.mem
             d == [m[old] EXCEPT !.state = Reachable]
             e == IF d.hw = Unknown THEN [d EXCEPT !.hw = Prefetched] ELSE d
  <2>4. d \in Entry /\ d.id = NDPCacheEntryID /\ d.ip = h /\ d.hw = m[old].hw /\ d.state = Reachable
        /\ d.isRouting = m[old].isRouting /\ d.expire = m[old].expire
    BY <2>2, <2>3 DEF Entry
  <2>5. a = [m EXCEPT ![old] = d]
    BY <2>1
  <2> HIDE DEF d, a
  <2>6. a \in [Positions -> Entry] /\ a[old] = d /\ \A i \in Positions : i # old => a[i] = m[i]
    BY <2>3, <2>4, <2>5
  <2>7. e \in Entry /\ e.id = NDPCacheEntryID /\ e.ip = h /\ e.state = Reachable
        /\ e.hw = (IF m[old].hw = Unknown THEN Prefetched ELSE m[old].hw)
        /\ e.isRouting = m[old].isRouting /\ e.expire = m[old].expire
    BY <2>4 DEF Entry
  <2>8. marked = IF a[old].hw = Unknown THEN [a EXCEPT ![old].hw = Prefetched] ELSE a
    BY <2>1 DEF a
  <2> HIDE DEF marked, added, old
  <2>9. marked = [a EXCEPT ![old] = e]
    BY <2>3, <2>6, <2>8
  <2> HIDE DEF e
  <2>10. marked \in [Positions -> Entry] /\ marked[old] = e /\ \A i \in Positions : i # old => marked[i] = m[i]
    BY <2>3, <2>6, <2>7, <2>9
  <2>11. Unknown # Prefetched /\ Mac[h] # Unknown
    BY CacheAssumption
  <2>12. EntryOK(e)
    BY <2>2, <2>3, <2>7, <2>11 DEF EntryOK
  <2>13. m[old].expire \in 0 .. 255
    BY <2>3 DEF Entry
  <2>14. Keeps(m[old], e)
    BY <2>2, <2>7, <2>11, <2>13 DEF Keeps, Solid
  <2>15. e.hw # Unknown
    BY <2>7, <2>11
  <2>16. Follows(m, marked)
    BY <2>2, <2>7, <2>10, <2>12, <2>14, <2>15, RenewFollows
  <2>17. Good(marked) /\ old \in Of(marked, NDPCacheEntryID)
    BY <2>3, <2>7, <2>10, <2>16 DEF Follows, Of
  <2>18. Follows(marked, update_importance(marked, old, IMPORTANCE_good_to_know))
    BY <1>2, <2>17, ImportanceFollows
  <2>19. Prefetch(m, h, unicast) = update_importance(marked, old, IMPORTANCE_good_to_know)
    BY <1>1, <1>4, <2>1
  <2> QED BY <2>16, <2>18, <2>19, FollowsTrans
<1>5. CASE unicast /\ old = 0
  <2>1. added = addNDPCacheEntry(m, h, Mac[h], Reachable)
    OBVIOUS
  <2> HIDE DEF added
  <2>2. Good(added.mem) /\ added.pos \in {0} \cup 3 .. SIZE
        /\ (added.pos # 0 => added.mem[added.pos] = NDPCacheEntry(h, Mac[h], Reachable))
        /\ Follows(m, added.mem)
    BY <1>5, <2>1, AddNew
  <2>3. CASE p = 0
    BY <1>1, <1>5, <2>2, <2>3
  <2>4. CASE p # 0
    <3>1. p \in Positions
      BY <2>2, <2>4 DEF Positions
    <3>2. added.mem[p].id = NDPCacheEntryID /\ added.mem[p].hw = Mac[h]
      BY <2>2, <2>4 DEF NDPCacheEntry
    <3>3. marked = added.mem
      BY <3>2, CacheAssumption
    <3>4. p \in Of(added.mem, NDPCacheEntryID)
      BY <3>1, <3>2 DEF Of
    <3> HIDE DEF marked, p
    <3>5. Follows(added.mem, update_importance(added.mem, p, IMPORTANCE_good_to_know))
      BY <1>2, <2>2, <3>4, ImportanceFollows
    <3>6. Prefetch(m, h, unicast) = update_importance(added.mem, p, IMPORTANCE_good_to_know)
      BY <1>1, <1>5, <2>4, <3>3
    <3> QED BY <2>2, <3>5, <3>6, FollowsTrans
  <2> QED BY <2>3, <2>4
<1> QED BY <1>3, <1>4, <1>5

-----------------------------------------------------------------------------
(* Router advertisements.                                                   *)

LEMMA OptionsLengthIs ==
  ASSUME NEW opts \in Seq([type : Nat, len_in_octets : Nat])
  PROVE  OptionsLength(opts) \in Nat
<1> DEFINE n == Len(opts)
           w(i) == 8 * opts[i].len_in_octets
           Is(f) == f = [i \in 0 .. n |-> IF i = 0 THEN 0 ELSE f[i - 1] + w(i)]
           step == [x \in (1 .. n) \X Nat |-> x[2] + w(x[1])]
           at == CHOOSE g : Is(g)
<1>1. OptionsLength(opts) = at[n]
  BY DEF OptionsLength
<1>2. n \in Nat /\ \A i \in 1 .. n : opts[i] \in [type : Nat, len_in_octets : Nat]
  <2>1. ASSUME NEW T, opts \in Seq(T) PROVE Len(opts) \in Nat /\ \A i \in 1 .. Len(opts) : opts[i] \in T
    BY <2>1
  <2> QED BY <2>1
<1>3. \A i \in 1 .. n : w(i) \in Nat
  <2> TAKE i \in 1 .. n
  <2>1. opts[i].len_in_octets \in Nat
    BY <1>2
  <2> QED BY <2>1
<1> HIDE DEF n, w
<1>4. step \in [(1 .. n) \X Nat -> Nat]
  <2>1. \A x \in (1 .. n) \X Nat : x[1] \in 1 .. n /\ x[2] \in Nat
    OBVIOUS
  <2>2. \A x \in (1 .. n) \X Nat : x[2] + w(x[1]) \in Nat
    BY <1>3, <2>1
  <2> QED BY <2>2
<1> HIDE DEF step
<1>5. PICK f : IsRecursive(f, Nat, 0, n, step)
  BY <1>2, <1>4, Recursion
<1>6. \A k \in 1 .. n : step[<<k, f[k - 1]>>] = f[k - 1] + w(k)
  <2> TAKE k \in 1 .. n
  <2>1. k - 1 \in 0 .. n
    BY <1>2
  <2>2. f[k - 1] \in Nat
    BY <1>5, <2>1 DEF IsRecursive
  <2>3. <<k, f[k - 1]>> \in (1 .. n) \X Nat
    BY <2>2
  <2> QED BY <2>3 DEF step
<1>7. \A k \in 0 .. n : f[k] = IF k = 0 THEN 0 ELSE f[k - 1] + w(k)
  <2>1. \A k \in 0 .. n : k = 0 \/ k \in 1 .. n
    BY <1>2
  <2> QED BY <1>5, <1>6, <2>1 DEF IsRecursive
<1>8. Is(f)
  BY <1>5, <1>7 DEF IsRecursive
<1>9. Is(at)
  BY <1>8
<1> HIDE DEF at
<1>10. at[0] = 0 /\ \A k \in 1 .. n : at[k] = at[k - 1] + w(k)
  <2> DEFINE v(k) == IF k = 0 THEN 0 ELSE at[k - 1] + w(k)
  <2>1. at = [k \in 0 .. n |-> v(k)]
    BY <1>9
  <2> HIDE DEF v
  <2>2. \A k \in 0 .. n : at[k] = v(k)
    BY <2>1
  <2>3. 0 \in 0 .. n /\ \A k \in 1 .. n : k \in 0 .. n /\ k # 0
    BY <1>2
  <2> QED BY <2>2, <2>3, Zenon DEF v
<1> DEFINE S == {k \in 0 .. n : at[k] \in Nat}
<1>11. 0 \in S
  BY <1>2, <1>10
<1>12. ASSUME NEW k \in 0 .. n - 1, k \in S PROVE k + 1 \in S
  <2>1. k + 1 \in 1 .. n /\ k + 1 \in 0 .. n /\ (k + 1) - 1 = k
    BY <1>2
  <2>2. at[k + 1] = at[k] + w(k + 1)
    BY <1>10, <2>1
  <2> QED BY <1>3, <1>12, <2>1, <2>2
<1>13. \A k \in 0 .. n : k \in S
  <2> HIDE DEF S
  <2> QED BY <1>2, <1>11, <1>12, IntervalInduction
<1> QED BY <1>1, <1>2, <1>13

LEMMA RoundsAre ==
  ASSUME NEW ra \in RouterAdvertisements PROVE PrefixRounds[ra.options] \in Nat
<1>1. ra.options \in Seq([type : Nat, len_in_octets : Nat])
  BY CacheAssumption
<1>2. OptionsLength(ra.options) \in Nat
  BY <1>1, OptionsLengthIs
<1>3. OptionsLength(ra.options) \div 32 \in Nat
  BY <1>2
<1> DEFINE o == ra.options
           c(opts) == \E i \in DOMAIN opts : opts[i].type = PrefixInformation /\ Reached(opts, i)
<1>4. PrefixRounds[o] = IF c(o) THEN OptionsLength(o) \div 32 ELSE 0
  BY DEF PrefixRounds
<1> HIDE DEF c, o
<1>5. CASE c(o)
  BY <1>3, <1>4, <1>5 DEF o
<1>6. CASE ~c(o)
  BY <1>4, <1>6 DEF o
<1> QED BY <1>5, <1>6

LEMMA AfterIs ==
  ASSUME NEW S, S \subseteq Positions, NEW start \in Nat
  PROVE  After(S, start) \in Nat
<1>1. CASE S = {}
  BY <1>1 DEF After
<1>2. CASE S # {}
  <2>1. S \subseteq Int /\ SIZE \in Int /\ \A k \in S : k <= SIZE
    BY PositionsAre DEF Positions
  <2>2. \E i \in S : \A j \in S : j <= i
    BY <1>2, <2>1, GreatestInteger
  <2> DEFINE c == CHOOSE i \in S : \A j \in S : j <= i
  <2>3. c \in S
    BY <2>2
  <2>4. After(S, start) = 1 + c
    BY <1>2 DEF After
  <2> HIDE DEF c
  <2>5. c \in Nat
    BY <2>3, PositionsAre
  <2> QED BY <2>4, <2>5
<1> QED BY <1>1, <1>2

\* What the loop over the prefixes makes of the memory m and the positions R
\* that are to be freed: only free entries change, and become addresses.
Rounds(m, R, router) ==
  {acc \in [mem : [Positions -> Entry], next : Nat, toBeRemoved : SUBSET R] :
     \A i \in Positions : acc.mem[i] = m[i] \/ (m[i].id = FreeID /\ acc.mem[i] = AddressEntry(Prefix, router))}

LEMMA AddressEntryIs ==
  ASSUME NEW router \in Positions
  PROVE  AddressEntry(Prefix, router) \in Entry /\ AddressEntry(Prefix, router).id = AddressEntryID
<1>1. 0 \in 0 .. 255
  OBVIOUS
<1> QED BY <1>1 DEF AddressEntry, Entry

LEMMA RoundIs ==
  ASSUME NEW m, NEW R \in SUBSET Positions, NEW router \in Positions, NEW acc \in Rounds(m, R, router)
  PROVE  PrefixRound(acc, router) \in Rounds(m, R, router)
<1> DEFINE rest == {i \in Of(acc.mem, AddressEntryID) : i >= acc.next}
           same == {i \in rest : acc.mem[i].router = router /\ acc.mem[i].ip = Prefix}
           made == makeIPv6AddressByPrefix(acc.mem, Prefix, router)
           e == AddressEntry(Prefix, router)
           n == PrefixRound(acc, router)
<1>1. acc \in [mem : [Positions -> Entry], next : Nat, toBeRemoved : SUBSET R]
      /\ \A i \in Positions : acc.mem[i] = m[i] \/ (m[i].id = FreeID /\ acc.mem[i] = e)
  BY DEF Rounds
<1>2. n = IF same # {}
            THEN [acc EXCEPT !.toBeRemoved = @ \ {Least(same)}, !.next = Least(same) + 1]
            ELSE [acc EXCEPT !.mem = made, !.next = After(rest, acc.next)]
  BY DEF PrefixRound
<1>3. rest \subseteq Positions /\ same \subseteq Positions
  BY DEF Of
<1>4. e \in Entry /\ e.id = AddressEntryID
  BY AddressEntryIs
<1> HIDE DEF rest, same, n, e
<1>5. CASE same # {}
  <2> DEFINE x == Least(same)
  <2>1. x \in Nat
    BY <1>3, <1>5, PositionsAre, LeastIs
  <2> DEFINE y == acc.toBeRemoved \ {x}
             z == x + 1
  <2>2. n = [acc EXCEPT !.toBeRemoved = y, !.next = z]
    BY <1>2, <1>5
  <2>5. y \in SUBSET R /\ z \in Nat
    BY <1>1, <2>1
  <2> HIDE DEF x, y, z
  <2>3. n \in [mem : [Positions -> Entry], next : Nat, toBeRemoved : SUBSET R] /\ n.mem = acc.mem
    BY <1>1, <2>2, <2>5
  <2>4. \A i \in Positions : n.mem[i] = m[i] \/ (m[i].id = FreeID /\ n.mem[i] = e)
    BY <1>1, <2>3
  <2> QED BY <2>3, <2>4 DEF Rounds, n, e
<1>6. CASE same = {}
  <2> DEFINE x == After(rest, acc.next)
             p == findEntry(acc.mem, FreeID, 1)
  <2>1. x \in Nat
    BY <1>1, <1>3, AfterIs
  <2>2. made = IF p = 0 THEN acc.mem ELSE [acc.mem EXCEPT ![p] = e]
    BY DEF makeIPv6AddressByPrefix, e
  <2>3. p = 0 \/ (p \in Positions /\ acc.mem[p].id = FreeID)
    BY FindFreeIs
  <2>4. n = [acc EXCEPT !.mem = made, !.next = x]
    BY <1>2, <1>6
  <2> HIDE DEF x, p, made
  <2>5. made \in [Positions -> Entry]
    BY <1>1, <1>4, <2>2, <2>3
  <2>6. \A i \in Positions : made[i] = m[i] \/ (m[i].id = FreeID /\ made[i] = e)
    <3>1. CASE p = 0
      BY <1>1, <2>2, <3>1
    <3>2. CASE p # 0
      <4>1. made[p] = e /\ \A i \in Positions : i # p => made[i] = acc.mem[i]
        BY <1>1, <2>2, <2>3, <3>2
      <4>2. m[p].id = FreeID
        BY <1>1, <1>4, <2>3, <3>2, Identifiers
      <4> QED BY <1>1, <4>1, <4>2
    <3> QED BY <3>1, <3>2
  <2>7. n \in [mem : [Positions -> Entry], next : Nat, toBeRemoved : SUBSET R] /\ n.mem = made
    BY <1>1, <2>1, <2>4, <2>5
  <2>8. \A i \in Positions : n.mem[i] = m[i] \/ (m[i].id = FreeID /\ n.mem[i] = e)
    BY <2>6, <2>7
  <2> QED BY <2>7, <2>8 DEF Rounds, n, e
<1> QED BY <1>5, <1>6

LEMMA LoopIs ==
  ASSUME NEW m, NEW R \in SUBSET Positions, NEW router \in Positions, NEW start \in Rounds(m, R, router),
         NEW rounds \in Nat
  PROVE  PrefixLoop(start, router, rounds) \in Rounds(m, R, router)
<1> DEFINE A == Rounds(m, R, router)
           g(x) == PrefixRound(x, router)
           Is(f) == f = [k \in 0 .. rounds |-> IF k = 0 THEN start ELSE g(f[k - 1])]
           step == [x \in (1 .. rounds) \X A |-> g(x[2])]
           at == CHOOSE f : Is(f)
<1>1. PrefixLoop(start, router, rounds) = at[rounds]
  BY DEF PrefixLoop
<1>2. \A x \in A : g(x) \in A
  BY RoundIs
<1>3. start \in A
  OBVIOUS
<1> HIDE DEF g, A
<1>4. step \in [(1 .. rounds) \X A -> A]
  BY <1>2
<1> HIDE DEF step
<1>5. PICK f : IsRecursive(f, A, start, rounds, step)
  BY <1>3, <1>4, Recursion, Zenon
<1>6. \A k \in 1 .. rounds : step[<<k, f[k - 1]>>] = g(f[k - 1])
  <2> TAKE k \in 1 .. rounds
  <2>1. k - 1 \in 0 .. rounds
    OBVIOUS
  <2>2. f[k - 1] \in A
    BY <1>5, <2>1 DEF IsRecursive
  <2>3. <<k, f[k - 1]>> \in (1 .. rounds) \X A
    BY <2>2
  <2> QED BY <2>3 DEF step
<1>7. \A k \in 0 .. rounds : f[k] = IF k = 0 THEN start ELSE g(f[k - 1])
  <2>1. \A k \in 0 .. rounds : k = 0 \/ k \in 1 .. rounds
    OBVIOUS
  <2> QED BY <1>5, <1>6, <2>1 DEF IsRecursive
<1>8. Is(f)
  BY <1>5, <1>7 DEF IsRecursive
<1>9. Is(at)
  BY <1>8
<1> HIDE DEF at
<1>10. at[0] = start /\ \A k \in 1 .. rounds : at[k] = g(at[k - 1])
  <2> DEFINE v(k) == IF k = 0 THEN start ELSE g(at[k - 1])
  <2>1. at = [k \in 0 .. rounds |-> v(k)]
    BY <1>9
  <2> HIDE DEF v
  <2>2. \A k \in 0 .. rounds : at[k] = v(k)
    BY <2>1
  <2>3. 0 \in 0 .. rounds /\ \A k \in 1 .. rounds : k \in 0 .. rounds /\ k # 0
    OBVIOUS
  <2> QED BY <2>2, <2>3, Zenon DEF v
<1> DEFINE S == {k \in 0 .. rounds : at[k] \in A}
<1>11. 0 \in S
  BY <1>3, <1>10
<1>12. ASSUME NEW k \in 0 .. rounds - 1, k \in S PROVE k + 1 \in S
  <2>1. k + 1 \in 1 .. rounds /\ k + 1 \in 0 .. rounds /\ (k + 1) - 1 = k
    OBVIOUS
  <2>2. at[k + 1] = g(at[k])
    BY <1>10, <2>1
  <2> QED BY <1>2, <1>12, <2>1, <2>2
<1>13. \A k \in 0 .. rounds : k \in S
  <2> HIDE DEF S
  <2> QED BY <1>11, <1>12, IntervalInduction
<1>14. at[rounds] \in A
  BY <1>13
<1> QED BY <1>1, <1>14 DEF A

LEMMA RoundsFollow ==
  ASSUME NEW m, Good(m), NEW R, NEW router \in Positions, NEW acc \in Rounds(m, R, router)
  PROVE  Follows(m, acc.mem)
<1> DEFINE n == acc.mem
           e == AddressEntry(Prefix, router)
<1>1. n \in [Positions -> Entry] /\ \A i \in Positions : n[i] = m[i] \/ (m[i].id = FreeID /\ n[i] = e)
  BY DEF Rounds
<1>2. e.id = AddressEntryID
  BY AddressEntryIs
<1> HIDE DEF n, e
<1>3. \A i \in Positions : Keeps(m[i], m[i]) /\ Learns(m[i], m[i])
  BY FollowsSelf DEF Follows
<1>4. \A i \in Positions : Keeps(m[i], n[i]) /\ Learns(m[i], n[i])
  <2> TAKE i \in Positions
  <2>1. CASE n[i] = m[i]
    BY <1>3, <2>1
  <2>2. CASE m[i].id = FreeID /\ n[i] = e
    BY <1>2, <2>2, Identifiers DEF Keeps, Learns, Solid
  <2> QED BY <1>1, <2>1, <2>2
<1>5. \A i \in Of(n, NDPCacheEntryID) : i \in Of(m, NDPCacheEntryID) /\ n[i] = m[i]
  BY <1>1, <1>2, Identifiers DEF Of
<1>6. \A i, j \in Of(n, NDPCacheEntryID) : n[i].ip = n[j].ip => i = j
  BY <1>5 DEF Good
<1>7. \A i \in Positions : EntryOK(n[i])
  BY <1>1, <1>2, Identifiers DEF Good, EntryOK
<1>8. n[1] = m[1] /\ n[2] = m[2]
  BY <1>1, PositionsAre, Identifiers DEF Good, Solid
<1>9. Good(n)
  BY <1>1, <1>6, <1>7, <1>8 DEF Good
<1> QED BY <1>4, <1>9 DEF Follows, n

\* NDP_Router_Advertisement
LEMMA RouterFollows ==
  ASSUME Good(mem), NEW r \in Routers, NEW ra \in RouterAdvertisements, RouterAdvertisement(r, ra)
  PROVE  Follows(mem, mem')
<1> DEFINE foundMac == get_option_linklayer_address(SourceLinkLayer, ra.options)
           known    == ndpcache_find(mem, r)
           added    == IF known # 0 THEN [mem |-> mem, pos |-> known]
                       ELSE IF foundMac THEN addNDPCacheEntry(mem, r, Mac[r], Stale)
                       ELSE addNDPCacheEntry(mem, r, Unknown, Incomplete)
           p        == added.pos
           renewed  == IF foundMac THEN update_importance(added.mem, p, IMPORTANCE_router) ELSE added.mem
           addrs    == Of(renewed, AddressEntryID)
           s        == [renewed EXCEPT ![p].isRouting = ra.isDefault]
           R        == {i \in addrs : renewed[i].router = p}
           next     == After(addrs, 1)
           start    == PrefixStart(added, foundMac, ra.isDefault)
           rounds   == IF ra.shutdown /\ ~ra.isDefault THEN 0 ELSE PrefixRounds[ra.options]
           end      == PrefixLoop(start, p, rounds)
<1>1. IF p = 0 THEN mem' = added.mem ELSE mem' = freeEntries(end.mem, end.toBeRemoved)
  <2>1. \E x \in {added} :
          IF x.pos = 0 THEN mem' = x.mem
          ELSE \E y \in {PrefixLoop(PrefixStart(x, foundMac, ra.isDefault), x.pos, rounds)} :
                 mem' = freeEntries(y.mem, y.toBeRemoved)
    BY Zenon DEF RouterAdvertisement
  <2> HIDE DEF added, rounds, foundMac
  <2>2. IF p = 0 THEN mem' = added.mem
        ELSE \E y \in {end} : mem' = freeEntries(y.mem, y.toBeRemoved)
    BY <2>1, Zenon
  <2> HIDE DEF end
  <2> QED BY <2>2, Zenon
<1>s. start = [mem |-> s, next |-> next, toBeRemoved |-> R]
  BY Zenon DEF PrefixStart
<1>2. r \in Hosts
  BY CacheAssumption
<1>3. /\ Good(added.mem) /\ Follows(mem, added.mem)
      /\ p # 0 => p \in Of(added.mem, NDPCacheEntryID) /\ added.mem[p].ip = r
  <2>1. CASE known # 0
    <3>1. added.mem = mem /\ added.pos = known
      BY <2>1
    <3> QED BY <2>1, <3>1, FindIs, FollowsSelf
  <2>2. CASE known = 0
    <3> DEFINE hw == IF foundMac THEN Mac[r] ELSE Unknown
               state == IF foundMac THEN Stale ELSE Incomplete
    <3>1. added = addNDPCacheEntry(mem, r, hw, state)
      BY <2>2
    <3>2. hw \in {Mac[r], Unknown} /\ state \in {Incomplete, Stale, Reachable} /\ state # Reachable
      BY Identifiers
    <3> HIDE DEF added, hw, state
    <3>3. /\ Good(added.mem) /\ added.pos \in {0} \cup 3 .. SIZE
          /\ added.pos # 0 => added.mem[added.pos] = NDPCacheEntry(r, hw, state)
          /\ Follows(mem, added.mem)
      BY <1>2, <2>2, <3>1, <3>2, AddNew
    <3>4. p # 0 => p \in Positions
      BY <3>3 DEF Positions
    <3>5. p # 0 => added.mem[p].id = NDPCacheEntryID /\ added.mem[p].ip = r
      BY <3>3 DEF NDPCacheEntry
    <3> QED BY <3>3, <3>4, <3>5 DEF Of
  <2> QED BY <2>1, <2>2
<1>4. CASE p = 0
  BY <1>1, <1>3, <1>4, Zenon
<1>5. CASE p # 0
  <2>1. p \in Of(added.mem, NDPCacheEntryID) /\ added.mem[p].ip = r /\ p \in Positions
        /\ added.mem[p].id = NDPCacheEntryID
    BY <1>3, <1>5 DEF Of
  <2>2. mem' = freeEntries(end.mem, end.toBeRemoved)
    BY <1>1, <1>5, Zenon
  <2> DEFINE a == added.mem
  <2>3. a \in [Positions -> Entry] /\ Good(a) /\ Follows(mem, a)
    BY <1>3 DEF Good
  <2>4. renewed = IF foundMac THEN update_importance(a, p, IMPORTANCE_router) ELSE a
    OBVIOUS
  <2>b. rounds \in Nat /\ ra.isDefault \in BOOLEAN
    BY RoundsAre, CacheAssumption
  <2> HIDE DEF a, p, added, known, renewed, foundMac, rounds, start
  <2>5. Follows(a, renewed) /\ renewed[p].ip = r /\ renewed[p].id = NDPCacheEntryID
    <3>1. CASE foundMac
      <4>1. IMPORTANCE_router \in Importances
        BY DEF IMPORTANCE_router, Importances
      <4>2. renewed = update_importance(a, p, IMPORTANCE_router)
        BY <2>4, <3>1
      <4>3. Follows(a, renewed)
        BY <2>1, <2>3, <4>1, <4>2, ImportanceFollows DEF a
      <4>4. SameHost(a[p], renewed[p])
        BY <2>1, <2>3, <4>1, <4>2, ImportanceIs
      <4> QED BY <2>1, <4>3, <4>4 DEF SameHost, a
    <3>2. CASE ~foundMac
      BY <2>1, <2>3, <2>4, <3>2, FollowsSelf DEF a
    <3> QED BY <3>1, <3>2
  <2>6. Good(renewed) /\ renewed \in [Positions -> Entry] /\ p \in Of(renewed, NDPCacheEntryID)
        /\ renewed[p] \in Entry /\ EntryOK(renewed[p])
    BY <2>1, <2>5 DEF Follows, Good, Of
  <2> DEFINE b == ra.isDefault
             e == [renewed[p] EXCEPT !.isRouting = b]
  <2>7. s = [renewed EXCEPT ![p] = e]
    OBVIOUS
  <2>8. e \in Entry /\ SameHost(renewed[p], e) /\ e.expire = renewed[p].expire
    <3> HIDE DEF b
    <3> QED BY <2>6, <2>b DEF Entry, SameHost, b
  <2> HIDE DEF s, e, b
  <2>9. s \in [Positions -> Entry] /\ s[p] = e /\ \A i \in Positions : i # p => s[i] = renewed[i]
    BY <2>1, <2>6, <2>7, <2>8
  <2>10. EntryOK(e) /\ e.id = NDPCacheEntryID /\ e.ip = renewed[p].ip /\ e.hw = renewed[p].hw
    BY <2>5, <2>6, <2>8 DEF EntryOK, SameHost
  <2>11. Keeps(renewed[p], e)
    <3>1. renewed[p].expire \in 0 .. 255
      BY <2>6 DEF Entry
    <3> QED BY <2>8, <3>1 DEF Keeps, SameHost, Solid
  <2>12. Follows(renewed, s)
    BY <2>6, <2>9, <2>10, <2>11, RenewFollows
  <2>13. R \in SUBSET Positions /\ 2 \notin R /\ \A i \in R : s[i].id = AddressEntryID
    <3>1. \A i \in R : i \in Positions /\ renewed[i].id = AddressEntryID /\ renewed[i].router = p
      BY DEF Of
    <3>2. \A i \in R : i # p
      BY <2>5, <3>1, Identifiers
    <3>3. renewed[2].router = EntryUndefined /\ p # EntryUndefined
      BY <2>1, <2>6, PositionsAre DEF Good
    <3> HIDE DEF R
    <3> QED BY <2>9, <3>1, <3>2, <3>3
  <2>14. next \in Nat
    <3>1. addrs \subseteq Positions /\ 1 \in Nat
      BY DEF Of
    <3> HIDE DEF addrs
    <3> QED BY <3>1, AfterIs
  <2> HIDE DEF R, next
  <2>15. start \in Rounds(s, R, p)
    <3>1. start \in [mem : [Positions -> Entry], next : Nat, toBeRemoved : SUBSET R] /\ start.mem = s
      BY <1>s, <2>9, <2>14
    <3> QED BY <3>1 DEF Rounds
  <2> HIDE DEF start
  <2>16. end \in Rounds(s, R, p)
    BY <2>1, <2>b, <2>13, <2>15, LoopIs
  <2>17. Good(s)
    BY <2>12 DEF Follows
  <2> HIDE DEF end
  <2>18. Follows(s, end.mem)
    BY <2>1, <2>16, <2>17, RoundsFollow
  <2>19. end.toBeRemoved \subseteq R /\ \A i \in R : end.mem[i].id = AddressEntryID
    <3>1. end.toBeRemoved \in SUBSET R
      BY <2>16 DEF Rounds
    <3>2. \A i \in Positions : s[i].id # FreeID => end.mem[i] = s[i]
      BY <2>16 DEF Rounds
    <3> QED BY <2>13, <3>1, <3>2, Identifiers
  <2> DEFINE n == end.mem
             S == end.toBeRemoved
  <2>20. Good(n) /\ S \subseteq Positions /\ 2 \notin S /\ \A i \in S : ~Solid(n[i])
    BY <2>13, <2>18, <2>19, Identifiers DEF Follows, Solid
  <2> HIDE DEF n, S
  <2>21. Follows(n, freeEntries(n, S))
    BY <2>20, FreeFollows
  <2>22. Follows(n, mem')
    BY <2>2, <2>21 DEF n, S
  <2>23. Follows(mem, renewed)
    BY <2>3, <2>5, FollowsTrans
  <2>24. Follows(mem, s)
    BY <2>12, <2>23, FollowsTrans
  <2>25. Follows(mem, n)
    BY <2>18, <2>24, FollowsTrans DEF n
  <2> QED BY <2>22, <2>25, FollowsTrans
<1> QED BY <1>4, <1>5

-----------------------------------------------------------------------------
(* The inductive invariant.                                                 *)

\* The importance that a neighbour has left c refresh cycles after it was
\* confirmed.
ImportanceLeft(c) == IMPORTANCE_solicitation_renew - c * EXPIRE_RATE_PER_MINUTE

\* Why a confirmed neighbour is in the cache: its entry is Solid and as
\* important as the cycles since then have left it.
Known(m, c) ==
  \A h \in Neighbours : c[h] < Forgotten =>
    \E p \in Positions : Solid(m[p]) /\ m[p].ip = h /\ m[p].expire >= ImportanceLeft(c[h])

\* An entry without an address is of a router, or the task waits for it.
Fine(m, l) ==
  \A i \in Of(m, NDPCacheEntryID) : m[i].hw = Unknown =>
    m[i].ip \in Routers \/ (l.blocked /\ i = l.entry /\ m[i].ip = l.dst)

\* The task that waits points at its entry, as long as nothing disturbed it,
\* and never at the first two.
Waits(m, l) ==
  /\ l \in [blocked : BOOLEAN, dst : Hosts \cup {LinkLocal}, entry : {0} \cup 3 .. SIZE, disturbed : BOOLEAN]
  /\ l.blocked => l.entry # 0 /\ l.dst \in Hosts
  /\ l.blocked /\ ~l.disturbed => m[l.entry].id = NDPCacheEntryID /\ m[l.entry].ip = l.dst

IInv ==
  /\ Good(mem) /\ Fine(mem, lookup) /\ Waits(mem, lookup)
  /\ Known(mem, confirmed) /\ confirmed \in [Neighbours -> 0 .. Forgotten]
  /\ Listing(msg)

LEMMA Aging ==
  /\ EXPIRE_RATE_PER_MINUTE \in 2 .. 62 /\ Forgotten \in Nat /\ Forgotten >= 1
  /\ ImportanceLeft(0) = IMPORTANCE_solicitation_renew
  /\ \A c \in Nat : ImportanceLeft(c) \in Int
       /\ ImportanceLeft(c + 1) = ImportanceLeft(c) - EXPIRE_RATE_PER_MINUTE
       /\ (c < Forgotten => ImportanceLeft(c) >= IMPORTANCE_good_to_know)
<1> DEFINE R == EXPIRE_RATE_PER_MINUTE
           q == 20 \div R
<1>1. R \in 2 .. 62
  BY CacheAssumption DEF EXPIRE_RATE_PER_MINUTE
<1>2. Forgotten = 1 + q
  BY DEF Forgotten, IMPORTANCE_solicitation_renew, IMPORTANCE_good_to_know
<1>3. \A c : ImportanceLeft(c) = 70 - c * R
  BY DEF ImportanceLeft, IMPORTANCE_solicitation_renew
<1> HIDE DEF R
<1>4. q \in Nat /\ q * R <= 20
  BY <1>1
<1> HIDE DEF q
<1>5. ASSUME NEW c \in Nat
      PROVE  c * R \in Nat /\ (c + 1) * R = c * R + R /\ (c <= q => c * R <= q * R)
  BY <1>1, <1>4
<1>6. 0 * R = 0
  BY <1>1
<1>7. ASSUME NEW c \in Nat
      PROVE  /\ ImportanceLeft(c) \in Int /\ ImportanceLeft(c + 1) = ImportanceLeft(c) - R
             /\ c < Forgotten => ImportanceLeft(c) >= IMPORTANCE_good_to_know
  <2> DEFINE x == c * R
             y == q * R
             z == (c + 1) * R
  <2>1. x \in Nat /\ z = x + R /\ (c <= q => x <= y) /\ y <= 20 /\ y \in Int
    BY <1>1, <1>4, <1>5
  <2>2. ImportanceLeft(c) = 70 - x /\ ImportanceLeft(c + 1) = 70 - z
    BY <1>3
  <2> HIDE DEF x, y, z
  <2> QED BY <1>1, <1>2, <1>4, <2>1, <2>2 DEF IMPORTANCE_good_to_know
<1>8. ImportanceLeft(0) = IMPORTANCE_solicitation_renew
  <2>1. ImportanceLeft(0) = 70 - 0 * R
    BY <1>3
  <2> QED BY <1>6, <2>1 DEF IMPORTANCE_solicitation_renew
<1> QED BY <1>1, <1>2, <1>4, <1>7, <1>8 DEF R

LEMMA KnownFollows ==
  ASSUME NEW m, NEW n, NEW c \in [Neighbours -> 0 .. Forgotten], Good(m), Good(n), Known(m, c),
         \A i \in Positions : Keeps(m[i], n[i])
  PROVE  Known(n, c)
<1> SUFFICES ASSUME NEW h \in Neighbours, c[h] < Forgotten
             PROVE  \E p \in Positions : Solid(n[p]) /\ n[p].ip = h /\ n[p].expire >= ImportanceLeft(c[h])
  BY DEF Known
<1>1. PICK p \in Positions : Solid(m[p]) /\ m[p].ip = h /\ m[p].expire >= ImportanceLeft(c[h])
  BY DEF Known
<1>2. Keeps(m[p], n[p])
  OBVIOUS
<1>3. m[p].expire \in 0 .. 255 /\ n[p].expire \in 0 .. 255
  BY DEF Good, Entry
<1>4. c[h] \in Nat
  BY Aging
<1>5. ImportanceLeft(c[h]) \in Int /\ IMPORTANCE_good_to_know \in Int
  BY <1>4, Aging DEF IMPORTANCE_good_to_know
<1>6. /\ n[p].id = NDPCacheEntryID /\ n[p].ip = m[p].ip /\ n[p].state = Reachable /\ n[p].hw = m[p].hw
      /\ n[p].expire >= m[p].expire
  BY <1>1, <1>2 DEF Keeps
<1>7. m[p].expire >= IMPORTANCE_good_to_know /\ m[p].hw = Mac[m[p].ip]
  BY <1>1 DEF Solid
<1>8. ASSUME NEW x \in 0 .. 255, NEW y \in 0 .. 255, NEW z \in Int, x >= y, y >= z PROVE x >= z
  BY <1>8
<1>9. n[p].expire >= ImportanceLeft(c[h]) /\ n[p].expire >= IMPORTANCE_good_to_know
  BY <1>1, <1>3, <1>5, <1>6, <1>7, <1>8
<1>10. Solid(n[p])
  BY <1>6, <1>7, <1>9 DEF Solid
<1> QED BY <1>1, <1>6, <1>9, <1>10

LEMMA WatchIs ==
  ASSUME Waits(mem, lookup), Watch(mem')
  PROVE  /\ Waits(mem', lookup')
         /\ lookup'.blocked = lookup.blocked /\ lookup'.entry = lookup.entry /\ lookup'.dst = lookup.dst
<1> DEFINE e == mem'[lookup.entry]
           d == lookup.disturbed \/ (lookup.blocked /\ (e.id # NDPCacheEntryID \/ e.ip # lookup.dst))
<1>1. lookup' = [lookup EXCEPT !.disturbed = d]
  BY DEF Watch
<1>2. d \in BOOLEAN
  BY DEF Waits
<1>3. lookup.blocked /\ ~d => e.id = NDPCacheEntryID /\ e.ip = lookup.dst
  OBVIOUS
<1> HIDE DEF d
<1>4. /\ lookup' \in [blocked : BOOLEAN, dst : Hosts \cup {LinkLocal}, entry : {0} \cup 3 .. SIZE, disturbed : BOOLEAN]
      /\ lookup'.blocked = lookup.blocked /\ lookup'.entry = lookup.entry /\ lookup'.dst = lookup.dst
      /\ lookup'.disturbed = d
  <2>1. lookup \in [blocked : BOOLEAN, dst : Hosts \cup {LinkLocal}, entry : {0} \cup 3 .. SIZE, disturbed : BOOLEAN]
    BY DEF Waits
  <2> QED BY <1>1, <1>2, <2>1
<1>5. lookup.blocked => lookup.entry # 0 /\ lookup.dst \in Hosts
  BY DEF Waits
<1>6. lookup'.blocked /\ ~lookup'.disturbed => mem'[lookup'.entry].id = NDPCacheEntryID
                                              /\ mem'[lookup'.entry].ip = lookup'.dst
  BY <1>3, <1>4
<1> QED BY <1>4, <1>5, <1>6 DEF Waits

LEMMA FineFollows ==
  ASSUME NEW m, NEW n, NEW l, NEW k, Fine(m, l),
         \A i \in Positions : Learns(m[i], n[i]),
         k.blocked = l.blocked, k.entry = l.entry, k.dst = l.dst
  PROVE  Fine(n, k)
BY DEF Fine, Learns, Of

\* A step of a handler of messages, which Follows() describes.
LEMMA HandlerStep ==
  ASSUME IInv, Follows(mem, mem'), Watch(mem'), Listing(msg'),
         Known(mem', confirmed'), confirmed' \in [Neighbours -> 0 .. Forgotten]
  PROVE  IInv'
<1>1. Waits(mem', lookup') /\ lookup'.blocked = lookup.blocked /\ lookup'.entry = lookup.entry
      /\ lookup'.dst = lookup.dst
  BY WatchIs DEF IInv
<1>2. Good(mem') /\ \A i \in Positions : Learns(mem[i], mem'[i])
  BY DEF Follows
<1> DEFINE n == mem'
           k == lookup'
<1>3. Fine(n, k)
  <2>1. Fine(mem, lookup) /\ (\A i \in Positions : Learns(mem[i], n[i]))
        /\ k.blocked = lookup.blocked /\ k.entry = lookup.entry /\ k.dst = lookup.dst
    BY <1>1, <1>2 DEF IInv
  <2> HIDE DEF n, k
  <2> QED BY <2>1, FineFollows
<1> QED BY <1>1, <1>2, <1>3 DEF IInv

LEMMA SolicitListing ==
  ASSUME NEW ms, Listing(ms), NEW added PROVE Listing(Solicit(ms, added))
BY SendListing DEF Solicit

-----------------------------------------------------------------------------
(* Each action preserves the invariant.                                     *)

LEMMA InitialState == Init => IInv
<1> HAVE Init
<1> DEFINE e == NDPCacheEntry(StaticRouter, Mac[StaticRouter], Reachable)
           x == BitOr[IMPORTANCE_always_keep][e.expire]
           a == [e EXCEPT !.expire = x]
           b == AddressEntry(LinkLocal, EntryUndefined)
<1>1. mem = [p \in Positions |-> CASE p = 1 -> a [] p = 2 -> b [] OTHER -> FreeEntry]
  BY DEF Init
<1>2. /\ e \in Entry /\ EntryOK(e) /\ e.id = NDPCacheEntryID /\ e.ip = StaticRouter
      /\ e.hw = Mac[StaticRouter] /\ e.state = Reachable
  <2>1. StaticRouter \in Hosts
    BY CacheAssumption
  <2> QED BY <2>1, NewEntryIs
<1> HIDE DEF e
<1>3. x = 255
  <2> DEFINE y == e.expire
             k == IMPORTANCE_always_keep
  <2>1. y \in Byte /\ k \in Importances
    BY <1>2 DEF Entry, Byte, Importances, IMPORTANCE_always_keep
  <2> HIDE DEF y, k
  <2>2. BitOr[k][y] \in Byte /\ BitOr[k][y] >= k
    BY <2>1, BitOrIs
  <2> QED BY <2>2 DEF y, k, Byte, IMPORTANCE_always_keep
<1> HIDE DEF x
<1>4. /\ a \in Entry /\ a.id = NDPCacheEntryID /\ a.ip = StaticRouter /\ a.hw = Mac[StaticRouter]
      /\ a.state = Reachable /\ a.isRouting = e.isRouting /\ a.expire = 255
  <2>1. x \in 0 .. 255
    BY <1>3
  <2> QED BY <1>2, <1>3, <2>1 DEF Entry
<1> HIDE DEF a
<1>5. b \in Entry /\ b.id = AddressEntryID /\ b.ip = LinkLocal /\ b.router = EntryUndefined
  <2>1. 0 \in 0 .. 255
    OBVIOUS
  <2> QED BY <2>1 DEF AddressEntry, Entry
<1> HIDE DEF b
<1>6. FreeEntry \in Entry /\ FreeEntry.id = FreeID
  BY DEF FreeEntry, Entry
<1>7. mem \in [Positions -> Entry] /\ mem[1] = a /\ mem[2] = b
      /\ \A i \in Positions : i # 1 /\ i # 2 => mem[i] = FreeEntry
  BY <1>1, <1>4, <1>5, <1>6, PositionsAre
<1>8. \A i \in Of(mem, NDPCacheEntryID) : i = 1
  BY <1>5, <1>6, <1>7, Identifiers DEF Of
<1>9. EntryOK(a)
  BY <1>2, <1>4 DEF EntryOK
<1>10. \A i \in Positions : EntryOK(mem[i])
  BY <1>5, <1>6, <1>7, <1>9, Identifiers DEF EntryOK
<1>11. Solid(a) /\ a.expire = IMPORTANCE_always_keep
  BY <1>4 DEF Solid, IMPORTANCE_always_keep, IMPORTANCE_good_to_know
<1>12. Good(mem)
  BY <1>4, <1>5, <1>7, <1>8, <1>10, <1>11 DEF Good
<1>13. Fine(mem, lookup)
  <2>1. a.hw # Unknown
    BY <1>4, CacheAssumption
  <2> QED BY <1>7, <1>8, <2>1 DEF Fine
<1>14. Waits(mem, lookup)
  BY DEF Init, Idle, Waits
<1>15. Known(mem, confirmed) /\ confirmed \in [Neighbours -> 0 .. Forgotten]
  BY Aging DEF Init, Known
<1>16. Listing(msg)
  BY NewListing DEF Init
<1> QED BY <1>12, <1>13, <1>14, <1>15, <1>16 DEF IInv

LEMMA AdvertisementStep ==
  ASSUME IInv, NEW h \in Hosts, NEW na \in Advertisements, NeighbourAdvertisement(h, na)
  PROVE  IInv'
<1> DEFINE p  == ndpcache_find(mem, h)
           m1 == IF p = 0 THEN mem ELSE Advertised(mem, p, h, na)
           learnt == na.override /\ get_option_linklayer_address(TargetLinkLayer, na.options)
           new == h \in Neighbours /\ p # 0 /\ learnt
<1>1. /\ mem' = Prefetch(m1, h, na.unicast)
      /\ confirmed' = IF new THEN [confirmed EXCEPT ![h] = 0] ELSE confirmed
      /\ Watch(mem') /\ msg' = msg
  BY DEF NeighbourAdvertisement
<1>2. Good(mem) /\ Known(mem, confirmed) /\ confirmed \in [Neighbours -> 0 .. Forgotten] /\ Listing(msg)
  BY DEF IInv
<1>3. p # 0 => p \in Of(mem, NDPCacheEntryID) /\ mem[p].ip = h
  BY FindIs
<1>4. /\ Follows(mem, m1)
      /\ p # 0 /\ learnt => Solid(m1[p]) /\ m1[p].ip = h /\ m1[p].expire >= IMPORTANCE_solicitation_renew
  <2>1. CASE p = 0
    BY <1>2, <2>1, FollowsSelf
  <2>2. CASE p # 0
    <3>1. m1 = Advertised(mem, p, h, na)
      BY <2>2
    <3> HIDE DEF m1
    <3> QED BY <1>2, <1>3, <2>2, <3>1, AdvertisedFollows
  <2> QED BY <2>1, <2>2
<1> HIDE DEF m1
<1>5. Good(m1) /\ Follows(m1, mem')
  BY <1>1, <1>4, PrefetchFollows DEF Follows
<1>6. Follows(mem, mem')
  BY <1>2, <1>4, <1>5, FollowsTrans
<1>7. Good(mem') /\ \A i \in Positions : Keeps(mem[i], mem'[i])
  BY <1>6 DEF Follows
<1> DEFINE n == mem'
<1>8. Known(n, confirmed)
  <2>1. Good(n) /\ \A i \in Positions : Keeps(mem[i], n[i])
    BY <1>7
  <2> HIDE DEF n
  <2> QED BY <1>2, <2>1, KnownFollows
<1>9. CASE ~new
  BY <1>1, <1>2, <1>6, <1>8, <1>9, HandlerStep
<1>10. CASE new
  <2> DEFINE c == [confirmed EXCEPT ![h] = 0]
  <2>1. 0 \in 0 .. Forgotten
    BY Aging
  <2>2. c \in [Neighbours -> 0 .. Forgotten] /\ c[h] = 0 /\ \A g \in Neighbours : g # h => c[g] = confirmed[g]
    BY <1>2, <1>10, <2>1
  <2>3. p \in Positions /\ Keeps(m1[p], n[p]) /\ Solid(m1[p]) /\ m1[p].ip = h
        /\ m1[p].expire >= IMPORTANCE_solicitation_renew
    BY <1>3, <1>4, <1>5, <1>10 DEF Of, Follows
  <2>4. m1[p].expire \in 0 .. 255 /\ n[p].expire \in 0 .. 255
    BY <1>5, <1>7, <2>3 DEF Good, Entry
  <2>5. n[p].id = NDPCacheEntryID /\ n[p].ip = h /\ n[p].state = Reachable /\ n[p].hw = Mac[h]
        /\ n[p].expire >= m1[p].expire
    BY <2>3 DEF Keeps, Solid
  <2> DEFINE v == m1[p].expire
             w == n[p].expire
  <2>6. w >= IMPORTANCE_solicitation_renew /\ w >= IMPORTANCE_good_to_know
    <3>1. v \in 0 .. 255 /\ w \in 0 .. 255 /\ v >= IMPORTANCE_solicitation_renew /\ w >= v
      BY <2>3, <2>4, <2>5
    <3> HIDE DEF v, w
    <3> QED BY <3>1 DEF IMPORTANCE_solicitation_renew, IMPORTANCE_good_to_know
  <2>7. Solid(n[p]) /\ n[p].ip = h /\ n[p].expire >= ImportanceLeft(0)
    BY <2>5, <2>6, Aging DEF Solid
  <2> HIDE DEF c, n
  <2>8. Known(n, c)
    <3> SUFFICES ASSUME NEW g \in Neighbours, c[g] < Forgotten
                 PROVE  \E q \in Positions : Solid(n[q]) /\ n[q].ip = g /\ n[q].expire >= ImportanceLeft(c[g])
      BY DEF Known
    <3>1. CASE g = h
      BY <2>2, <2>3, <2>7, <3>1
    <3>2. CASE g # h
      BY <1>8, <2>2, <3>2 DEF Known
    <3> QED BY <3>1, <3>2
  <2>9. confirmed' = c
    BY <1>1, <1>10 DEF c
  <2> QED BY <1>1, <1>2, <1>6, <2>2, <2>8, <2>9, HandlerStep DEF n
<1> QED BY <1>9, <1>10

\* The handlers that confirm nothing.
LEMMA UnconfirmedStep ==
  ASSUME IInv, Follows(mem, mem'), Watch(mem'), Listing(msg'), confirmed' = confirmed
  PROVE  IInv'
<1> DEFINE n == mem'
<1>1. Good(mem) /\ Known(mem, confirmed) /\ confirmed \in [Neighbours -> 0 .. Forgotten]
  BY DEF IInv
<1>2. Good(n) /\ \A i \in Positions : Keeps(mem[i], n[i])
  BY DEF Follows
<1>3. Known(n, confirmed)
  <2> HIDE DEF n
  <2> QED BY <1>1, <1>2, KnownFollows
<1> QED BY <1>1, <1>3, HandlerStep

\* The lookup for an answer leaves no entry of its own.
LEMMA AnswerFollows ==
  ASSUME NEW m, Good(m), NEW h \in Hosts
  PROVE  /\ Follows(m, MemoryAfterAnswer(m, h))
         /\ \A i \in Of(MemoryAfterAnswer(m, h), NDPCacheEntryID) : MemoryAfterAnswer(m, h)[i] = m[i]
<1> DEFINE known == ndpcache_find(m, h)
           added == addNDPCacheEntry(m, h, Unknown, Incomplete)
           p == added.pos
           a == added.mem
           n == MemoryAfterAnswer(m, h)
<1>1. n = IF known # 0 THEN m ELSE IF p = 0 THEN a ELSE freeEntries(a, {p})
  BY DEF MemoryAfterAnswer
<1>2. CASE known # 0
  BY <1>1, <1>2, FollowsSelf
<1>3. CASE known = 0
  <2>1. added = addNDPCacheEntry(m, h, Unknown, Incomplete)
    OBVIOUS
  <2> HIDE DEF added
  <2>2. /\ Good(added.mem) /\ added.pos \in {0} \cup 3 .. SIZE
        /\ \A i \in Positions : Keeps(m[i], added.mem[i])
        /\ \A i \in Of(added.mem, NDPCacheEntryID) : i = added.pos \/ added.mem[i] = m[i]
        /\ added.pos # 0 => added.mem[added.pos] = NDPCacheEntry(h, Unknown, Incomplete)
    BY <1>3, <2>1, AddNew, Identifiers
  <2> HIDE DEF a, p, n, known
  \* The new entry is freed again.
  <2>3. ASSUME p # 0
        PROVE  /\ p \in Positions /\ a[p].state = Incomplete /\ Good(n) /\ n[p].id = FreeID
               /\ \A i \in Positions : i # p => n[i] = a[i]
    <3> DEFINE S == {p}
    <3>1. p \in Positions /\ p # 2
      BY <2>2, <2>3 DEF p, Positions
    <3>2. a[p].state = Incomplete
      BY <2>2, <2>3 DEF a, p, NDPCacheEntry
    <3>3. S \subseteq Positions /\ 2 \notin S /\ (\A i \in S : ~Solid(a[i])) /\ \A i : i \in S <=> i = p
      BY <3>1, <3>2, Identifiers DEF Solid
    <3>4. n = freeEntries(a, S) /\ Good(a)
      BY <1>1, <1>3, <2>2, <2>3 DEF a
    <3> HIDE DEF S
    <3>5. Good(n) /\ (\A i \in S : n[i].id = FreeID) /\ \A i \in Positions \ S : n[i] = a[i]
      BY <3>3, <3>4, FreeFollows DEF Follows
    <3> QED BY <3>1, <3>2, <3>3, <3>5
  <2>4. /\ Good(n) /\ \A i \in Positions : Keeps(m[i], n[i])
        /\ \A i \in Of(n, NDPCacheEntryID) : n[i] = m[i]
    <3>1. CASE p = 0
      <4>1. n = a
        BY <1>1, <1>3, <3>1
      <4>2. \A i \in Of(a, NDPCacheEntryID) : i # 0
        BY PositionsAre DEF Of
      <4> QED BY <2>2, <3>1, <4>1, <4>2 DEF a, p
    <3>2. CASE p # 0
      <4>1. ~Solid(m[p])
        <5>1. Solid(m[p]) => a[p].state = Reachable
          BY <2>2, <2>3, <3>2 DEF Keeps, a
        <5> QED BY <2>3, <3>2, <5>1, Identifiers
      <4>2. \A i \in Positions : Keeps(m[i], n[i])
        <5> TAKE i \in Positions
        <5>1. CASE i = p
          BY <4>1, <5>1 DEF Keeps
        <5>2. CASE i # p
          BY <2>2, <2>3, <3>2, <5>2 DEF a
        <5> QED BY <5>1, <5>2
      <4>3. ASSUME NEW i \in Of(n, NDPCacheEntryID) PROVE n[i] = m[i]
        <5>1. i # p /\ n[i] = a[i] /\ i \in Of(a, NDPCacheEntryID)
          BY <2>3, <3>2, Identifiers DEF Of
        <5> QED BY <2>2, <5>1 DEF a, p
      <4> QED BY <2>3, <3>2, <4>2, <4>3
    <3> QED BY <3>1, <3>2
  <2>5. \A i \in Positions : Learns(m[i], n[i])
    <3> SUFFICES ASSUME NEW i \in Positions, n[i].id = NDPCacheEntryID PROVE Learns(m[i], n[i])
      BY DEF Learns
    <3>1. n[i] = m[i]
      BY <2>4 DEF Of
    <3> QED BY <3>1 DEF Learns
  <2> QED BY <2>4, <2>5 DEF Follows, n
<1> QED BY <1>2, <1>3

\* A cache and a management memory that the handlers may make of ca and ms.
Handled(r, ca, ms) ==
  \E n, l : r = [mem |-> n, msg |-> l] /\ Follows(ca, n) /\ Listing(l)

LEMMA AnswerHandled ==
  ASSUME NEW ca, Good(ca), NEW ms, Listing(ms), NEW h \in Hosts, NEW r, Handled(r, ca, ms)
  PROVE  Handled(Answer(r, h), ca, ms)
<1>1. PICK n, l : r = [mem |-> n, msg |-> l] /\ Follows(ca, n) /\ Listing(l)
  BY DEF Handled
<1> DEFINE added == addNDPCacheEntry(n, h, Unknown, Incomplete)
           asked == IF ndpcache_find(n, h) # 0 THEN Send(l) ELSE Solicit(Send(l), added)
           after == MemoryAfterAnswer(n, h)
           last == IF AnswerEntry(n, h) = 0 THEN Invalidate(asked, NextBlock(l)) ELSE asked
<1>2. r.mem = n /\ r.msg = l /\ [r EXCEPT !.msg = Send(@)] = [mem |-> n, msg |-> Send(l)]
  BY <1>1
<1>3. Answer(r, h) = IF ~HasBlock(l) THEN [mem |-> n, msg |-> Send(l)] ELSE [mem |-> after, msg |-> last]
  BY <1>2, Zenon DEF Answer
<1>4. Listing(Send(l))
  BY <1>1, SendListing
<1>5. Listing(asked)
  <2> HIDE DEF added
  <2> QED BY <1>4, SolicitListing
<1> HIDE DEF asked
<1>6. Listing(last)
  BY <1>5, InvalidateListing
<1>7. Follows(n, after)
  BY <1>1, AnswerFollows DEF Follows
<1> HIDE DEF after, last
<1>8. Follows(ca, after)
  BY <1>1, <1>7, FollowsTrans
<1>9. CASE HasBlock(l)
  <2>1. Answer(r, h) = [mem |-> after, msg |-> last]
    BY <1>3, <1>9
  <2> QED BY <1>6, <1>8, <2>1 DEF Handled
<1>10. CASE ~HasBlock(l)
  <2>1. Answer(r, h) = [mem |-> n, msg |-> Send(l)]
    BY <1>3, <1>10
  <2> QED BY <1>1, <1>4, <2>1 DEF Handled
<1> QED BY <1>9, <1>10

LEMMA LearnHandled ==
  ASSUME NEW ca, Good(ca), NEW ms, Listing(ms), NEW h \in Hosts, NEW ns, NEW r, Handled(r, ca, ms)
  PROVE  Handled(Learn(r, h, ns), ca, ms)
<1>1. PICK n, l : r = [mem |-> n, msg |-> l] /\ Follows(ca, n) /\ Listing(l)
  BY DEF Handled
<1> DEFINE added == addNDPCacheEntry(n, h, Mac[h], Stale)
           learns == ndpcache_find(n, h) = 0 /\ get_option_linklayer_address(SourceLinkLayer, ns.options)
<1>2. r.mem = n /\ r.msg = l
  BY <1>1
<1>3. Learn(r, h, ns) = IF learns THEN [mem |-> added.mem, msg |-> Solicit(l, added)] ELSE r
  BY <1>2, Zenon DEF Learn
<1>4. CASE ~learns
  BY <1>3, <1>4
<1>5. CASE learns
  <2>1. added = addNDPCacheEntry(n, h, Mac[h], Stale) /\ ndpcache_find(n, h) = 0
    BY <1>5
  <2>2. Learn(r, h, ns) = [mem |-> added.mem, msg |-> Solicit(l, added)]
    BY <1>3, <1>5
  <2> HIDE DEF added, learns
  <2>3. Follows(n, added.mem)
    BY <1>1, <2>1, AddNew, Identifiers DEF Follows
  <2>4. Follows(ca, added.mem)
    BY <1>1, <2>3, FollowsTrans
  <2>5. Listing(Solicit(l, added))
    BY <1>1, SolicitListing
  <2> QED BY <2>2, <2>4, <2>5 DEF Handled
<1> QED BY <1>4, <1>5

LEMMA MemoriesHandled ==
  ASSUME IInv PROVE Good(mem) /\ Listing(msg) /\ Handled(Memories, mem, msg)
<1>1. Good(mem) /\ Listing(msg)
  BY DEF IInv
<1>2. Follows(mem, mem)
  BY <1>1, FollowsSelf
<1> QED BY <1>1, <1>2 DEF Handled, Memories

\* A handler ends with the frame that makes the entry of its sender reachable.
LEMMA HandledStep ==
  ASSUME IInv, NEW end, Handled(end, mem, msg), NEW h \in Hosts, NEW unicast,
         mem' = Prefetch(end.mem, h, unicast), msg' = end.msg, Watch(mem'), confirmed' = confirmed
  PROVE  IInv'
<1>1. PICK n, l : end = [mem |-> n, msg |-> l] /\ Follows(mem, n) /\ Listing(l)
  BY DEF Handled
<1>2. end.mem = n /\ end.msg = l
  BY <1>1
<1>3. Follows(n, mem')
  <2>1. Follows(n, Prefetch(n, h, unicast))
    BY <1>1, PrefetchFollows DEF Follows
  <2> QED BY <1>2, <2>1
<1>4. Follows(mem, mem')
  BY <1>1, <1>3, FollowsTrans DEF IInv
<1> QED BY <1>1, <1>2, <1>4, UnconfirmedStep

LEMMA SolicitationStep ==
  ASSUME IInv, NEW h \in Hosts, NEW ns \in Solicitations, NeighbourSolicitation(h, ns)
  PROVE  IInv'
<1>1. PICK end \in {Learn(Answer(Memories, h), h, ns), Answer(Learn(Memories, h, ns), h)} :
        mem' = Prefetch(end.mem, h, ns.unicast) /\ msg' = end.msg
  BY DEF NeighbourSolicitation
<1>2. Watch(mem') /\ confirmed' = confirmed
  BY DEF NeighbourSolicitation
<1>3. Handled(end, mem, msg)
  BY <1>1, MemoriesHandled, AnswerHandled, LearnHandled
<1> QED BY <1>1, <1>2, <1>3, HandledStep

LEMMA DataStep ==
  ASSUME IInv, NEW h \in Hosts, Data(h) PROVE IInv'
<1>1. PICK end \in {Memories, Answer(Memories, h)} :
        mem' = Prefetch(end.mem, h, TRUE) /\ msg' = end.msg
  BY DEF Data
<1>2. Watch(mem') /\ confirmed' = confirmed
  BY DEF Data
<1>3. Handled(end, mem, msg)
  BY <1>1, MemoriesHandled, AnswerHandled
<1> QED BY <1>1, <1>2, <1>3, HandledStep

LEMMA RouterStep ==
  ASSUME IInv, NEW r \in Routers, NEW ra \in RouterAdvertisements, RouterAdvertisement(r, ra)
  PROVE  IInv'
<1>1. Good(mem) /\ Listing(msg)
  BY DEF IInv
<1>2. Watch(mem') /\ confirmed' = confirmed
  BY Zenon DEF RouterAdvertisement
<1>3. \E added : msg' = Solicit(msg, added) \/ msg' = msg
  BY Zenon DEF RouterAdvertisement
<1>4. Listing(msg')
  BY <1>1, <1>3, SolicitListing
<1>5. Follows(mem, mem')
  BY <1>1, RouterFollows
<1> QED BY <1>2, <1>4, <1>5, UnconfirmedStep

\* A memory whose cache entries are those of m, but for state and expire, and
\* that still has the first two.
LEMMA AgedGood ==
  ASSUME NEW m, Good(m), NEW n \in [Positions -> Entry], n[1] = m[1], n[2] = m[2],
         \A i \in Of(n, NDPCacheEntryID) :
           /\ m[i].id = NDPCacheEntryID /\ n[i].ip = m[i].ip /\ n[i].hw = m[i].hw
           /\ n[i].isRouting = m[i].isRouting /\ (n[i].state = Reachable => m[i].state = Reachable)
  PROVE  Good(n) /\ \A i \in Positions : Learns(m[i], n[i])
<1>1. \A i \in Positions : EntryOK(n[i])
  BY DEF Good, EntryOK, Of
<1>2. \A i, j \in Of(n, NDPCacheEntryID) : n[i].ip = n[j].ip => i = j
  <2>1. \A i \in Of(n, NDPCacheEntryID) : i \in Of(m, NDPCacheEntryID)
    BY DEF Of
  <2> QED BY <2>1 DEF Good
<1>3. \A i \in Positions : Learns(m[i], n[i])
  BY DEF Learns, Of
<1> QED BY <1>1, <1>2, <1>3 DEF Good

LEMMA SuspectStep ==
  ASSUME IInv, NEW h \in Neighbours, suspect_unreachable(h) PROVE IInv'
<1> DEFINE p == ndpcache_find(mem, h)
           e == [[mem[p] EXCEPT !.expire = 0] EXCEPT !.state = Stale]
           c == [confirmed EXCEPT ![h] = Forgotten]
           n == mem'
<1>1. p # 0 /\ mem' = [mem EXCEPT ![p].expire = 0, ![p].state = Stale] /\ confirmed' = c /\ Watch(mem')
      /\ msg' = msg
  BY DEF suspect_unreachable
<1>2. Good(mem) /\ Fine(mem, lookup) /\ Waits(mem, lookup) /\ Known(mem, confirmed)
      /\ confirmed \in [Neighbours -> 0 .. Forgotten] /\ Listing(msg)
  BY DEF IInv
<1>3. p \in Of(mem, NDPCacheEntryID) /\ mem[p].ip = h
  BY <1>1, FindIs
<1>4. p \in Positions /\ mem[p].id = NDPCacheEntryID /\ mem \in [Positions -> Entry] /\ mem[p] \in Entry
  BY <1>2, <1>3 DEF Of, Good
<1>5. p # 1 /\ p # 2
  BY <1>2, <1>3, <1>4, Identifiers DEF Good, Neighbours
<1> HIDE DEF p
<1>6. mem' = [mem EXCEPT ![p] = e]
  BY <1>1, <1>4
<1>7. e \in Entry /\ e.id = NDPCacheEntryID /\ e.ip = mem[p].ip /\ e.hw = mem[p].hw
      /\ e.isRouting = mem[p].isRouting /\ e.state # Reachable
  <2> DEFINE d == [mem[p] EXCEPT !.expire = 0]
  <2>1. 0 \in 0 .. 255
    OBVIOUS
  <2>2. d \in Entry /\ d.id = NDPCacheEntryID /\ d.ip = mem[p].ip /\ d.hw = mem[p].hw
        /\ d.isRouting = mem[p].isRouting
    BY <1>4, <2>1 DEF Entry
  <2>3. e = [d EXCEPT !.state = Stale]
    OBVIOUS
  <2> HIDE DEF d, e
  <2>4. e \in Entry /\ e.id = NDPCacheEntryID /\ e.ip = mem[p].ip /\ e.hw = mem[p].hw
        /\ e.isRouting = mem[p].isRouting /\ e.state = Stale
    BY <2>2, <2>3 DEF Entry
  <2> QED BY <2>4, Identifiers
<1> HIDE DEF e
<1>8. n \in [Positions -> Entry] /\ n[p] = e /\ \A i \in Positions : i # p => n[i] = mem[i]
  BY <1>4, <1>6, <1>7
<1>9. Waits(mem', lookup') /\ lookup'.blocked = lookup.blocked /\ lookup'.entry = lookup.entry
      /\ lookup'.dst = lookup.dst
  BY <1>1, <1>2, WatchIs
<1> HIDE DEF n
<1>10. n[1] = mem[1] /\ n[2] = mem[2]
  BY <1>5, <1>8, PositionsAre
<1>11. \A i \in Of(n, NDPCacheEntryID) :
         /\ mem[i].id = NDPCacheEntryID /\ n[i].ip = mem[i].ip /\ n[i].hw = mem[i].hw
         /\ n[i].isRouting = mem[i].isRouting /\ (n[i].state = Reachable => mem[i].state = Reachable)
  BY <1>4, <1>7, <1>8 DEF Of
<1>12. Good(n) /\ \A i \in Positions : Learns(mem[i], n[i])
  BY <1>2, <1>8, <1>10, <1>11, AgedGood
<1>13. Fine(n, lookup')
  <2> DEFINE k == lookup'
  <2>1. k.blocked = lookup.blocked /\ k.entry = lookup.entry /\ k.dst = lookup.dst
    BY <1>9
  <2> HIDE DEF k
  <2>2. Fine(n, k)
    BY <1>2, <1>12, <2>1, FineFollows
  <2> QED BY <2>2 DEF k
<1>14. c \in [Neighbours -> 0 .. Forgotten] /\ c[h] = Forgotten /\ \A g \in Neighbours : g # h => c[g] = confirmed[g]
  <2>1. Forgotten \in 0 .. Forgotten
    BY Aging
  <2> QED BY <1>2, <2>1
<1> HIDE DEF c
<1>15. Known(n, c)
  <2> SUFFICES ASSUME NEW g \in Neighbours, c[g] < Forgotten
               PROVE  \E q \in Positions : Solid(n[q]) /\ n[q].ip = g /\ n[q].expire >= ImportanceLeft(c[g])
    BY DEF Known
  <2>1. g # h
    BY <1>14, Aging
  <2>2. PICK q \in Positions : Solid(mem[q]) /\ mem[q].ip = g /\ mem[q].expire >= ImportanceLeft(confirmed[g])
    BY <1>2, <1>14, <2>1 DEF Known
  <2>3. q # p
    BY <1>3, <2>1, <2>2
  <2> QED BY <1>8, <1>14, <2>1, <2>2, <2>3
<1> QED BY <1>1, <1>2, <1>9, <1>12, <1>13, <1>14, <1>15 DEF IInv, n

LEMMA RefreshStep ==
  ASSUME IInv, Refresh PROVE IInv'
<1> DEFINE R    == EXPIRE_RATE_PER_MINUTE
           old  == {i \in Of(mem, NDPCacheEntryID) : mem[i].expire < R}
           kept == {i \in Of(mem, NDPCacheEntryID) \ old : mem[i].expire # IMPORTANCE_always_keep}
           less(i) == [mem[i] EXCEPT !.expire = BitOr[1][mem[i].expire - R]]
           aged == [i \in Positions |-> IF i \in kept THEN less(i) ELSE mem[i]]
           gone == {i \in Of(mem, AddressEntryID) : \E p \in old : mem[p].isRouter /\ mem[i].router = p}
           S    == old \cup gone
           f(i) == IF lookup.entry = i THEN [FreeEntry EXCEPT !.hw = aged[i].hw, !.state = aged[i].state]
                   ELSE FreeEntry
           c    == [h \in Neighbours |-> IF confirmed[h] = Forgotten THEN Forgotten ELSE confirmed[h] + 1]
           n    == mem'
<1>1. mem' = freeEntries(aged, S) /\ confirmed' = c /\ Watch(mem') /\ msg' = msg
  BY DEF Refresh
<1>2. Good(mem) /\ Fine(mem, lookup) /\ Waits(mem, lookup) /\ Known(mem, confirmed)
      /\ confirmed \in [Neighbours -> 0 .. Forgotten] /\ Listing(msg)
  BY DEF IInv
<1>3. mem \in [Positions -> Entry] /\ \A i \in Positions : mem[i] \in Entry /\ mem[i].expire \in 0 .. 255
  BY <1>2 DEF Good, Entry
<1>4. R \in 2 .. 62
  BY Aging
<1>5. mem' = [i \in Positions |-> IF i \notin S THEN aged[i] ELSE f(i)]
  BY <1>1 DEF freeEntries
\* The entries that grow old.
<1>6. ASSUME NEW i \in kept
      PROVE  /\ less(i) \in Entry /\ SameHost(mem[i], less(i)) /\ less(i).isRouting = mem[i].isRouting
             /\ less(i).expire \in 0 .. 255 /\ less(i).expire >= mem[i].expire - R
  <2>1. i \in Positions /\ ~(mem[i].expire < R)
    BY DEF Of
  <2> DEFINE y == mem[i].expire - R
             x == BitOr[1][y]
  <2>2. y \in Byte /\ 1 \in Importances
    <3> DEFINE v == mem[i].expire
    <3>1. v \in 0 .. 255 /\ ~(v < R)
      BY <1>3, <2>1
    <3> HIDE DEF v, R
    <3>2. v - R \in 0 .. 255
      BY <1>4, <3>1
    <3> QED BY <3>2 DEF v, Byte, Importances
  <2> HIDE DEF y
  <2>3. BitOr[1][y] \in Byte /\ BitOr[1][y] >= y
    BY <2>2, BitOrIs
  <2>4. less(i) = [mem[i] EXCEPT !.expire = x] /\ mem[i] \in Entry
    BY <1>3, <2>1 DEF y
  <2>5. x \in 0 .. 255 /\ x >= y
    BY <2>3 DEF Byte
  <2> HIDE DEF x, less
  <2>6. less(i) \in Entry /\ SameHost(mem[i], less(i)) /\ less(i).isRouting = mem[i].isRouting
        /\ less(i).expire = x
    BY <2>4, <2>5 DEF Entry, SameHost
  <2> QED BY <2>5, <2>6 DEF y
<1>7. kept \subseteq Of(mem, NDPCacheEntryID) /\ S \subseteq Positions
  BY DEF Of
<1>8. 1 \notin S /\ 2 \notin S /\ 1 \notin kept /\ 2 \notin kept
  <2>1. 1 \in Positions /\ 2 \in Positions /\ mem[1].id = NDPCacheEntryID /\ mem[1].expire = 255
        /\ mem[1].expire = IMPORTANCE_always_keep
        /\ mem[2].id = AddressEntryID /\ mem[2].router = EntryUndefined
    BY <1>2, PositionsAre DEF Good, Solid, IMPORTANCE_always_keep
  <2>2. ~(255 < R)
    BY <1>4
  <2>3. \A p \in old : p \in Positions
    BY DEF Of
  <2>4. 1 \notin old /\ 1 \notin kept
    BY <2>1, <2>2
  <2>5. 1 \notin gone /\ 2 \notin old /\ 2 \notin kept
    BY <2>1, Identifiers DEF Of
  <2>6. 2 \notin gone
    <3> HIDE DEF old
    <3> QED BY <2>1, <2>3, PositionsAre
  <2> QED BY <2>4, <2>5, <2>6
<1>9. \A i \in Positions : mem[i].id = NDPCacheEntryID /\ i \notin S /\ i \notin kept =>
        mem[i].expire = IMPORTANCE_always_keep
  BY DEF Of
<1> HIDE DEF kept, less
<1>10. aged \in [Positions -> Entry] /\ \A i \in Positions : aged[i] = IF i \in kept THEN less(i) ELSE mem[i]
  BY <1>3, <1>6
<1> HIDE DEF aged
<1>11. \A i \in Positions : f(i) \in Entry /\ f(i).id = FreeID
  <2> TAKE i \in Positions
  <2> DEFINE e == aged[i]
  <2>1. e \in Entry /\ f(i) = IF lookup.entry = i THEN [FreeEntry EXCEPT !.hw = e.hw, !.state = e.state] ELSE FreeEntry
    BY <1>10
  <2> HIDE DEF e, f
  <2> QED BY <2>1, FreedIs
<1> HIDE DEF f
<1>12. n \in [Positions -> Entry] /\ \A i \in Positions : n[i] = IF i \notin S THEN aged[i] ELSE f(i)
  BY <1>5, <1>10, <1>11
<1>13. Waits(mem', lookup') /\ lookup'.blocked = lookup.blocked /\ lookup'.entry = lookup.entry
       /\ lookup'.dst = lookup.dst
  BY <1>1, <1>2, WatchIs
<1>a. \A i \in old : mem[i].expire < R
  OBVIOUS
<1>b. \A i \in S : i \in old \/ mem[i].id = AddressEntryID
  BY DEF Of
<1> HIDE DEF n, S, old, gone
<1>14. n[1] = mem[1] /\ n[2] = mem[2]
  BY <1>8, <1>10, <1>12, PositionsAre
<1>15. \A i \in Of(n, NDPCacheEntryID) :
         /\ mem[i].id = NDPCacheEntryID /\ n[i].ip = mem[i].ip /\ n[i].hw = mem[i].hw
         /\ n[i].isRouting = mem[i].isRouting /\ (n[i].state = Reachable => mem[i].state = Reachable)
  <2> TAKE i \in Of(n, NDPCacheEntryID)
  <2>1. i \in Positions /\ n[i].id = NDPCacheEntryID
    BY DEF Of
  <2>2. i \notin S
    BY <1>11, <1>12, <2>1, Identifiers
  <2>3. CASE i \in kept
    <3>1. n[i] = less(i)
      BY <1>10, <1>12, <2>1, <2>2, <2>3
    <3> QED BY <1>6, <2>1, <2>3, <3>1 DEF SameHost
  <2>4. CASE i \notin kept
    BY <1>10, <1>12, <2>1, <2>2, <2>4
  <2> QED BY <2>3, <2>4
<1>16. Good(n) /\ \A i \in Positions : Learns(mem[i], n[i])
  BY <1>2, <1>12, <1>14, <1>15, AgedGood
<1>17. Fine(n, lookup')
  <2> DEFINE k == lookup'
  <2>1. k.blocked = lookup.blocked /\ k.entry = lookup.entry /\ k.dst = lookup.dst
    BY <1>13
  <2> HIDE DEF k
  <2>2. Fine(n, k)
    BY <1>2, <1>16, <2>1, FineFollows
  <2> QED BY <2>2 DEF k
<1>18. \A h \in Neighbours : confirmed[h] \in 0 .. Forgotten /\ confirmed[h] \in Nat
  BY <1>2, Aging
<1>19. c \in [Neighbours -> 0 .. Forgotten]
  BY <1>18, Aging
<1>20. Known(n, c)
  <2> SUFFICES ASSUME NEW h \in Neighbours, c[h] < Forgotten
               PROVE  \E p \in Positions : Solid(n[p]) /\ n[p].ip = h /\ n[p].expire >= ImportanceLeft(c[h])
    BY DEF Known
  <2> DEFINE o == confirmed[h]
  <2>1. o \in Nat /\ c[h] = o + 1 /\ o < Forgotten /\ o + 1 < Forgotten
    BY <1>18, Aging
  <2>2. PICK p \in Positions : Solid(mem[p]) /\ mem[p].ip = h /\ mem[p].expire >= ImportanceLeft(o)
    BY <1>2, <2>1 DEF Known
  <2> HIDE DEF o, c
  <2>3. /\ ImportanceLeft(o) \in Int /\ ImportanceLeft(o + 1) = ImportanceLeft(o) - R
        /\ ImportanceLeft(o + 1) >= 50
    <3>1. o + 1 \in Nat
      BY <2>1
    <3> QED BY <2>1, <3>1, Aging DEF IMPORTANCE_good_to_know
  <2> DEFINE v == mem[p].expire
             w == ImportanceLeft(o)
  <2>4. v \in 0 .. 255 /\ v >= w
    BY <1>3, <2>2
  <2> HIDE DEF R
  <2>5. v - R >= w - R /\ v - R >= 50 /\ ~(v < R) /\ v >= 50
    <3> HIDE DEF v, w
    <3> QED BY <1>4, <2>3, <2>4 DEF w
  <2>6. mem[p].id = NDPCacheEntryID /\ mem[p].state = Reachable /\ mem[p].hw = Mac[h]
    BY <2>2 DEF Solid
  <2>7. p \notin S
    BY <1>a, <1>b, <2>5, <2>6, Identifiers
  <2>8. /\ n[p].id = NDPCacheEntryID /\ n[p].ip = h /\ n[p].state = Reachable /\ n[p].hw = Mac[h]
        /\ n[p].expire \in 0 .. 255 /\ n[p].expire >= v - R
    <3>1. CASE p \in kept
      <4>1. n[p] = less(p)
        BY <1>10, <1>12, <2>7, <3>1
      <4> QED BY <1>6, <2>2, <2>6, <3>1, <4>1 DEF SameHost, R
    <3>2. CASE p \notin kept
      <4>1. n[p] = mem[p]
        BY <1>10, <1>12, <2>7, <3>2
      <4>2. v >= v - R
        <5> HIDE DEF v
        <5> QED BY <1>4, <2>4
      <4> QED BY <2>2, <2>4, <2>6, <4>1, <4>2
    <3> QED BY <3>1, <3>2
  <2> DEFINE u == n[p].expire
  <2>9. u >= ImportanceLeft(o + 1) /\ u >= IMPORTANCE_good_to_know
    <3>1. u \in 0 .. 255 /\ u >= v - R
      BY <2>8
    <3> HIDE DEF u, v
    <3> QED BY <1>4, <2>3, <2>4, <2>5, <3>1 DEF IMPORTANCE_good_to_know
  <2>10. Solid(n[p])
    BY <2>8, <2>9 DEF Solid
  <2> QED BY <2>1, <2>8, <2>9, <2>10
<1> QED BY <1>1, <1>2, <1>13, <1>16, <1>17, <1>19, <1>20 DEF IInv, n

\* What an entry of the cache holds instead of the address of its host.
LEMMA EntryRight ==
  ASSUME NEW m, Good(m), Fine(m, lookup), NEW p \in Of(m, NDPCacheEntryID)
  PROVE  m[p].hw = Mac[m[p].ip] \/ UsedWithoutAddress(m, p)
<1>1. EntryOK(m[p]) /\ m[p].id = NDPCacheEntryID
  BY DEF Good, Of
<1>2. m[p].hw \in {Mac[m[p].ip], Prefetched, Unknown} /\ (m[p].state = Reachable => m[p].hw # Unknown)
  BY <1>1 DEF EntryOK
<1>3. m[p].hw = Unknown => m[p].ip \in Routers \/ (lookup.blocked /\ p = lookup.entry)
  BY DEF Fine
<1> QED BY <1>2, <1>3 DEF UsedWithoutAddress

LEMMA LookupBeginStep ==
  ASSUME IInv, NEW dst \in Hosts, LookupBegin(dst) PROVE IInv'
<1> DEFINE added == addNDPCacheEntry(mem, dst, Unknown, Incomplete)
           p == added.pos
           n == added.mem
           k == lookup'
<1>1. /\ ~lookup.blocked /\ ndpcache_find(mem, dst) = 0 /\ p # 0
      /\ mem' = n /\ msg' = Solicit(msg, added) /\ confirmed' = confirmed
      /\ lookup' = [blocked |-> TRUE, dst |-> dst, entry |-> p, disturbed |-> FALSE]
  BY DEF LookupBegin
<1>2. Good(mem) /\ Fine(mem, lookup) /\ Known(mem, confirmed)
      /\ confirmed \in [Neighbours -> 0 .. Forgotten] /\ Listing(msg)
  BY DEF IInv
<1>3. added = addNDPCacheEntry(mem, dst, Unknown, Incomplete)
  OBVIOUS
<1> HIDE DEF added
<1>4. /\ Good(added.mem) /\ added.pos \in {0} \cup 3 .. SIZE
      /\ \A i \in Positions : Keeps(mem[i], added.mem[i])
      /\ \A i \in Of(added.mem, NDPCacheEntryID) : i = added.pos \/ added.mem[i] = mem[i]
      /\ added.pos # 0 => added.mem[added.pos] = NDPCacheEntry(dst, Unknown, Incomplete)
  BY <1>1, <1>2, <1>3, AddNew, Identifiers
<1>5. n[p].id = NDPCacheEntryID /\ n[p].ip = dst
  BY <1>1, <1>4 DEF NDPCacheEntry
<1>6. k.blocked = TRUE /\ k.dst = dst /\ k.entry = p /\ k.disturbed = FALSE
      /\ k \in [blocked : BOOLEAN, dst : Hosts \cup {LinkLocal}, entry : {0} \cup 3 .. SIZE, disturbed : BOOLEAN]
  BY <1>1, <1>4
<1> HIDE DEF k, n, p
<1>7. Waits(n, k)
  BY <1>1, <1>5, <1>6 DEF Waits
<1>8. Fine(n, k)
  <2> SUFFICES ASSUME NEW i \in Of(n, NDPCacheEntryID), n[i].hw = Unknown, i # p PROVE n[i].ip \in Routers
    BY <1>5, <1>6 DEF Fine
  <2>1. n[i] = mem[i]
    BY <1>4 DEF n, p
  <2>2. i \in Of(mem, NDPCacheEntryID)
    BY <2>1 DEF Of
  <2> QED BY <1>1, <1>2, <2>1, <2>2 DEF Fine
<1>9. Known(n, confirmed)
  BY <1>2, <1>4, KnownFollows DEF n
<1>10. Listing(msg')
  BY <1>1, <1>2, SolicitListing
<1>11. Good(n)
  BY <1>4 DEF n
<1> QED BY <1>1, <1>2, <1>7, <1>8, <1>9, <1>10, <1>11 DEF IInv, k

\* The waiting is over: what the task frees is not an entry that is kept.
LEMMA AfterWait ==
  ASSUME IInv, lookup.blocked
  PROVE  /\ Follows(mem, MemoryAfterWait) /\ lookup.entry \in Positions
         /\ \A i \in Of(MemoryAfterWait, NDPCacheEntryID) : MemoryAfterWait[i] = mem[i]
         /\ mem[lookup.entry].state # Reachable => lookup.entry \notin Of(MemoryAfterWait, NDPCacheEntryID)
<1> DEFINE p == lookup.entry
           n == MemoryAfterWait
<1>1. Good(mem) /\ p \in 3 .. SIZE
  BY DEF IInv, Waits
<1>2. p \in Positions /\ p # 1 /\ p # 2
  BY <1>1, PositionsAre DEF Positions
<1>3. CASE mem[p].state = Reachable
  <2>1. n = mem
    BY <1>3 DEF MemoryAfterWait
  <2> QED BY <1>1, <1>2, <1>3, <2>1, FollowsSelf
<1>4. CASE mem[p].state # Reachable
  <2>1. n = [mem EXCEPT ![p] = FreeEntry]
    BY <1>4 DEF MemoryAfterWait
  <2>2. mem \in [Positions -> Entry] /\ mem[p] \in Entry
    BY <1>1, <1>2 DEF Good
  <2>3. FreeEntry \in Entry /\ FreeEntry.id = FreeID
    BY <2>2, FreedIs
  <2>4. EntryOK(FreeEntry) /\ Keeps(mem[p], FreeEntry) /\ Learns(mem[p], FreeEntry)
        /\ FreeEntry.id # NDPCacheEntryID
    BY <1>4, <2>3, Identifiers DEF EntryOK, Keeps, Learns, Solid
  <2> HIDE DEF p, n
  <2>5. Follows(mem, [mem EXCEPT ![p] = FreeEntry])
    BY <1>1, <1>2, <2>3, <2>4, PutFollows
  <2>6. n[p] = FreeEntry /\ \A i \in Positions : i # p => n[i] = mem[i]
    BY <1>2, <2>1, <2>2
  <2>7. p \notin Of(n, NDPCacheEntryID) /\ \A i \in Of(n, NDPCacheEntryID) : n[i] = mem[i]
    BY <2>4, <2>6 DEF Of
  <2> QED BY <1>2, <2>1, <2>5, <2>7 DEF n, p
<1> QED BY <1>3, <1>4

LEMMA LookupEndStep ==
  ASSUME IInv, LookupEnd PROVE IInv'
<1> DEFINE n == MemoryAfterWait
           p == lookup.entry
<1>1. lookup.blocked /\ mem' = n /\ lookup' = Idle /\ msg' = msg /\ confirmed' = confirmed
  BY DEF LookupEnd
<1>2. Good(mem) /\ Fine(mem, lookup) /\ Known(mem, confirmed)
      /\ confirmed \in [Neighbours -> 0 .. Forgotten] /\ Listing(msg)
  BY DEF IInv
<1>3. /\ Follows(mem, n) /\ p \in Positions
      /\ \A i \in Of(n, NDPCacheEntryID) : n[i] = mem[i]
      /\ mem[p].state # Reachable => p \notin Of(n, NDPCacheEntryID)
  BY <1>1, AfterWait
<1> HIDE DEF n
<1>4. Good(n) /\ \A i \in Positions : Keeps(mem[i], n[i])
  BY <1>3 DEF Follows
<1>5. Known(n, confirmed)
  BY <1>2, <1>4, KnownFollows
<1>6. Fine(n, Idle)
  <2> SUFFICES ASSUME NEW i \in Of(n, NDPCacheEntryID), n[i].hw = Unknown PROVE n[i].ip \in Routers
    BY DEF Fine
  <2>1. n[i] = mem[i] /\ i \in Of(mem, NDPCacheEntryID)
    BY <1>3 DEF Of
  <2>2. i # p
    <3> SUFFICES ASSUME i = p PROVE FALSE
      OBVIOUS
    <3>1. mem[p].state = Reachable /\ EntryOK(mem[p]) /\ mem[p].id = NDPCacheEntryID
      BY <1>2, <1>3, <2>1 DEF Good, Of
    <3> QED BY <2>1, <3>1 DEF EntryOK
  <2> QED BY <1>2, <2>1, <2>2 DEF Fine
<1>7. Waits(n, Idle)
  BY DEF Waits, Idle
<1> QED BY <1>1, <1>2, <1>4, <1>5, <1>6, <1>7 DEF IInv

LEMMA SentStep ==
  ASSUME IInv, NEW b \in Blocks, Sent(b) PROVE IInv'
<1>1. msg' = [msg EXCEPT !.sending = @ \ {b}]
      /\ mem' = mem /\ lookup' = lookup /\ confirmed' = confirmed
  BY DEF Sent
<1>2. Listing(msg')
  BY <1>1, SentListing DEF IInv
<1> QED BY <1>1, <1>2 DEF IInv

-----------------------------------------------------------------------------
(* Theorems                                                                *)

\* Whatever messages arrive, and whenever the task waits, the invariant holds:
\* from it follow the properties below.
THEOREM CacheInvariant == Spec => []IInv
<1>1. Init => IInv
  BY InitialState
<1>2. IInv /\ [Next]_vars => IInv'
  <2> SUFFICES ASSUME IInv, [Next]_vars PROVE IInv'
    OBVIOUS
  <2>1. CASE \E h \in Hosts, na \in Advertisements : NeighbourAdvertisement(h, na)
    BY <2>1, AdvertisementStep
  <2>2. CASE \E h \in Hosts, ns \in Solicitations : NeighbourSolicitation(h, ns)
    BY <2>2, SolicitationStep
  <2>3. CASE \E h \in Hosts : Data(h)
    BY <2>3, DataStep
  <2>4. CASE \E r \in Routers, ra \in RouterAdvertisements : RouterAdvertisement(r, ra)
    BY <2>4, RouterStep
  <2>5. CASE Refresh
    BY <2>5, RefreshStep
  <2>6. CASE \E h \in Neighbours : suspect_unreachable(h)
    BY <2>6, SuspectStep
  <2>7. CASE \E dst \in Hosts : LookupBegin(dst)
    BY <2>7, LookupBeginStep
  <2>8. CASE LookupEnd
    BY <2>8, LookupEndStep
  <2>9. CASE \E b \in Blocks : Sent(b)
    BY <2>9, SentStep
  <2>10. CASE UNCHANGED vars
    BY <2>10 DEF vars, IInv
  <2> QED BY <2>1, <2>2, <2>3, <2>4, <2>5, <2>6, <2>7, <2>8, <2>9, <2>10 DEF Next
<1> QED BY <1>1, <1>2, PTL DEF Spec

\* The entries stay well formed, expire_value stays a byte under all the or-ing
\* and subtracting, and a task that waits points into the memory.
THEOREM CacheType == Spec => []TypeOK
<1>1. IInv => TypeOK
  <2> HAVE IInv
  <2>1. \A p \in Positions : mem[p] \in Entry
    BY DEF IInv, Good
  <2>2. \A p \in Positions :
          /\ mem[p].id \in {FreeID, NDPCacheEntryID, AddressEntryID}
          /\ mem[p].ip \in Hosts \cup {LinkLocal, Prefix}
          /\ mem[p].hw \in {Mac[h] : h \in Hosts} \cup {Unknown, Prefetched}
          /\ mem[p].state \in {Incomplete, Stale, Reachable, PrefixLength}
          /\ mem[p].expire \in 0 .. 255 /\ mem[p].router \in Positions \cup {EntryUndefined}
    BY <2>1 DEF Entry
  <2>3. lookup.blocked => lookup.entry \in Positions
    <3>1. 3 .. SIZE \subseteq Positions
      BY PositionsAre DEF Positions
    <3> QED BY <3>1 DEF IInv, Waits
  <2> QED BY <2>2, <2>3 DEF TypeOK, IInv, Listing
<1> QED BY <1>1, CacheInvariant, PTL

\* The configured router and the link local address outlive every eviction,
\* expiry and lookup that gives up.
THEOREM CacheStatic == Spec => []StaticKept
<1>1. IInv => StaticKept
  <2> HAVE IInv
  <2>1. 1 \in Positions /\ 2 \in Positions
    BY PositionsAre
  <2>2. mem[1].id = NDPCacheEntryID /\ mem[1].ip = StaticRouter /\ mem[1].hw = Mac[StaticRouter]
        /\ mem[1].state = Reachable /\ mem[2].id = AddressEntryID /\ mem[2].ip = LinkLocal
    BY DEF IInv, Good, Solid
  <2> QED BY <2>1, <2>2 DEF StaticKept, Of
<1> QED BY <1>1, CacheInvariant, PTL

\* A neighbour that confirmed its address keeps its one entry, reachable and
\* with this address, until its importance may have fallen below good_to_know.
THEOREM CacheConfirmed == Spec => []ConfirmedKept
<1>1. IInv => ConfirmedKept
  <2> HAVE IInv
  <2> SUFFICES ASSUME NEW h \in Neighbours, confirmed[h] < Forgotten
               PROVE  \E p \in Of(mem, NDPCacheEntryID) :
                        /\ mem[p].ip = h /\ mem[p].state = Reachable /\ mem[p].hw = Mac[h]
                        /\ \A q \in Of(mem, NDPCacheEntryID) : mem[q].ip = h => q = p
    BY DEF ConfirmedKept
  <2>1. PICK p \in Positions : Solid(mem[p]) /\ mem[p].ip = h
    BY DEF IInv, Known
  <2>2. p \in Of(mem, NDPCacheEntryID) /\ mem[p].state = Reachable /\ mem[p].hw = Mac[h]
    BY <2>1 DEF Of, Solid
  <2>3. \A q \in Of(mem, NDPCacheEntryID) : mem[q].ip = h => q = p
    BY <2>1, <2>2 DEF IInv, Good
  <2> QED BY <2>1, <2>2, <2>3
<1> QED BY <1>1, CacheInvariant, PTL

\* A frame to a host of the link uses the entry of this host, or of a default
\* router if it has none, and the entry holds the link layer address of its own
\* host: so it is for tasks that need not wait, for the answers that the
\* receiving context sends between any two changes of the cache, and for a task
\* that has waited.  Not covered, since the code does otherwise there, are the
\* entry that was evicted while its task waited and the three kinds of entries
\* without an address that UsedWithoutAddress() lists.
THEOREM CacheLookup == Spec => []LookupRight
<1>1. IInv => LookupRight
  <2> HAVE IInv
  <2>1. ASSUME NEW m, Good(m), Fine(m, lookup), NEW h \in Hosts PROVE RightFor(m, h, AnswerEntry(m, h))
    <3> DEFINE known == ndpcache_find(m, h)
               n == MemoryAfterAnswer(m, h)
               a == AnswerEntry(m, h)
    <3>1. a = IF known # 0 THEN known ELSE ndpcache_findRouter(n)
      BY DEF AnswerEntry
    <3>2. CASE known # 0
      <4>1. a \in Of(m, NDPCacheEntryID) /\ m[a].ip = h
        BY <3>1, <3>2, FindIs
      <4> HIDE DEF a
      <4>2. RightFor(m, h, a)
        BY <2>1, <4>1, EntryRight DEF RightFor
      <4> QED BY <4>2 DEF a
    <3>3. CASE known = 0
      <4>1. \A i \in Of(n, NDPCacheEntryID) : n[i] = m[i]
        BY <2>1, AnswerFollows
      <4>2. a = ndpcache_findRouter(n) /\ ndpcache_find(m, h) = 0
        BY <3>1, <3>3
      <4> HIDE DEF n, a, known
      <4>3. a # 0 => a \in Of(n, NDPCacheEntryID) /\ n[a].isRouting
        BY <4>2, FindRouterIs
      <4>4. a # 0 => a \in Of(m, NDPCacheEntryID) /\ m[a].isRouting
        BY <4>1, <4>3 DEF Of
      <4>5. RightFor(m, h, a)
        BY <2>1, <4>2, <4>4, EntryRight DEF RightFor
      <4> QED BY <4>5 DEF a
    <3> QED BY <3>2, <3>3
  <2>2. ASSUME NEW h \in Hosts, NEW ns \in Solicitations, NEW m \in {mem, Learn(Memories, h, ns).mem}
        PROVE  RightFor(m, h, AnswerEntry(m, h))
    <3>1. Good(mem) /\ Fine(mem, lookup)
      BY DEF IInv
    <3>2. CASE m = mem
      BY <2>1, <3>1, <3>2
    <3>3. CASE m = Learn(Memories, h, ns).mem
      <4>1. Handled(Learn(Memories, h, ns), mem, msg)
        BY MemoriesHandled, LearnHandled
      <4>2. PICK n, l : Learn(Memories, h, ns) = [mem |-> n, msg |-> l] /\ Follows(mem, n)
        BY <4>1 DEF Handled
      <4>3. m = n
        BY <3>3, <4>2
      <4>4. Good(m) /\ \A i \in Positions : Learns(mem[i], m[i])
        BY <4>2, <4>3 DEF Follows
      <4>5. Fine(m, lookup)
        BY <3>1, <4>4, FineFollows
      <4> QED BY <2>1, <4>4, <4>5
    <3> QED BY <3>2, <3>3
  <2>3. ASSUME lookup.blocked, ~lookup.disturbed
        PROVE  RightFor(MemoryAfterWait, lookup.dst, EntryAfterWait)
    <3> DEFINE p == lookup.entry
               n == MemoryAfterWait
               a == EntryAfterWait
    <3>1. /\ p \in Positions /\ Follows(mem, n)
          /\ \A i \in Of(n, NDPCacheEntryID) : n[i] = mem[i]
          /\ mem[p].state # Reachable => p \notin Of(n, NDPCacheEntryID)
      BY <2>3, AfterWait
    <3>2. mem[p].id = NDPCacheEntryID /\ mem[p].ip = lookup.dst
      BY <2>3 DEF IInv, Waits
    <3>3. Good(mem) /\ Fine(mem, lookup) /\ Good(n)
      BY <3>1 DEF IInv, Follows
    <3>4. Fine(n, lookup)
      BY <3>1, <3>3, FineFollows DEF Follows
    <3>5. CASE mem[p].state = Reachable
      <4>1. a = p /\ n = mem
        BY <3>5 DEF EntryAfterWait, MemoryAfterWait
      <4>2. p \in Of(mem, NDPCacheEntryID)
        BY <3>1, <3>2 DEF Of
      <4> HIDE DEF a, n
      <4>3. RightFor(n, lookup.dst, a)
        BY <3>2, <3>3, <4>1, <4>2, EntryRight DEF RightFor
      <4> QED BY <4>3 DEF a, n
    <3>6. CASE mem[p].state # Reachable
      <4>1. a = ndpcache_findRouter(n)
        BY <3>6 DEF EntryAfterWait
      <4> DEFINE d == lookup.dst
                 q == ndpcache_find(n, d)
      <4>2. q = 0
        <5>1. q # 0 => q \in Of(n, NDPCacheEntryID) /\ n[q].ip = d
          BY FindIs
        <5> HIDE DEF q, n
        <5>2. q # 0 => q \in Of(mem, NDPCacheEntryID) /\ mem[q].ip = d
          BY <3>1, <5>1 DEF Of
        <5>3. p \in Of(mem, NDPCacheEntryID) /\ mem[p].ip = d
          BY <3>1, <3>2 DEF Of
        <5>4. q # 0 => q = p
          BY <3>3, <5>2, <5>3 DEF Good
        <5> QED BY <3>1, <3>6, <5>1, <5>4
      <4> HIDE DEF n, a
      <4>3. a # 0 => a \in Of(n, NDPCacheEntryID) /\ n[a].isRouting
        BY <4>1, FindRouterIs
      <4>4. RightFor(n, d, a)
        BY <3>3, <3>4, <4>2, <4>3, EntryRight DEF RightFor
      <4> QED BY <4>4 DEF a, n
    <3> QED BY <3>5, <3>6
  <2> QED BY <2>2, <2>3 DEF LookupRight
<1> QED BY <1>1, CacheInvariant, PTL

\* No management buffer is lost or listed twice, for every number of buffers
\* and every order in which the interface sends them.
THEOREM CacheMessages == Spec => []MessagesListed
<1>1. IInv => MessagesListed
  BY ListingIsListed DEF IInv, MessagesListed
<1> QED BY <1>1, CacheInvariant, PTL
=============================================================================
