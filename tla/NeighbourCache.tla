--------------------------- MODULE NeighbourCache ---------------------------
(***************************************************************************)
(* The AddressMemory of an Ethernet interface: one array that holds the    *)
(* NDP cache and the addresses of the interface.  A task looks up the link *)
(* layer address of a destination and blocks in between, with a pointer to *)
(* its entry; meanwhile advertisements, solicitations and data of other    *)
(* hosts, and the refresh cycle, add, confirm, evict and expire entries.   *)
(* A pointer to an entry is its position; a freed entry keeps its bytes.   *)
(***************************************************************************)
EXTENDS SharedMemory, Integers, Sequences

CONSTANTS
  SIZE,            \* IPSTACK_IPV6_CACHE_ENTRIES_SIZE
  Hosts, Routers,  \* the other hosts of the link, by IP address; some are routers
  StaticRouter,    \* the router of the configuration, always kept
  Mac,             \* the link layer address of a host
  Unknown,         \* bytes that are no address: what hw or an uninitialized buffer held
  Prefetched,      \* the same, in an entry that a frame made reachable
  LinkLocal, Prefix,  \* the interface's own address; the prefix a router advertises
  Advertisements,  \* what a neighbour advertisement may be: [unicast, override, options]
  Solicitations,   \* what a neighbour solicitation may be: [unicast, options]
  RouterAdvertisements,  \* what a router may send: [isDefault, shutdown, options]
  NDP_CACHE_REFRESH_IN_MINUTES,
  MaxRefreshes     \* refresh cycles at most

ASSUME CacheAssumption ==
  /\ SIZE \in Nat /\ SIZE >= 2 /\ SIZE < 255
  /\ StaticRouter \in Hosts /\ Routers \subseteq Hosts
  /\ LinkLocal \notin Hosts /\ Prefix \notin Hosts /\ LinkLocal # Prefix
  /\ \A h \in Hosts : Mac[h] # Unknown /\ Mac[h] # Prefetched
  /\ Unknown # Prefetched
  /\ \A ra \in RouterAdvertisements : ra.isDefault \in BOOLEAN
       /\ ra.options \in Seq([type : Nat, len_in_octets : Nat])
  /\ NDP_CACHE_REFRESH_IN_MINUTES \in 1 .. 31   \* expire_value is a byte
  /\ MaxRefreshes \in Nat

VARIABLES
  mem,        \* addressmemory
  lookup,     \* the task in prepareSendBuffer(): its destination and entry
  msg,        \* the management memory
  confirmed,  \* refresh cycles since a neighbour confirmed its address, or Forgotten
  refreshes   \* refresh cycles so far

\* The hosts whose entries may be evicted.
Neighbours == Hosts \ {StaticRouter}

vars == <<mem, lookup, msg, confirmed, refreshes>>

EntryUndefined == 255
Positions == 1 .. SIZE

FreeID == 0
NDPCacheEntryID == 250
AddressEntryID == 252

Incomplete == 0
Stale == 1
Reachable == 4
PrefixLength == 64   \* prefixlen of an AddressEntry is the byte that is state of an NDPCacheEntry

IMPORTANCE_good_to_know == 50
IMPORTANCE_solicitation_renew == 70
IMPORTANCE_router == 100
IMPORTANCE_always_keep == 255

\* expire_value | importance, as a table: the sum of the bits that either has.
BitOr ==
  [y \in {1, 50, 70, 100, 255} |-> [x \in 0 .. 255 |->
     LET bit(w) == IF (x \div w) % 2 = 1 \/ (y \div w) % 2 = 1 THEN w ELSE 0
     IN  bit(1) + bit(2) + bit(4) + bit(8) + bit(16) + bit(32) + bit(64) + bit(128)]]

EXPIRE_RATE_PER_MINUTE == 2 * NDP_CACHE_REFRESH_IN_MINUTES
TRESHOLD_REQUIRE_SOLICITATION == 3 * EXPIRE_RATE_PER_MINUTE

\* A neighbour is Forgotten when this many cycles have passed since it was
\* confirmed: its importance may then be below good_to_know.
Forgotten == 1 + (IMPORTANCE_solicitation_renew - IMPORTANCE_good_to_know) \div EXPIRE_RATE_PER_MINUTE

-----------------------------------------------------------------------------
(* AddressMemory                                                           *)

Of(m, type) == {i \in Positions : m[i].id = type}

\* findEntry() from a position on: the first entry of a type, or none (0).
findEntry(m, type, start) ==
  LET found == {i \in Of(m, type) : i >= start} IN IF found = {} THEN 0 ELSE Least(found)

\* Where a search that has gone through the entries S continues.
After(S, start) == IF S = {} THEN start ELSE 1 + CHOOSE i \in S : \A j \in S : j <= i

FreeEntry == [id |-> FreeID, ip |-> LinkLocal, hw |-> Unknown, state |-> Incomplete, isRouter |-> FALSE,
              isRouting |-> FALSE, expire |-> 0, router |-> EntryUndefined]

\* freeEntry() of the positions S clears the id.  What else the entry holds
\* can only be read by the task that waits with a pointer to it.
freeEntries(m, S) ==
  [i \in Positions |->
     IF i \notin S THEN m[i]
     ELSE IF lookup.entry = i THEN [FreeEntry EXCEPT !.hw = m[i].hw, !.state = m[i].state]
     ELSE FreeEntry]

NDPCacheEntry(ip, hw, state) ==
  [id |-> NDPCacheEntryID, ip |-> ip, hw |-> hw, state |-> state, isRouter |-> FALSE, isRouting |-> FALSE,
   expire |-> TRESHOLD_REQUIRE_SOLICITATION + EXPIRE_RATE_PER_MINUTE,
   router |-> EntryUndefined]

AddressEntry(ip, router) ==
  [id |-> AddressEntryID, ip |-> ip, hw |-> Unknown, state |-> PrefixLength, isRouter |-> FALSE,
   isRouting |-> FALSE, expire |-> 0, router |-> router]

makeIPv6AddressByPrefix(m, prefix, router) ==
  LET p == findEntry(m, FreeID, 1) IN IF p = 0 THEN m ELSE [m EXCEPT ![p] = AddressEntry(prefix, router)]

-----------------------------------------------------------------------------
(* The NDP cache of the interface                                          *)

ndpcache_find(m, ip) ==
  LET found == {i \in Of(m, NDPCacheEntryID) : m[i].ip = ip} IN IF found = {} THEN 0 ELSE Least(found)

ndpcache_findRouter(m) ==
  LET found == {i \in Of(m, NDPCacheEntryID) : m[i].isRouting} IN IF found = {} THEN 0 ELSE Least(found)

\* The prefixes go with the entry of a router, if it called itself one in a
\* neighbour advertisement.
freeNDPCacheEntry(m, p) ==
  freeEntries(m, {p} \cup {i \in Of(m, AddressEntryID) : m[p].isRouter /\ m[i].router = p})

\* dropUnused(): the entry of least importance, if that is below good_to_know.
releaseEntryBelowImportance(m) ==
  LET below == {i \in Of(m, NDPCacheEntryID) : m[i].expire < IMPORTANCE_good_to_know}
      least == {i \in below : \A j \in below : m[i].expire <= m[j].expire}
  IN  IF below = {} THEN m ELSE freeNDPCacheEntry(m, Least(least))

\* Mutant: importance is added.
update_importanceAdded(m, p, importance) == [m EXCEPT ![p].expire = @ + importance]

\* Mutant: importance is set, not raised.
update_importanceSet(m, p, importance) == [m EXCEPT ![p].expire = importance]

update_importance(m, p, importance) == [m EXCEPT ![p].expire = BitOr[importance][@]]

\* Mutant: addNDPCacheEntry() does not look for the address first.
addNDPCacheEntryBlindly(m, ip, hw, state) ==
  LET room == IF findEntry(m, FreeID, 1) = 0 THEN releaseEntryBelowImportance(m) ELSE m
      p    == findEntry(room, FreeID, 1)
  IN  [mem |-> IF p = 0 THEN room ELSE [room EXCEPT ![p] = NDPCacheEntry(ip, hw, state)], pos |-> p]

\* A known address only gets the new state.  hw is Unknown for a null pointer.
addNDPCacheEntry(m, ip, hw, state) ==
  LET old  == ndpcache_find(m, ip)
      room == IF findEntry(m, FreeID, 1) = 0 THEN releaseEntryBelowImportance(m) ELSE m
      p    == findEntry(room, FreeID, 1)
  IN  IF old # 0 THEN [mem |-> [m EXCEPT ![old].state = state], pos |-> old]
      ELSE [mem |-> IF p = 0 THEN room ELSE [room EXCEPT ![p] = NDPCacheEntry(ip, hw, state)], pos |-> p]

\* AddressResolutionRequest, after addNDPCacheEntry(): a solicitation for an
\* entry that is not yet reachable.
Solicit(ms, added) ==
  IF added.pos # 0 /\ added.mem[added.pos].state # Reachable THEN Send(ms) ELSE ms

-----------------------------------------------------------------------------
(* Neighbour and router messages                                           *)

SourceLinkLayer == 1
TargetLinkLayer == 2
PrefixInformation == 3

\* The walk over the options reaches position i: none before has length 0.
Reached(opts, i) == \A k \in 1 .. i : opts[k].len_in_octets # 0

get_option_linklayer_address(type, opts) == \E i \in DOMAIN opts : opts[i].type = type /\ Reached(opts, i)

OptionsLength(opts) ==
  LET sum[i \in 0 .. Len(opts)] == IF i = 0 THEN 0 ELSE sum[i - 1] + 8 * opts[i].len_in_octets
  IN  sum[Len(opts)]

\* How often the loop of the router advertisement handles the prefix found
\* first: get_prefix_option() starts again at the same option, as long as
\* 32 bytes remain.
PrefixRounds ==
  [opts \in {ra.options : ra \in RouterAdvertisements} |->
     IF \E i \in DOMAIN opts : opts[i].type = PrefixInformation /\ Reached(opts, i)
       THEN OptionsLength(opts) \div 32 ELSE 0]

\* Cache_Incoming_NDPCache, after every frame to our own link layer address.
\* It makes a known entry reachable and does not store the address the frame
\* came from: the bytes of hw stay what they were.
Prefetch(m, h, unicast) ==
  LET added == addNDPCacheEntry(m, h, Mac[h], Reachable)
      p     == added.pos
      marked == IF added.mem[p].hw = Unknown THEN [added.mem EXCEPT ![p].hw = Prefetched] ELSE added.mem
  IN  IF ~unicast THEN m
      ELSE IF p = 0 THEN added.mem
      ELSE update_importance(marked, p, IMPORTANCE_good_to_know)

entryConfirmed(m, p) ==
  update_importance(m, p, IF m[p].isRouter THEN IMPORTANCE_router ELSE IMPORTANCE_solicitation_renew)

\* AddressResolutionUpdate: entry p after the advertisement of host h.
Advertised(m, p, h, na) ==
  LET flagged == entryConfirmed([m EXCEPT ![p].isRouter = h \in Routers], p)
  IN  IF get_option_linklayer_address(TargetLinkLayer, na.options) /\ (na.override \/ m[p].state # Reachable)
        THEN [flagged EXCEPT ![p].hw = Mac[h], ![p].state = Reachable] ELSE flagged

-----------------------------------------------------------------------------
(* What the task that looks up an address sees of a change of the memory   *)

Idle == [blocked |-> FALSE, dst |-> LinkLocal, entry |-> 0, disturbed |-> FALSE]

\* While the task waits, its entry is evicted, and perhaps the slot reused.
Watch(m) ==
  LET e == m[lookup.entry] IN
  lookup' = [lookup EXCEPT !.disturbed =
               @ \/ (lookup.blocked /\ (e.id # NDPCacheEntryID \/ e.ip # lookup.dst))]

Init ==
  /\ mem = [p \in Positions |->
              CASE p = 1 -> [NDPCacheEntry(StaticRouter, Mac[StaticRouter], Reachable)
                               EXCEPT !.expire = BitOr[IMPORTANCE_always_keep][@]]
                [] p = 2 -> AddressEntry(LinkLocal, EntryUndefined)
                [] OTHER -> FreeEntry]
  /\ lookup = Idle /\ msg = NewSharedMemory
  /\ confirmed = [h \in Neighbours |-> Forgotten] /\ refreshes = 0

\* A neighbour advertisement from h for its own address.
NeighbourAdvertisement(h, na) ==
  LET p  == ndpcache_find(mem, h)
      m1 == IF p = 0 THEN mem ELSE Advertised(mem, p, h, na)
  IN  /\ mem' = Prefetch(m1, h, na.unicast)
      /\ confirmed' = IF h \in Neighbours /\ p # 0 /\ na.override
                           /\ get_option_linklayer_address(TargetLinkLayer, na.options)
                        THEN [confirmed EXCEPT ![h] = 0] ELSE confirmed
      /\ Watch(mem')
      /\ UNCHANGED <<msg, refreshes>>

\* Mutant: the lookup of an answer keeps the entry that nobody has answered for.
MemoryAfterAnswerKept(m, h) == addNDPCacheEntry(m, h, Unknown, Incomplete).mem

\* The lookup for an answer to h, which is no direct response, runs in the
\* context that receives: a known entry is used at once, whatever its state; a
\* new one stays Incomplete, since no message is handled during the second that
\* is waited, and is freed.
MemoryAfterAnswer(m, h) ==
  LET added == addNDPCacheEntry(m, h, Unknown, Incomplete)
  IN  IF ndpcache_find(m, h) # 0 THEN m
      ELSE IF added.pos = 0 THEN added.mem ELSE freeEntries(added.mem, {added.pos})

\* The entry whose link layer address the answer gets.
AnswerEntry(m, h) ==
  IF ndpcache_find(m, h) # 0 THEN ndpcache_find(m, h) ELSE ndpcache_findRouter(MemoryAfterAnswer(m, h))

\* An answer to h: the block is taken first, the solicitation for an unknown h
\* takes another, and without an entry the answer is given up.
\* r is the cache and the management memory, [mem, msg].
Answer(r, h) ==
  LET added == addNDPCacheEntry(r.mem, h, Unknown, Incomplete)
      asked == IF ndpcache_find(r.mem, h) # 0 THEN Send(r.msg) ELSE Solicit(Send(r.msg), added)
  IN  IF ~HasBlock(r.msg) THEN [r EXCEPT !.msg = Send(@)]
      ELSE [mem |-> MemoryAfterAnswer(r.mem, h),
            msg |-> IF AnswerEntry(r.mem, h) = 0 THEN Invalidate(asked, NextBlock(r.msg)) ELSE asked]

\* AddressResolutionUpdate: the sender of a solicitation, if it is not known.
Learn(r, h, ns) ==
  LET added == addNDPCacheEntry(r.mem, h, Mac[h], Stale)
  IN  IF ndpcache_find(r.mem, h) = 0 /\ get_option_linklayer_address(SourceLinkLayer, ns.options)
        THEN [mem |-> added.mem, msg |-> Solicit(r.msg, added)] ELSE r

Memories == [mem |-> mem, msg |-> msg]

\* A solicitation from h for an address of ours: AddressResolutionResponse
\* answers and AddressResolutionUpdate learns, in the order of their weaving.
NeighbourSolicitation(h, ns) ==
  /\ \E end \in {Learn(Answer(Memories, h), h, ns), Answer(Learn(Memories, h, ns), h)} :
       /\ mem' = Prefetch(end.mem, h, ns.unicast)
       /\ msg' = end.msg
  /\ Watch(mem')
  /\ UNCHANGED <<confirmed, refreshes>>

\* Any other IPv6 packet to us: an echo request is answered, data is not.
Data(h) ==
  /\ \E end \in {Memories, Answer(Memories, h)} :
       /\ mem' = Prefetch(end.mem, h, TRUE)
       /\ msg' = end.msg
  /\ Watch(mem')
  /\ UNCHANGED <<confirmed, refreshes>>

\* One round of the loop over the prefixes: from the position next on, an
\* address of the router with this prefix is kept, or else one is made.
PrefixRound(acc, router) ==
  LET rest == {i \in Of(acc.mem, AddressEntryID) : i >= acc.next}
      same == {i \in rest : acc.mem[i].router = router /\ acc.mem[i].ip = Prefix}
  IN  IF same # {}
        THEN [acc EXCEPT !.toBeRemoved = @ \ {Least(same)}, !.next = Least(same) + 1]
        ELSE [acc EXCEPT !.mem = makeIPv6AddressByPrefix(@, Prefix, router), !.next = After(rest, @)]

PrefixLoop(start, router, rounds) ==
  LET acc[k \in 0 .. rounds] == IF k = 0 THEN start ELSE PrefixRound(acc[k - 1], router)
  IN  acc[rounds]

\* The entry of the router is renewed and what it made is flagged.
PrefixStart(added, foundMac, isDefault) ==
  LET p       == added.pos
      renewed == IF foundMac THEN update_importance(added.mem, p, IMPORTANCE_router) ELSE added.mem
      addrs   == Of(renewed, AddressEntryID)
  IN  [mem |-> [renewed EXCEPT ![p].isRouting = isDefault], next |-> After(addrs, 1),
       toBeRemoved |-> {i \in addrs : renewed[i].router = p}]

\* NDP_Router_Advertisement, multicast by router r: the addresses made for r
\* are flagged, those whose prefix it still advertises are spared, and the
\* flagged ones are freed.
RouterAdvertisement(r, ra) ==
  LET foundMac == get_option_linklayer_address(SourceLinkLayer, ra.options)
      known    == ndpcache_find(mem, r)
      rounds   == IF ra.shutdown /\ ~ra.isDefault THEN 0 ELSE PrefixRounds[ra.options]
  IN  /\ \E added \in {IF known # 0 THEN [mem |-> mem, pos |-> known]
                        ELSE IF foundMac THEN addNDPCacheEntry(mem, r, Mac[r], Stale)
                        ELSE addNDPCacheEntry(mem, r, Unknown, Incomplete)} :
           /\ IF added.pos = 0 THEN mem' = added.mem
              ELSE \E end \in {PrefixLoop(PrefixStart(added, foundMac, ra.isDefault), added.pos, rounds)} :
                     mem' = freeEntries(end.mem, end.toBeRemoved)
           /\ msg' = IF known = 0 THEN Solicit(msg, added) ELSE msg
      /\ Watch(mem')
      /\ UNCHANGED <<confirmed, refreshes>>

\* An upper layer misses the answers of a neighbour.
suspect_unreachable(h) ==
  LET p == ndpcache_find(mem, h) IN
  /\ p # 0
  /\ mem' = [mem EXCEPT ![p].expire = 0, ![p].state = Stale]
  /\ confirmed' = [confirmed EXCEPT ![h] = Forgotten]
  /\ Watch(mem')
  /\ UNCHANGED <<msg, refreshes>>

\* releaseOldEntries()
Refresh ==
  /\ refreshes < MaxRefreshes
  /\ LET old  == {i \in Of(mem, NDPCacheEntryID) : mem[i].expire < EXPIRE_RATE_PER_MINUTE}
         kept == {i \in Of(mem, NDPCacheEntryID) \ old : mem[i].expire # IMPORTANCE_always_keep}
         aged == [i \in Positions |->
                    IF i \in kept THEN [mem[i] EXCEPT !.expire = BitOr[1][@ - EXPIRE_RATE_PER_MINUTE]] ELSE mem[i]]
         gone == {i \in Of(mem, AddressEntryID) : \E p \in old : mem[p].isRouter /\ mem[i].router = p}
     IN  mem' = freeEntries(aged, old \cup gone)
  /\ refreshes' = refreshes + 1
  /\ confirmed' = [h \in Neighbours |-> IF confirmed[h] = Forgotten THEN Forgotten ELSE confirmed[h] + 1]
  /\ Watch(mem')
  /\ UNCHANGED msg

-----------------------------------------------------------------------------
(* IPv6_Ethernet_NDPCache_Blocking: the task sends to dst                  *)

\* A known entry is used at once, and if there is no room for a new one the
\* entry of a router: AnswerEntry(mem, dst).  Otherwise the task blocks with a
\* new entry, for which a solicitation is sent.
LookupBegin(dst) ==
  LET added == addNDPCacheEntry(mem, dst, Unknown, Incomplete)
  IN  /\ ~lookup.blocked
      /\ ndpcache_find(mem, dst) = 0 /\ added.pos # 0
      /\ mem' = added.mem
      /\ msg' = Solicit(msg, added)
      /\ lookup' = [blocked |-> TRUE, dst |-> dst, entry |-> added.pos, disturbed |-> FALSE]
      /\ UNCHANGED <<confirmed, refreshes>>

\* The entry is reachable, or the second is over and the entry is freed.
MemoryAfterWait ==
  IF mem[lookup.entry].state = Reachable THEN mem ELSE [mem EXCEPT ![lookup.entry] = FreeEntry]

EntryAfterWait ==
  IF mem[lookup.entry].state = Reachable THEN lookup.entry ELSE ndpcache_findRouter(MemoryAfterWait)

LookupEnd ==
  /\ lookup.blocked
  /\ mem' = MemoryAfterWait
  /\ lookup' = Idle
  /\ UNCHANGED <<msg, confirmed, refreshes>>

\* The interface has sent a message.
Sent(b) ==
  /\ b \in msg.sending
  /\ msg' = [msg EXCEPT !.sending = @ \ {b}]
  /\ UNCHANGED <<mem, lookup, confirmed, refreshes>>

Next ==
  \/ \E h \in Hosts, na \in Advertisements : NeighbourAdvertisement(h, na)
  \/ \E h \in Hosts, ns \in Solicitations : NeighbourSolicitation(h, ns)
  \/ \E h \in Hosts : Data(h)
  \/ \E r \in Routers, ra \in RouterAdvertisements : RouterAdvertisement(r, ra)
  \/ Refresh
  \/ \E h \in Neighbours : suspect_unreachable(h)
  \/ \E dst \in Hosts : LookupBegin(dst)
  \/ LookupEnd
  \/ \E b \in Blocks : Sent(b)

Spec == Init /\ [][Next]_vars

-----------------------------------------------------------------------------
(* Properties                                                              *)

\* The entries are well formed, expire_value stays a byte, and a task that
\* waits points into the memory.
TypeOK ==
  /\ \A p \in Positions :
       /\ mem[p].id \in {FreeID, NDPCacheEntryID, AddressEntryID}
       /\ mem[p].ip \in Hosts \cup {LinkLocal, Prefix}
       /\ mem[p].hw \in {Mac[h] : h \in Hosts} \cup {Unknown, Prefetched}
       /\ mem[p].state \in {Incomplete, Stale, Reachable, PrefixLength}
       /\ mem[p].expire \in 0 .. 255 /\ mem[p].router \in Positions \cup {EntryUndefined}
  /\ lookup.blocked => lookup.entry \in Positions
  /\ msg \in SharedMemoryType
  /\ confirmed \in [Neighbours -> 0 .. Forgotten]

\* Whatever fills the cache, the entry of the configured router and the link
\* local address are never evicted, expired or freed by a lookup that gives
\* up, and the router keeps its link layer address.
StaticKept ==
  /\ \E p \in Of(mem, NDPCacheEntryID) :
       mem[p].ip = StaticRouter /\ mem[p].hw = Mac[StaticRouter] /\ mem[p].state = Reachable
  /\ \E p \in Of(mem, AddressEntryID) : mem[p].ip = LinkLocal

\* A neighbour that has confirmed its address with an advertisement stays in
\* the cache until it is Forgotten, once, reachable and with its own link
\* layer address: entryConfirmed() puts it out of the reach of dropUnused(),
\* and no lookup that gives up in a slot that was reused takes it away.
ConfirmedKept ==
  \A h \in Neighbours :
    confirmed[h] < Forgotten =>
      \E p \in Of(mem, NDPCacheEntryID) :
        /\ mem[p].ip = h /\ mem[p].state = Reachable /\ mem[p].hw = Mac[h]
        /\ \A q \in Of(mem, NDPCacheEntryID) : mem[q].ip = h => q = p

\* The three ways in which the code uses an entry without a link layer address:
\* addNDPCacheEntry() makes a known one reachable and does not store the address
\* of the frame, an entry may be made for a router that leaves its address out,
\* and an answer finds the new entry for which a task is just waiting.
UsedWithoutAddress(m, p) ==
  \/ m[p].hw = Prefetched
  \/ m[p].hw = Unknown /\ m[p].ip \in Routers
  \/ m[p].hw = Unknown /\ m[p].state # Reachable /\ lookup.blocked /\ p = lookup.entry

\* A frame to dst uses the entry of dst, or of a default router if dst has none,
\* and never the link layer address of a third host: entry p holds the one of its
\* own host, or none.
RightFor(m, dst, p) ==
  p # 0 => /\ m[p].ip = dst \/ (ndpcache_find(m, dst) = 0 /\ m[p].isRouting)
           /\ m[p].hw = Mac[m[p].ip] \/ UsedWithoutAddress(m, p)

\* So it is when a task or an answer need not wait, the answer to a solicitation
\* before or after its sender is learned, and when a task has waited: but for an
\* entry evicted meanwhile, whose slot the task still looks at.
LookupRight ==
  /\ \A h \in Hosts, ns \in Solicitations :
       \A m \in {mem, Learn(Memories, h, ns).mem} : RightFor(m, h, AnswerEntry(m, h))
  /\ lookup.blocked /\ ~lookup.disturbed => RightFor(MemoryAfterWait, lookup.dst, EntryAfterWait)

\* No management buffer is lost or listed twice: after any mix of answers and
\* solicitations each block is in the mempool or at one place of the list.
MessagesListed == EveryBlockListed(msg)
=============================================================================
