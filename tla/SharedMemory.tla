---------------------------- MODULE SharedMemory ----------------------------
(***************************************************************************)
(* The management memory that ICMP and the other internal senders share:   *)
(* a mempool and the list allocatedMemories of the buffers taken from it.  *)
(* Nobody frees such a buffer after send(): the next sender gives back all *)
(* the buffers that the interface has sent in the meantime.                *)
(***************************************************************************)
EXTENDS Naturals, FiniteSets

CONSTANT SLOTS   \* IPSTACK_MANAGEMENT_COUNT_BIG + IPSTACK_MANAGEMENT_COUNT_SMALL

ASSUME SlotsAssumption == SLOTS \in Nat \ {0}

Blocks == 1 .. SLOTS

\* The blocks in the mempool, the list, and the blocks in use until the interface
\* has sent them.
SharedMemoryType ==
  [mempool : SUBSET Blocks, allocatedMemories : [1 .. SLOTS -> Blocks \cup {0}], sending : SUBSET Blocks]

NewSharedMemory == [mempool |-> Blocks, allocatedMemories |-> [i \in 1 .. SLOTS |-> 0], sending |-> {}]

Least(S) == CHOOSE i \in S : \A j \in S : i <= j

insert(m, data) ==
  LET empty == {i \in 1 .. SLOTS : m.allocatedMemories[i] = 0}
  IN  IF empty = {} THEN m ELSE [m EXCEPT !.allocatedMemories[Least(empty)] = data]

hasBeenSend(m, b) == b \notin m.sending

\* Mutant: remove() leaves the pointer in the list.
removeAllKept(m, S) ==
  [m EXCEPT !.mempool = @ \cup {m.allocatedMemories[i] : i \in S}]

\* remove() of the list positions S.
removeAll(m, S) ==
  [m EXCEPT !.mempool = @ \cup {m.allocatedMemories[i] : i \in S},
            !.allocatedMemories = [i \in 1 .. SLOTS |-> IF i \in S THEN 0 ELSE @[i]]]

freeAllUnused(m) ==
  removeAll(m, {i \in 1 .. SLOTS : m.allocatedMemories[i] # 0 /\ hasBeenSend(m, m.allocatedMemories[i])})

\* The block that createInstance() takes, if there is one.
HasBlock(m) == freeAllUnused(m).mempool # {}
NextBlock(m) == Least(freeAllUnused(m).mempool)

\* The SharedMemory aspect around SendBuffer::createInstance(), and send():
\* the buffers that are no longer used are freed, the new one is listed and,
\* written or waiting for its link layer address, handed to the interface.
\* Without a block nothing is sent.
Send(m) ==
  LET u == freeAllUnused(m)
      b == NextBlock(m)
  IN  IF ~HasBlock(m) THEN u
      ELSE insert([u EXCEPT !.mempool = @ \ {b}, !.sending = @ \cup {b}], b)

\* prepareSendBuffer() has failed: the buffer is in the InvalidState, nobody
\* frees it, and the next sender gives it back like one that has been sent.
Invalidate(m, b) == [m EXCEPT !.sending = @ \ {b}]

\* Every buffer is in the mempool or at one position of the list.
EveryBlockListed(m) ==
  \A b \in Blocks :
    Cardinality({i \in 1 .. SLOTS : m.allocatedMemories[i] = b}) = IF b \in m.mempool THEN 0 ELSE 1
=============================================================================
