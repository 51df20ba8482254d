----------------------------- MODULE Ringbuffer -----------------------------
(***************************************************************************)
(* util/Ringbuffer.h: the packet buffer between the interrupt that         *)
(* receives packets (the only caller of put) and the task that owns the    *)
(* socket (the only caller of get).  No lock protects it: the two sides    *)
(* share the volatile members buffer, inpos_ and outpos_, and each         *)
(* statement of put() and get() is a step of its own here, so that every   *)
(* interleaving of the two is explored.                                    *)
(***************************************************************************)
EXTENDS Integers, Sequences

CONSTANTS
    BUFFERSIZE,  \* the clamped enum constant of the class
    Val,         \* the pointers that put() is called with: blocks with a packet,
                 \* and the null pointer where the caller does not test for it,
                 \* as the receivers of UDP do not (Receive_UDP_IPv4.ah:58)
    Unset        \* what a slot holds before its first use

ASSUME BufferSizeAssumption == BUFFERSIZE \in 2..255
ASSUME UnsetAssumption == Unset \notin Val

VARIABLES
    buffer,      \* void* buffer[BUFFERSIZE]
    inpos,       \* uint8_t inpos_
    outpos,      \* uint8_t outpos_
    putPc,       \* where put() stands: "idle", "store", "advance"
    putVal,      \* put()'s argument
    getPc,       \* where get() stands: "idle", "load", "advance"
    getVal,      \* get()'s local variable val
    fetched      \* the result of the last get() that found the buffer not empty

vars == <<buffer, inpos, outpos, putPc, putVal, getPc, getVal, fetched>>
putVars == <<putPc, putVal>>
getVars == <<getPc, getVal>>

Slots == 0 .. BUFFERSIZE - 1

Init ==
    /\ buffer = [i \in Slots |-> Unset]
    /\ inpos = 0 /\ outpos = 0
    /\ putPc = "idle" /\ putVal = Unset
    /\ getPc = "idle" /\ getVal = Unset
    /\ fetched = Unset

\* Mutant of Succ: the modulo is forgotten.
SuccUnwrapped(pos) == pos + 1

Succ(pos) == (pos + 1) % BUFFERSIZE

\* isFull(), which is also the condition put() tests.
isFull == Succ(inpos) = outpos

\* Mutant of PutTest: a full buffer is not noticed.
PutTestUnchecked(v) ==
    /\ putPc = "idle"
    /\ putPc' = "store" /\ putVal' = v
    /\ UNCHANGED <<buffer, inpos, outpos, fetched>> /\ UNCHANGED getVars

\* put(): the test.  A full buffer drops the pointer silently.
PutTest(v) ==
    /\ putPc = "idle"
    /\ IF isFull THEN UNCHANGED putVars
                 ELSE putPc' = "store" /\ putVal' = v
    /\ UNCHANGED <<buffer, inpos, outpos, fetched>> /\ UNCHANGED getVars

\* Mutant of PutStore: the position is advanced before it is used.
PutStoreAhead ==
    /\ putPc = "store"
    /\ buffer' = [buffer EXCEPT ![Succ(inpos)] = putVal]
    /\ putPc' = "advance"
    /\ UNCHANGED <<inpos, outpos, putVal, fetched>> /\ UNCHANGED getVars

\* put(): buffer[inpos_] = val.
PutStore ==
    /\ putPc = "store"
    /\ buffer' = [buffer EXCEPT ![inpos] = putVal]
    /\ putPc' = "advance"
    /\ UNCHANGED <<inpos, outpos, putVal, fetched>> /\ UNCHANGED getVars

\* Mutant of PutAdvance: the new position is not written back.
PutAdvanceLost ==
    /\ putPc = "advance"
    /\ putPc' = "idle"
    /\ UNCHANGED <<buffer, inpos, outpos, putVal, fetched>> /\ UNCHANGED getVars

\* put(): inpos_ = (inpos_ + 1) % BUFFERSIZE, which publishes the slot.
PutAdvance ==
    /\ putPc = "advance"
    /\ inpos' = Succ(inpos)
    /\ putPc' = "idle"
    /\ UNCHANGED <<buffer, outpos, putVal, fetched>> /\ UNCHANGED getVars

\* get(): the test.  An empty buffer returns the null pointer.
GetTest ==
    /\ getPc = "idle"
    /\ getPc' = IF outpos /= inpos THEN "load" ELSE "idle"
    /\ UNCHANGED <<buffer, inpos, outpos, getVal, fetched>> /\ UNCHANGED putVars

\* Mutant of GetLoad: the slot behind the newest packet is read.
GetLoadWrongEnd ==
    /\ getPc = "load"
    /\ getVal' = buffer[inpos]
    /\ getPc' = "advance"
    /\ UNCHANGED <<buffer, inpos, outpos, fetched>> /\ UNCHANGED putVars

\* get(): val = buffer[outpos_].
GetLoad ==
    /\ getPc = "load"
    /\ getVal' = buffer[outpos]
    /\ getPc' = "advance"
    /\ UNCHANGED <<buffer, inpos, outpos, fetched>> /\ UNCHANGED putVars

\* get(): outpos_ = (outpos_ + 1) % BUFFERSIZE, and the return.
GetAdvance ==
    /\ getPc = "advance"
    /\ outpos' = Succ(outpos)
    /\ fetched' = getVal
    /\ getPc' = "idle"
    /\ UNCHANGED <<buffer, inpos, getVal>> /\ UNCHANGED putVars

Get == GetTest \/ GetLoad \/ GetAdvance

Next ==
    \/ \E v \in Val : PutTest(v)
    \/ PutStore \/ PutAdvance
    \/ GetTest \/ GetLoad \/ GetAdvance

\* The interrupt handler that called put() runs to its end; the socket's
\* task calls get() again and again while it waits (recv_loop).
Fairness == WF_vars(PutStore \/ PutAdvance) /\ WF_vars(Get)

Spec == Init /\ [][Next]_vars
FairSpec == Spec /\ Fairness

-----------------------------------------------------------------------------
\* The slots from outpos_ up to inpos_, the published contents.
Count == IF inpos >= outpos THEN inpos - outpos
                            ELSE inpos - outpos + BUFFERSIZE
Slot(i) == IF outpos + i < BUFFERSIZE THEN outpos + i
                                      ELSE outpos + i - BUFFERSIZE
contents == [i \in 1 .. Count |-> buffer[Slot(i - 1)]]

TypeOK ==
    /\ buffer \in [Slots -> Val \cup {Unset}]
    /\ inpos \in Slots /\ outpos \in Slots
    /\ putPc \in {"idle", "store", "advance"} /\ putVal \in Val \cup {Unset}
    /\ putPc /= "idle" => putVal \in Val
    /\ getPc \in {"idle", "load", "advance"} /\ getVal \in Val \cup {Unset}
    /\ fetched \in Val \cup {Unset}

\* The slot put() is about to publish is never one that get() may still
\* read, however the two calls interleave: the room the test of put() saw
\* cannot disappear before the store, and the pointer that get() loaded is
\* still the oldest one when it releases the slot.
NoSlotShared ==
    /\ putPc /= "idle" => ~isFull
    /\ putPc = "advance" => buffer[inpos] = putVal
    /\ getPc /= "idle" => Count > 0
    /\ getPc = "advance" => getVal = buffer[outpos]

\* Every published slot holds a pointer that put() was called with, never
\* what was in the array before: put() publishes a slot behind the store, and
\* get() releases it behind the load.  A get() that returns null therefore found
\* the buffer empty or a null pointer that was put.  recv_loop() takes null for
\* empty (it calls input(0,0)), and only blocks are put into its queue; in the
\* queues of UDP null has both meanings.
PublishedSlotsHoldPackets == \A i \in 1 .. Count : contents[i] \in Val

\* The lock-free buffer behaves as a FIFO that loses, duplicates and
\* reorders nothing, although no lock protects put() against get().
PQ == INSTANCE PacketQueue
        WITH Capacity <- BUFFERSIZE - 1, queue <- contents
ImplementsPacketQueue == PQ!Spec

\* A pointer that put() accepted is fetched in the end: no interleaving
\* leaves a packet in the buffer that the polling task never sees.
EveryPacketFetched ==
    \A v \in Val : (putPc = "store" /\ putVal = v) ~> (fetched = v)
=============================================================================
