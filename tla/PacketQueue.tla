---------------------------- MODULE PacketQueue ----------------------------
(***************************************************************************)
(* What a packet buffer promises its two users, the receiving interrupt    *)
(* (producer) and the socket's task (consumer): a FIFO of at most Capacity *)
(* pointers.  Ringbuffer.tla is the C++ class that implements it.          *)
(***************************************************************************)
EXTENDS Naturals, Sequences

CONSTANTS Capacity, Val, Unset

VARIABLES
    queue,      \* the pointers that were accepted and not yet fetched
    fetched     \* the pointer the consumer's last successful get() returned

vars == <<queue, fetched>>

Init == queue = <<>> /\ fetched = Unset

\* A pointer is accepted only while there is room for it.
Enqueue(v) ==
    /\ Len(queue) < Capacity
    /\ queue' = Append(queue, v)
    /\ UNCHANGED fetched

\* The consumer gets the oldest pointer, and gets it once.
Dequeue ==
    /\ queue /= <<>>
    /\ queue' = Tail(queue)
    /\ fetched' = Head(queue)

Next == Dequeue \/ \E v \in Val : Enqueue(v)

Spec == Init /\ [][Next]_vars
=============================================================================
