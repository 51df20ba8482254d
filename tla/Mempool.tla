------------------------------ MODULE Mempool ------------------------------
(***************************************************************************)
(* util/Mempool.h: BasicMempool, two stacks of free blocks (SingleMempool) *)
(* that a task and the receiving interrupt share.                          *)
(*                                                                         *)
(* The task requests and frees blocks for the segments it sends and frees  *)
(* those it has read; the interrupt requests a block for each packet it    *)
(* receives (ReceiveBuffer::createReceiveBuffer).  The interrupt preempts  *)
(* the task between any two memory accesses and runs to its end, unless    *)
(* the operation is one that an aspect like IRQ_Sync encloses in           *)
(* enterKernel()/leaveKernel(): those mask the interrupt, the operations   *)
(* in Unguarded do not.                                                    *)
(***************************************************************************)
EXTENDS Integers, FiniteSets

CONSTANTS
    COUNT,       \* the number of blocks of each of the two pools
    Unguarded,   \* the task's operations that do not disable interrupts
    Interrupts   \* is there an interrupt, or does the task poll the device?

Pools == {"big", "small"}
Op == {"alloc", "free"}

ASSUME MempoolAssumption ==
    /\ COUNT \in [Pools -> Nat]
    /\ Unguarded \subseteq Op
    /\ Interrupts \in BOOLEAN

\* The block i of pool p; the address of a chunk tells its pool.
PoolBlocks(p) == {p} \X (0 .. COUNT[p] - 1)
Block == UNION {PoolBlocks(p) : p \in Pools}

\* Mutant of PoolOf: every block is put back into the stack of big blocks.
PoolOfBig(b) == "big"

PoolOf(b) == b[1]

VARIABLES
    freelist,    \* freelist[p]: the array of pool p
    head,        \* head[p]: index of the top of the stack, -1 if it is empty
    holders,     \* for each block, how many owners use it
    task         \* the operation of the task that is under way

vars == <<freelist, head, holders, task>>

Idle == [op |-> "none", todo |-> {}, p |-> "big", top |-> -1, b |-> <<"big", 0>>]

Init ==
    /\ freelist = [p \in Pools |-> [i \in 0 .. COUNT[p] - 1 |-> <<p, i>>]]
    /\ head = [p \in Pools |-> COUNT[p] - 1]
    /\ holders = [b \in Block |-> 0]
    /\ task = Idle

hasSpace(p) == head[p] >= 0

\* BasicMempool::alloc(): a small request tries the small blocks first.
PoolFor(size) == IF size = "small" /\ hasSpace("small") THEN "small" ELSE "big"

alloc(size) ==
    LET p == PoolFor(size)
        b == freelist[p][head[p]]
    IN  /\ hasSpace(p)
        /\ head' = [head EXCEPT ![p] = @ - 1]
        /\ holders' = [holders EXCEPT ![b] = @ + 1]
        /\ UNCHANGED <<freelist, task>>

-----------------------------------------------------------------------------
(* The operations of the task.                                              *)

\* return *(head--): head is read once; the block is loaded and the new head
\* stored in the order the compiler chose.
AllocBegin(size) ==
    /\ task = Idle /\ hasSpace(PoolFor(size))
    /\ task' = [op |-> "alloc", todo |-> {"load", "store head"},
                p |-> PoolFor(size), top |-> head[PoolFor(size)], b |-> Idle.b]
    /\ UNCHANGED <<freelist, head, holders>>

AllocLoad ==
    /\ task.op = "alloc" /\ "load" \in task.todo
    /\ task' = [task EXCEPT !.todo = @ \ {"load"},
                            !.b = freelist[task.p][task.top]]
    /\ UNCHANGED <<freelist, head, holders>>

AllocStoreHead ==
    /\ task.op = "alloc" /\ "store head" \in task.todo
    /\ head' = [head EXCEPT ![task.p] = task.top - 1]
    /\ task' = [task EXCEPT !.todo = @ \ {"store head"}]
    /\ UNCHANGED <<freelist, holders>>

AllocEnd ==
    /\ task.op = "alloc" /\ task.todo = {}
    /\ holders' = [holders EXCEPT ![task.b] = @ + 1]
    /\ task' = Idle
    /\ UNCHANGED <<freelist, head>>

\* *++head = block: again the two stores come in any order.
FreeBegin(b) ==
    /\ task = Idle /\ holders[b] > 0
    /\ holders' = [holders EXCEPT ![b] = @ - 1]
    /\ task' = [op |-> "free", todo |-> {"store block", "store head"},
                p |-> PoolOf(b), top |-> head[PoolOf(b)] + 1, b |-> b]
    /\ UNCHANGED <<freelist, head>>

\* Mutant of FreeStoreBlock: the top of the stack is overwritten, *head++.
FreeStoreBlockBelow ==
    /\ task.op = "free" /\ "store block" \in task.todo
    /\ freelist' = [freelist EXCEPT ![task.p][task.top - 1] = task.b]
    /\ task' = [task EXCEPT !.todo = @ \ {"store block"}]
    /\ UNCHANGED <<head, holders>>

FreeStoreBlock ==
    /\ task.op = "free" /\ "store block" \in task.todo
    /\ freelist' = [freelist EXCEPT ![task.p][task.top] = task.b]
    /\ task' = [task EXCEPT !.todo = @ \ {"store block"}]
    /\ UNCHANGED <<head, holders>>

FreeStoreHead ==
    /\ task.op = "free" /\ "store head" \in task.todo
    /\ head' = [head EXCEPT ![task.p] = task.top]
    /\ task' = [task EXCEPT !.todo = @ \ {"store head"}]
    /\ UNCHANGED <<freelist, holders>>

FreeEnd ==
    /\ task.op = "free" /\ task.todo = {}
    /\ task' = Idle
    /\ UNCHANGED <<freelist, head, holders>>

\* enterKernel() of the operation under way disables the interrupt.
Masked == task.op \in Op \ Unguarded

\* The interrupt receives a packet, at any point of the task.
IrqAlloc(size) == Interrupts /\ ~Masked /\ alloc(size)

Next ==
    \/ \E size \in Pools : AllocBegin(size) \/ IrqAlloc(size)
    \/ \E b \in Block : FreeBegin(b)
    \/ AllocLoad \/ AllocStoreHead \/ AllocEnd
    \/ FreeStoreBlock \/ FreeStoreHead \/ FreeEnd

Spec == Init /\ [][Next]_vars

-----------------------------------------------------------------------------
Stack(p) == 0 .. head[p]
IsFree(b) == \E i \in Stack(PoolOf(b)) : freelist[PoolOf(b)][i] = b

TypeOK ==
    /\ \A p \in Pools : freelist[p] \in [0 .. COUNT[p] - 1 -> PoolBlocks(p)]
    /\ \A p \in Pools : head[p] \in -1 .. COUNT[p] - 1
    /\ holders \in [Block -> Nat]
    /\ task.op \in Op \cup {"none"}

\* Between two operations of the task every block has exactly one place: it
\* is free and stands once in its stack, or one segment or packet uses it.
\* No block is lost and none is handed out while it is in use, wherever the
\* interrupt came in.
OneOwner ==
    task = Idle =>
        /\ \A b \in Block : holders[b] = (IF IsFree(b) THEN 0 ELSE 1)
        /\ \A p \in Pools : \A i, j \in Stack(p) :
              freelist[p][i] = freelist[p][j] => i = j
=============================================================================
