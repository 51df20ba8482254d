--------------------------- MODULE RingbufferProofs ---------------------------
(***************************************************************************)
(* Proofs about util/Ringbuffer.h for every BUFFERSIZE and every set of    *)
(* pointers.                                                               *)
(***************************************************************************)
EXTENDS Ringbuffer, SequenceTheorems, TLAPS

\* The successor of a position, without the modulo: the positions stay
\* inside the array and wrap from its last slot to slot 0.
LEMMA SuccValue ==
    ASSUME NEW p \in Slots
    PROVE  Succ(p) = IF p = BUFFERSIZE - 1 THEN 0 ELSE p + 1
<1>1. BUFFERSIZE \in Nat /\ BUFFERSIZE >= 2 BY BufferSizeAssumption
<1>2. CASE p = BUFFERSIZE - 1
  <2>1. p + 1 = BUFFERSIZE BY <1>1, <1>2
  <2>2. BUFFERSIZE % BUFFERSIZE = 0 BY <1>1
  <2> QED BY <1>2, <2>1, <2>2 DEF Succ
<1>3. CASE p /= BUFFERSIZE - 1
  <2>1. p + 1 \in 0 .. BUFFERSIZE - 1 BY <1>1, <1>3 DEF Slots
  <2>2. (p + 1) % BUFFERSIZE = p + 1 BY <1>1, <2>1
  <2> QED BY <1>3, <2>2 DEF Succ
<1> QED BY <1>2, <1>3

\* The successor of a position is a position: inpos and outpos never leave
\* the array.
LEMMA SuccInSlots == ASSUME NEW p \in Slots PROVE Succ(p) \in Slots
BY SuccValue, BufferSizeAssumption DEF Slots

-----------------------------------------------------------------------------
(* The inductive invariant.  NoSlotShared alone is not inductive only for   *)
(* want of the types; PublishedSlotsHoldPackets needs both.                 *)

IInv == TypeOK /\ NoSlotShared /\ PublishedSlotsHoldPackets

\* The constructor: both positions 0, every slot unset.
LEMMA InitIInv == Init => IInv
BY BufferSizeAssumption, UnsetAssumption, SuccValue
   DEF Init, IInv, TypeOK, NoSlotShared, PublishedSlotsHoldPackets,
       Slots, Count, contents, isFull, Slot

\* A function on 1..n is a sequence of length n.
LEMMA FunctionIsSeq ==
    ASSUME NEW S, NEW n \in Nat, NEW f \in [1 .. n -> S]
    PROVE  f \in Seq(S) /\ Len(f) = n
<1>1. f \in Seq(S) BY SeqDef
<1>2. DOMAIN f = 1 .. n /\ DOMAIN f = 1 .. Len(f) /\ Len(f) \in Nat
  BY <1>1, LenProperties
<1> QED BY <1>1, <1>2

\* The number of published slots, and where they are, after each side moved.
LEMMA CountBounds ==
    ASSUME TypeOK PROVE Count \in 0 .. BUFFERSIZE - 1
BY BufferSizeAssumption DEF TypeOK, Slots, Count

\* The i-th slot after outpos, where contents reads, is inside the array.
LEMMA SlotInSlots ==
    ASSUME TypeOK, NEW i \in 0 .. BUFFERSIZE - 1 PROVE Slot(i) \in Slots
BY BufferSizeAssumption DEF TypeOK, Slots, Slot

\* The published slots hold pointers that were put, as many as Count says.
LEMMA ContentsType ==
    ASSUME IInv PROVE contents \in Seq(Val) /\ Len(contents) = Count
<1>1. Count \in Nat BY CountBounds, BufferSizeAssumption DEF IInv
<1>2. \A i \in 1 .. Count : contents[i] \in Val
  BY DEF IInv, PublishedSlotsHoldPackets
<1>3. contents \in [1 .. Count -> Val] BY <1>1, <1>2 DEF contents
<1> QED BY <1>1, <1>3, FunctionIsSeq

\* A full buffer is one that has published all slots but one.
LEMMA FullCount ==
    ASSUME NEW p \in Slots, NEW q \in Slots
    PROVE  Succ(p) = q
             <=> (IF p >= q THEN p - q ELSE p - q + BUFFERSIZE) = BUFFERSIZE - 1
<1>1. Succ(p) = IF p = BUFFERSIZE - 1 THEN 0 ELSE p + 1 BY SuccValue
<1>2. BUFFERSIZE \in Nat /\ BUFFERSIZE >= 2 /\ p \in Int /\ q \in Int
      /\ 0 <= p /\ p <= BUFFERSIZE - 1 /\ 0 <= q /\ q <= BUFFERSIZE - 1
  BY BufferSizeAssumption DEF Slots
<1>3. CASE p = BUFFERSIZE - 1 BY <1>1, <1>2, <1>3
<1>4. CASE p /= BUFFERSIZE - 1 /\ p >= q BY <1>1, <1>2, <1>4
<1>5. CASE p /= BUFFERSIZE - 1 /\ p < q BY <1>1, <1>2, <1>5
<1> QED BY <1>2, <1>3, <1>4, <1>5

\* The end of put() publishes one slot, the one inpos stood at.
LEMMA PutAdvanceCounts ==
    ASSUME IInv, PutAdvance
    PROVE  /\ Count < BUFFERSIZE - 1
           /\ Count' = Count + 1
           /\ Slot(Count) = inpos
           /\ \A i \in Nat : Slot(i)' = Slot(i)
<1> USE BufferSizeAssumption DEF IInv, TypeOK, Slots
<1>1. Succ(inpos) /= outpos BY DEF PutAdvance, NoSlotShared, isFull
<1>2. Succ(inpos) = IF inpos = BUFFERSIZE - 1 THEN 0 ELSE inpos + 1
  BY SuccValue
<1>3. inpos' = Succ(inpos) /\ outpos' = outpos BY DEF PutAdvance
<1>4. Count < BUFFERSIZE - 1 BY <1>1, <1>2 DEF Count
<1>5. Count' = Count + 1 BY <1>1, <1>2, <1>3 DEF Count
<1>6. Slot(Count) = inpos BY DEF Slot, Count
<1>7. \A i \in Nat : Slot(i)' = Slot(i) BY <1>3 DEF Slot
<1> QED BY <1>4, <1>5, <1>6, <1>7

\* The end of get() takes the oldest slot from the published ones.
LEMMA GetAdvanceCounts ==
    ASSUME IInv, GetAdvance
    PROVE  /\ Count > 0
           /\ Count' = Count - 1
           /\ Slot(0) = outpos
           /\ \A i \in 0 .. BUFFERSIZE - 2 : Slot(i)' = Slot(i + 1)
<1> USE BufferSizeAssumption DEF IInv, TypeOK, Slots
<1>1. Count > 0 BY DEF GetAdvance, NoSlotShared
<1>2. outpos' = IF outpos = BUFFERSIZE - 1 THEN 0 ELSE outpos + 1
  BY SuccValue DEF GetAdvance
<1>3. inpos' = inpos BY DEF GetAdvance
<1>4. Count' = Count - 1 BY <1>1, <1>2, <1>3 DEF Count
<1>5. Slot(0) = outpos BY DEF Slot
<1>6. \A i \in 0 .. BUFFERSIZE - 2 : Slot(i)' = Slot(i + 1) BY <1>2 DEF Slot
<1> QED BY <1>1, <1>4, <1>5, <1>6

\* Every step of the interrupt and of the task keeps the invariant.
LEMMA NextIInv == IInv /\ [Next]_vars => IInv'
<1> SUFFICES ASSUME IInv, [Next]_vars PROVE IInv' OBVIOUS
<1> USE BufferSizeAssumption, UnsetAssumption
<1>0. TypeOK /\ NoSlotShared /\ PublishedSlotsHoldPackets BY DEF IInv
<1>c. Count \in 0 .. BUFFERSIZE - 1 BY <1>0, CountBounds
<1>1. CASE UNCHANGED vars
  BY <1>0, <1>1 DEF IInv, TypeOK, NoSlotShared, PublishedSlotsHoldPackets,
     vars, isFull, Count, contents, Slot
<1>2. ASSUME NEW v \in Val, PutTest(v) PROVE IInv'
  <2>1. TypeOK' BY <1>0, <1>2 DEF TypeOK, PutTest, putVars, getVars
  <2>2. NoSlotShared'
    BY <1>0, <1>2 DEF NoSlotShared, PutTest, putVars, getVars, isFull, Count
  <2>3. PublishedSlotsHoldPackets'
    BY <1>0, <1>2 DEF PublishedSlotsHoldPackets, PutTest, contents, Count, Slot
  <2> QED BY <2>1, <2>2, <2>3 DEF IInv
<1>3. CASE PutStore
  <2>1. TypeOK' BY <1>0, <1>3 DEF TypeOK, PutStore, getVars
  <2>2. \A i \in 0 .. Count - 1 : Slot(i) /= inpos
    BY <1>0 DEF TypeOK, Slots, Slot, Count
  <2>3. outpos = inpos <=> Count = 0 BY <1>0 DEF TypeOK, Slots, Count
  <2>4. NoSlotShared'
    BY <1>0, <1>3, <2>3 DEF NoSlotShared, PutStore, getVars, isFull, Count, TypeOK
  <2>5. PublishedSlotsHoldPackets'
    <3>1. Count' = Count /\ \A i \in Nat : Slot(i)' = Slot(i)
      BY <1>3 DEF PutStore, Count, Slot
    <3> SUFFICES ASSUME NEW i \in 1 .. Count
                 PROVE  buffer'[Slot(i - 1)] \in Val
      BY <3>1, <1>c DEF PublishedSlotsHoldPackets, contents
    <3>2. Slot(i - 1) \in Slots /\ Slot(i - 1) /= inpos
      BY <1>0, <1>c, <2>2, SlotInSlots
    <3>3. buffer[Slot(i - 1)] \in Val
      BY <1>0 DEF PublishedSlotsHoldPackets, contents
    <3> QED BY <1>0, <1>3, <3>2, <3>3 DEF PutStore, TypeOK
  <2> QED BY <2>1, <2>4, <2>5 DEF IInv
<1>4. CASE PutAdvance
  <2>1. TypeOK' BY <1>0, <1>4, SuccInSlots DEF TypeOK, PutAdvance, getVars
  <2>2. NoSlotShared'
    BY <1>0, <1>4, <1>c, PutAdvanceCounts
       DEF NoSlotShared, PutAdvance, getVars, IInv
  <2>3. PublishedSlotsHoldPackets'
    <3> SUFFICES ASSUME NEW i \in 1 .. Count + 1
                 PROVE  buffer[Slot(i - 1)] \in Val
      BY <1>4, <1>c, PutAdvanceCounts
         DEF PublishedSlotsHoldPackets, contents, PutAdvance
    <3>1. CASE i <= Count
      BY <1>0, <3>1, <1>c DEF PublishedSlotsHoldPackets, contents
    <3>2. CASE i = Count + 1
      <4>1. Slot(i - 1) = inpos BY <1>4, <1>c, <3>2, PutAdvanceCounts
      <4> QED BY <4>1, <1>0, <1>4 DEF NoSlotShared, PutAdvance, TypeOK
    <3> QED BY <3>1, <3>2, <1>c
  <2> QED BY <2>1, <2>2, <2>3 DEF IInv
<1>5. CASE GetTest
  <2>1. TypeOK' BY <1>0, <1>5 DEF TypeOK, GetTest, putVars
  <2>2. outpos /= inpos => Count > 0 BY <1>0 DEF TypeOK, Slots, Count
  <2>3. NoSlotShared'
    BY <1>0, <1>5, <2>2 DEF NoSlotShared, GetTest, putVars, isFull, Count
  <2>4. PublishedSlotsHoldPackets'
    BY <1>0, <1>5 DEF PublishedSlotsHoldPackets, GetTest, contents, Count, Slot
  <2> QED BY <2>1, <2>3, <2>4 DEF IInv
<1>6. CASE GetLoad
  <2>1. TypeOK' BY <1>0, <1>6 DEF TypeOK, GetLoad, putVars
  <2>2. NoSlotShared'
    BY <1>0, <1>6 DEF NoSlotShared, GetLoad, putVars, isFull, Count
  <2>3. PublishedSlotsHoldPackets'
    BY <1>0, <1>6 DEF PublishedSlotsHoldPackets, GetLoad, contents, Count, Slot
  <2> QED BY <2>1, <2>2, <2>3 DEF IInv
<1>7. CASE GetAdvance
  <2>1. TypeOK' BY <1>0, <1>7, SuccInSlots DEF TypeOK, GetAdvance, putVars
  <2>2. ~isFull'
    <3>1. Count' /= BUFFERSIZE - 1 BY <1>7, <1>c, GetAdvanceCounts
    <3>2. inpos' \in Slots /\ outpos' \in Slots BY <2>1 DEF TypeOK
    <3> QED BY <3>1, <3>2, FullCount DEF isFull, Count
  <2>3. NoSlotShared'
    BY <1>0, <1>7, <2>2 DEF NoSlotShared, GetAdvance, putVars
  <2>4. PublishedSlotsHoldPackets'
    <3> SUFFICES ASSUME NEW i \in 1 .. Count - 1
                 PROVE  buffer[Slot(i)] \in Val
      BY <1>7, <1>c, GetAdvanceCounts
         DEF PublishedSlotsHoldPackets, contents, GetAdvance
    <3>1. i + 1 \in 1 .. Count /\ (i + 1) - 1 = i BY <1>c
    <3> QED BY <1>0, <3>1 DEF PublishedSlotsHoldPackets, contents
  <2> QED BY <2>1, <2>3, <2>4 DEF IInv
<1> QED BY <1>1, <1>2, <1>3, <1>4, <1>5, <1>6, <1>7 DEF Next

\* For every buffer size: inpos_ and outpos_ stay inside the array and what
\* put() is about to store is a packet, so no call leaves the array.
THEOREM RingType == Spec => []TypeOK
<1>1. IInv => TypeOK BY DEF IInv
<1> QED BY <1>1, InitIInv, NextIInv, PTL DEF Spec

\* For every buffer size: put() never overwrites a slot get() may read and
\* get() never returns a pointer that is no longer the oldest.
THEOREM SlotsNeverShared == Spec => []NoSlotShared
<1>1. IInv => NoSlotShared BY DEF IInv
<1> QED BY <1>1, InitIInv, NextIInv, PTL DEF Spec

\* For every buffer size, and whether or not null pointers are put: every
\* published slot holds a pointer that put() was called with.
THEOREM PublishedPackets == Spec => []PublishedSlotsHoldPackets
<1>1. IInv => PublishedSlotsHoldPackets BY DEF IInv
<1> QED BY <1>1, InitIInv, NextIInv, PTL DEF Spec

\* For every buffer size: where no null pointer is put, as in the queue of a TCP
\* socket, a get() that found the buffer not empty does not return null, so that
\* recv_loop() may take null for "empty".  Of the queues of UDP it says nothing.
THEOREM NullMeansEmpty ==
    ASSUME NEW Null, Null \notin Val
    PROVE  Spec => [](getPc = "advance" => getVal /= Null)
<1>1. IInv => (getPc = "advance" => getVal /= Null)
  <2> SUFFICES ASSUME IInv, getPc = "advance" PROVE getVal \in Val
    OBVIOUS
  <2>1. Count > 0 /\ getVal = buffer[outpos] BY DEF IInv, NoSlotShared
  <2>2. Count \in 0 .. BUFFERSIZE - 1 BY CountBounds DEF IInv
  <2>3. 1 \in 1 .. Count BY <2>1, <2>2, BufferSizeAssumption
  <2>4. Slot(1 - 1) = outpos
    BY BufferSizeAssumption DEF Slot, IInv, TypeOK, Slots
  <2> QED BY <2>1, <2>3, <2>4 DEF IInv, PublishedSlotsHoldPackets, contents
<1> QED BY <1>1, InitIInv, NextIInv, PTL DEF Spec

-----------------------------------------------------------------------------
(* The refinement: put() takes effect when it moves inpos_, get() when it   *)
(* moves outpos_; every other step of the two is a stutter of the queue.    *)

\* An empty ring buffer is an empty queue.
LEMMA InitRefines == Init => PQ!Init
BY BufferSizeAssumption DEF Init, PQ!Init, contents, Count

\* Advancing inpos appends the packet to the queue.
LEMMA PutAdvanceRefines ==
    ASSUME IInv, PutAdvance PROVE PQ!Enqueue(putVal)
<1> USE BufferSizeAssumption
<1>c. Count \in 0 .. BUFFERSIZE - 1 BY CountBounds DEF IInv
<1>1. contents \in Seq(Val) /\ Len(contents) = Count BY ContentsType
<1>2. Count < BUFFERSIZE - 1 /\ Count' = Count + 1 BY PutAdvanceCounts
<1>3. contents' = [i \in 1 .. Count + 1 |-> buffer[Slot(i - 1)]]
  BY <1>c, PutAdvanceCounts DEF contents, PutAdvance
<1>4. buffer[Slot(Count)] = putVal /\ putVal \in Val
  BY PutAdvanceCounts DEF PutAdvance, IInv, NoSlotShared, TypeOK
<1>5. \A i \in 1 .. Count : contents[i] = buffer[Slot(i - 1)] /\ contents[i] \in Val
  BY DEF contents, IInv, PublishedSlotsHoldPackets
<1>6. contents' = Append(contents, putVal)
  <2>1. \A i \in 1 .. Count + 1 :
          buffer[Slot(i - 1)] = IF i <= Count THEN contents[i] ELSE putVal
    BY <1>c, <1>4, <1>5
  <2>0. \A i \in 1 .. Count + 1 : buffer[Slot(i - 1)] \in Val
    BY <1>c, <1>4, <1>5, <2>1
  <2>2. contents' \in [1 .. Count + 1 -> Val] BY <1>3, <2>0
  <2>3. contents' \in Seq(Val) /\ Len(contents') = Count + 1
    BY <1>c, <2>2, FunctionIsSeq
  <2>4. /\ Append(contents, putVal) \in Seq(Val)
        /\ Len(Append(contents, putVal)) = Count + 1
        /\ \A i \in 1 .. Count + 1 : Append(contents, putVal)[i]
               = IF i <= Count THEN contents[i] ELSE putVal
    BY <1>c, <1>1, <1>4, AppendProperties
  <2>5. \A i \in 1 .. Count + 1 : contents'[i] = Append(contents, putVal)[i]
    BY <1>3, <2>1, <2>4
  <2> QED BY <2>3, <2>4, <2>5, SeqEqual
<1> QED BY <1>1, <1>2, <1>6 DEF PQ!Enqueue, PutAdvance

\* Advancing outpos removes the head of the queue.
LEMMA GetAdvanceRefines ==
    ASSUME IInv, GetAdvance PROVE PQ!Dequeue
<1> USE BufferSizeAssumption
<1>c. Count \in 0 .. BUFFERSIZE - 1 BY CountBounds DEF IInv
<1>1. contents \in Seq(Val) /\ Len(contents) = Count BY ContentsType
<1>2. Count > 0 /\ Count' = Count - 1 BY GetAdvanceCounts
<1>3. contents' = [i \in 1 .. Count - 1 |-> buffer[Slot(i)]]
  BY <1>c, GetAdvanceCounts DEF contents, GetAdvance
<1>9. contents /= <<>> BY <1>1, <1>2
<1>4. /\ Tail(contents) \in Seq(Val)
      /\ Len(Tail(contents)) = Count - 1
      /\ \A i \in 1 .. Count - 1 : Tail(contents)[i] = contents[i + 1]
  BY <1>1, <1>9, HeadTailProperties
<1>5. \A i \in 1 .. Count - 1 :
        contents[i + 1] = buffer[Slot(i)] /\ contents[i + 1] \in Val
  <2>1. \A i \in 1 .. Count : contents[i] = buffer[Slot(i - 1)] /\ contents[i] \in Val
    BY DEF contents, IInv, PublishedSlotsHoldPackets
  <2>2. \A i \in 1 .. Count - 1 : i + 1 \in 1 .. Count /\ (i + 1) - 1 = i
    BY <1>c
  <2> QED BY <2>1, <2>2
<1>6. contents' = Tail(contents)
  <2>1. contents' \in [1 .. Count - 1 -> Val] BY <1>3, <1>5
  <2>2. contents' \in Seq(Val) /\ Len(contents') = Count - 1
    BY <1>c, <1>2, <2>1, FunctionIsSeq
  <2>3. \A i \in 1 .. Count - 1 : contents'[i] = Tail(contents)[i]
    BY <1>3, <1>4, <1>5
  <2> QED BY <1>4, <2>2, <2>3, SeqEqual
<1>7. Head(contents) = buffer[outpos]
  BY <1>1, <1>2, <1>c, GetAdvanceCounts DEF contents
<1>8. fetched' = Head(contents)
  BY <1>7 DEF GetAdvance, IInv, NoSlotShared
<1> QED BY <1>6, <1>8, <1>9 DEF PQ!Dequeue

\* Every step of the ring buffer is a step of the queue or a stutter.
LEMMA StepRefines == IInv /\ [Next]_vars => [PQ!Next]_(PQ!vars)
<1> SUFFICES ASSUME IInv, [Next]_vars PROVE [PQ!Next]_(PQ!vars) OBVIOUS
<1> USE BufferSizeAssumption
<1>1. CASE UNCHANGED vars
  BY <1>1 DEF vars, PQ!vars, contents, Count, Slot
<1>2. ASSUME NEW v \in Val, PutTest(v) PROVE UNCHANGED PQ!vars
  BY <1>2 DEF PutTest, PQ!vars, contents, Count, Slot
<1>3. CASE PutStore
  <2>1. Count' = Count /\ \A i \in Nat : Slot(i)' = Slot(i)
    BY <1>3 DEF PutStore, Count, Slot
  <2>c. Count \in 0 .. BUFFERSIZE - 1 BY CountBounds DEF IInv
  <2>2. \A i \in 0 .. Count - 1 : Slot(i) /= inpos /\ Slot(i) \in Slots
    BY DEF IInv, TypeOK, Slots, Slot, Count
  <2>3. \A i \in 1 .. Count : buffer'[Slot(i - 1)] = buffer[Slot(i - 1)]
    BY <1>3, <2>2, <2>c DEF PutStore, IInv, TypeOK
  <2>4. contents' = contents BY <2>1, <2>3, <2>c DEF contents
  <2> QED BY <1>3, <2>4 DEF PutStore, PQ!vars
<1>4. CASE PutAdvance
  BY <1>4, PutAdvanceRefines DEF PQ!Next, IInv, TypeOK, PutAdvance
<1>5. CASE GetTest
  BY <1>5 DEF GetTest, PQ!vars, contents, Count, Slot
<1>6. CASE GetLoad
  BY <1>6 DEF GetLoad, PQ!vars, contents, Count, Slot
<1>7. CASE GetAdvance
  BY <1>7, GetAdvanceRefines DEF PQ!Next
<1> QED BY <1>1, <1>2, <1>3, <1>4, <1>5, <1>6, <1>7 DEF Next

\* For every buffer size: the unlocked ring buffer implements the bounded
\* FIFO, so the receiving interrupt and the socket's task may use it
\* without entering the kernel.
THEOREM RingImplementsQueue == Spec => ImplementsPacketQueue
BY InitIInv, NextIInv, InitRefines, StepRefines, PTL
   DEF Spec, ImplementsPacketQueue, PQ!Spec
=============================================================================
