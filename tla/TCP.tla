-------------------------------- MODULE TCP --------------------------------
(***************************************************************************)
(* tcp/TCP.h: the segment and the comparison of sequence numbers.          *)
(*                                                                         *)
(* A sequence number is a number modulo SEQMOD (2^32 in the code); SEQ_LT  *)
(* and its relatives compare two of them by the sign of their difference.  *)
(* Of a segment the model keeps the fields the state machine reads.  Its   *)
(* payload is described by len and by data, the position of its first byte *)
(* in the stream the sender's application wrote: the receiver never looks  *)
(* at data, the properties do.                                             *)
(***************************************************************************)
EXTENDS Integers

CONSTANT SEQMOD          \* number of sequence numbers, an even number

ASSUME SeqModAssumption == SEQMOD \in Nat /\ SEQMOD >= 2 /\ SEQMOD % 2 = 0

SeqNum == 0 .. SEQMOD - 1
SeqAdd(a, n) == (a + n) % SEQMOD

\* a - b as an unsigned number; its upper half are the negative ones.
SeqDiff(a, b) == (a - b) % SEQMOD

SEQ_LT(a, b)  == SeqDiff(a, b) >= SEQMOD \div 2
SEQ_LEQ(a, b) == a = b \/ SEQ_LT(a, b)
SEQ_GT(a, b)  == ~SEQ_LEQ(a, b)
SEQ_GEQ(a, b) == ~SEQ_LT(a, b)

\* A segment whose flags are the set flags.
Segment(flags, seq, ack, wnd, len, data) ==
    [flags |-> flags, seq |-> seq, ack |-> ack, wnd |-> wnd,
     len |-> len, data |-> data]

has(seg, flag) == flag \in seg.flags
=============================================================================
