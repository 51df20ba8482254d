--------------------------- MODULE MCReceiveStream ---------------------------
(***************************************************************************)
(* ReceiveStream for TLC: the peers.                                       *)
(***************************************************************************)
EXTENDS ReceiveStream

\* A peer that may retransmit any part of the stream in one segment.
AnyCuts == {c \in (0 .. StreamLen - 1) \X (1 .. 3) : c[1] + c[2] <= StreamLen}

\* The peers that retransmit their segments unchanged: one per way to cut
\* the stream into consecutive segments.
Partition(starts) ==
    {<<b, Min({e \in starts \cup {StreamLen} : e > b}) - b>> : b \in starts}

AllPeers == {AnyCuts} \cup
    {Partition(starts \cup {0}) : starts \in SUBSET (1 .. StreamLen - 1)}
=============================================================================
