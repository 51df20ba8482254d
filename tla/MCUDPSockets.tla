---------------------------- MODULE MCUDPSockets ----------------------------
EXTENDS UDPSockets

\* Over IPv4 with a byte of padding, over IPv6 with the character '4' (52) in
\* the address, and one that no block is large enough for.
MCDatagrams == {
  [dport |-> 3, ver |-> 4, payload |-> <<7, 8, 9>>, sport |-> <<4, 1>>, src |-> <<10, 0, 3, 9>>],
  [dport |-> 3, ver |-> 6, payload |-> <<7, 8>>, sport |-> <<4, 2>>,
   src |-> <<32, 1, 0, 0, 52, 0, 0, 0, 0, 0, 0, 0, 0, 0, 0, 1>>],
  [dport |-> 3, ver |-> 6, payload |-> <<7, 8, 9, 10, 11>>, sport |-> <<4, 2>>,
   src |-> <<32, 1, 0, 0, 0, 0, 0, 0, 0, 0, 0, 0, 0, 0, 0, 1>>] }

\* That cast() fails for a buffer of the other version is a matter of one byte.
ASSUME CastIsOneByte ==
  \A d \in {e \in Datagrams : Fits(e)}, behind \in {0, Id(6)} :
    cast([size |-> Len(d.payload), bytes |-> Bytes(d, behind)], 10 - d.ver) <=> d.ver = 6 \/ behind = Id(6)
=============================================================================
