------------------------------- MODULE Packets -------------------------------
(***************************************************************************)
(* IPv4, IPv6 and UDP packets as the bytes on the wire, and the Internet   *)
(* checksum over them.  A packet is a sequence of bytes; offsets count     *)
(* from 0 as in the RFCs.  16-bit values are in network order: the byte    *)
(* order aspects swap them on a little endian machine, and the one's       *)
(* complement sum is the same in either order.                             *)
(***************************************************************************)
EXTENDS Addresses, SequencesExt

At(p, off) == p[off + 1]
Get16(p, off) == At(p, off) * 256 + At(p, off + 1)
PutBytes(p, off, bytes) ==
  [i \in DOMAIN p |-> IF i \in off + 1 .. off + Len(bytes) THEN bytes[i - off] ELSE p[i]]
Put16(p, off, v) == PutBytes(p, off, <<v \div 256, v % 256>>)

-----------------------------------------------------------------------------
(* InternetChecksum                                                        *)

RECURSIVE accumulateCarryBits(_)
accumulateCarryBits(csum) ==
  IF csum < 65536 THEN csum ELSE accumulateCarryBits((csum % 65536) + (csum \div 65536))

\* Every second byte is a high byte, an odd last one too.
RECURSIVE SumFrom(_, _)
SumFrom(bytes, i) ==
  IF i > Len(bytes) THEN 0 ELSE bytes[i] * (IF i % 2 = 1 THEN 256 ELSE 1) + SumFrom(bytes, i + 1)

\* Mutant: the first byte is left out.
computePayloadTail(bytes) == SumFrom(bytes, 2)

computePayload(bytes) == SumFrom(bytes, 1)

invert(csum) == 65535 - csum

-----------------------------------------------------------------------------
(* IPv4_Packet                                                             *)

IPV4_MIN_HEADER_SIZE == 20
get_ihl(p) == At(p, 0) % 16

\* Mutant: the fragment offset keeps what was in memory.
SetFlagsStaleOffset(p) == PutBytes(p, 6, <<At(p, 6) % 32, At(p, 7)>>)

\* set_flags(0) keeps the 13 bits of the offset, set_fragment_offset(0) the
\* 3 bits of the flags: between them they write the whole word.
SetFlagsAndOffset(p) ==
  LET flags == PutBytes(p, 6, <<At(p, 6) % 32, At(p, 7)>>)
  IN  PutBytes(flags, 6, <<(At(flags, 6) \div 32) * 32, 0>>)

\* IPV4::setupHeader: version and ihl, tos, total_len, id, flags and fragment
\* offset, ttl and the addresses; the protocol and the checksum come later.
setupHeaderV4(p, datasize, id, src, dst) ==
  LET a == PutBytes(Put16(Put16(p, 2, datasize), 4, id), 0, <<69, 0>>)
  IN  PutBytes(PutBytes(PutBytes(SetFlagsAndOffset(a), 8, <<64>>), 12, src), 16, dst)

\* cksum() over the ihl * 2 words of the header; 0 when it is correct.
cksum(p) == invert(accumulateCarryBits(computePayload(SubSeq(p, 1, get_ihl(p) * 4))))

computeChecksum(p) == LET zero == Put16(p, 10, 0) IN Put16(zero, 10, cksum(zero))

\* The length of the packet at the head of p in a frame of packet_len bytes, or 0.
validPacketLengthV4(p, packet_len) ==
  LET ihl == get_ihl(p) * 4 IN
  IF \/ packet_len < IPV4_MIN_HEADER_SIZE \/ ihl < IPV4_MIN_HEADER_SIZE \/ ihl > packet_len
     \/ Get16(p, 2) < ihl \/ Get16(p, 2) > packet_len
    THEN 0 ELSE Get16(p, 2)

-----------------------------------------------------------------------------
(* IPv6_Packet                                                             *)

IPV6_HEADER_SIZE == 40

\* setUpHeader() and IPV6::setupHeader(): version, lengths, hop limit, addresses.
setupHeaderV6(p, datasize, hoplimit, src, dst) ==
  LET a == Put16(PutBytes(p, 0, <<96, 0, 0, 0>>), 4, datasize - IPV6_HEADER_SIZE)
  IN  PutBytes(PutBytes(PutBytes(a, 7, <<hoplimit>>), 8, src), 24, dst)

\* The payload length is compared with the whole frame, header included.
validPacketLengthV6(p, packet_len) ==
  IF packet_len < IPV6_HEADER_SIZE \/ Get16(p, 4) > packet_len THEN 0 ELSE Get16(p, 4)

-----------------------------------------------------------------------------
(* UDP_Packet, at offset t of an IP packet                                 *)

IP_TYPE_UDP == 17
UDP_HEADER_SIZE == 8

\* UDP_Socket::setupHeader
setupHeaderUDP(p, t, sport, dport, datasize) ==
  Put16(Put16(Put16(Put16(p, t + 2, dport), t, sport), t + 4, datasize), t + 6, 0)

\* InternetChecksumV4 and InternetChecksumV6 ::computePseudoHeader.
PseudoHeaderV4(p, len) == len + IP_TYPE_UDP + computePayload(SubSeq(p, 13, 20))
PseudoHeaderV6(p, len) == len + IP_TYPE_UDP + computePayload(SubSeq(p, 9, 40))

calc_checksum(pseudo, udp) == invert(accumulateCarryBits(pseudo + computePayload(udp)))
=============================================================================
