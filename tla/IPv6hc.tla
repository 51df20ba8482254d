------------------------------- MODULE IPv6hc -------------------------------
(***************************************************************************)
(* IPv6hc_Packet: the compressed IPv6 header of 6LoWPAN (RFC 6282), as the *)
(* operators that write and read it.  A packet is a sequence of bytes: two *)
(* bytes of fragment header, the datagram tag, then data[].  hop is the    *)
(* feature that chooses how the hop limit is sent; signed says whether     *)
(* char is signed on the machine.  The addresses are written in full: the  *)
(* aspects that shorten them are left out.                                 *)
(***************************************************************************)
EXTENDS Packets

HC_HEADERSIZE_WITHOUT_FRAG_HEADER == 2
HC_FRAG_HEADER == 4
HopFeatures == {"uncompressed", "1", "64", "255"}
HOPLIMIT_SIZE(hop) == IF hop = "uncompressed" THEN 1 ELSE 0

data(p, k) == At(p, HC_FRAG_HEADER + k)
PutData(p, k, bytes) == PutBytes(p, HC_FRAG_HEADER + k, bytes)

\* The fields of the first two bytes, masked but not shifted.
TF(p) == data(p, 0) & 24
NH(p) == data(p, 0) & 4
HLIM(p) == data(p, 0) & 3
CID(p) == data(p, 1) & 128
SAC(p) == data(p, 1) & 64
SAM(p) == data(p, 1) & 48
M(p) == data(p, 1) & 8
DAC(p) == data(p, 1) & 4
DAM(p) == data(p, 1) & 3

-----------------------------------------------------------------------------
(* Writing                                                                 *)

\* The upper bits of size do not fit into the char they are put into.
writeFragmentHeader(p, size, tag) ==
  PutBytes(p, 0, <<(192 | (1792 & size)) % 256, 255 & size, tag \div 256, tag % 256>>)

setUpHeader(p, hop) ==
  PutData(p, 0, <<96 | (CASE hop = "255" -> 3 [] hop = "64" -> 2 [] hop = "1" -> 1 [] OTHER -> 0), 0>>)

set_payload_len(p, len, tag) == writeFragmentHeader(p, len, tag)

set_nextheader(p, i) == PutData(p, HC_HEADERSIZE_WITHOUT_FRAG_HEADER, <<i>>)

set_hoplimit(p, hop, t) ==
  IF hop = "uncompressed" THEN PutData(p, HC_HEADERSIZE_WITHOUT_FRAG_HEADER + 1, <<t>>) ELSE p

getWriteHeaderSize(hop) == 1 + HOPLIMIT_SIZE(hop) + HC_HEADERSIZE_WITHOUT_FRAG_HEADER + HC_FRAG_HEADER
getWriteSrcHeaderSize == 16
getWriteDestHeaderSize == 16

write_compressed_ipaddr(p, off, addr) == PutData(p, off, [k \in 1 .. 16 |-> addr[k - 1]])

set_src_ipaddr(p, hop, addr) ==
  write_compressed_ipaddr(p, HC_HEADERSIZE_WITHOUT_FRAG_HEADER + 1 + HOPLIMIT_SIZE(hop), addr)

\* A multicast destination sets its flag.
set_dst_ipaddr(p, hop, addr) ==
  LET off == HC_HEADERSIZE_WITHOUT_FRAG_HEADER + 1 + HOPLIMIT_SIZE(hop) + getWriteSrcHeaderSize
  IN  write_compressed_ipaddr(IF getIPv6AddressScope(addr) = "MULTICAST"
                                THEN PutData(p, 1, <<data(p, 1) | 8>>) ELSE p, off, addr)

-----------------------------------------------------------------------------
(* Reading                                                                 *)

\* A char as the 16 low bits of the int it is promoted to.
Promoted(c, signed) == IF signed /\ c >= 128 THEN 65280 + c ELSE c

\* << binds stronger than &.
get_payload_len(p, signed) ==
  (Promoted(At(p, 0), signed) & 1792) | Promoted(At(p, 1), signed)

\* What a switch over flag adds to the offset.
Added(flag, sizes) == IF flag \in DOMAIN sizes THEN sizes[flag] ELSE 0

TrafficSize(p) == Added(TF(p), 0 :> 4 @@ 1 :> 3 @@ 2 :> 1)
NextheaderSize(p) == Added(NH(p), 0 :> 1)

calculateHCHeaderSizeWithoutFragmentSize(p) == 2 + Added(CID(p), 1 :> 1)

\* The cases of a stateless address fall through to those of a stateful one.
SrcSize(p) ==
  LET stateful == Added(SAM(p), 1 :> 8 @@ 2 :> 2)
  IN  CASE SAC(p) = 0 -> Added(SAM(p), 0 :> 16 @@ 1 :> 8 @@ 2 :> 2) + stateful
        [] SAC(p) = 1 -> stateful
        [] OTHER -> 0

MulticastSize(p) ==
  LET stateful == Added(DAM(p), 0 :> 6)
  IN  CASE DAC(p) = 0 -> Added(DAM(p), 0 :> 16 @@ 1 :> 6 @@ 2 :> 4 @@ 3 :> 1) + stateful
        [] DAC(p) = 1 -> stateful
        [] OTHER -> 0

\* The cases of a unicast destination fall through to those of multicast.
DestSize(p) ==
  LET stateful == Added(DAM(p), 1 :> 8 @@ 2 :> 2)
      unicast  == CASE DAC(p) = 0 -> Added(DAM(p), 0 :> 16 @@ 1 :> 8 @@ 2 :> 2) + stateful
                    [] DAC(p) = 1 -> stateful
                    [] OTHER -> 0
  IN  CASE M(p) = 0 -> unicast + MulticastSize(p)
        [] M(p) = 1 -> MulticastSize(p)
        [] OTHER -> 0

calculateHeaderSize(p) ==
  4 + TrafficSize(p) + NextheaderSize(p) + Added(HLIM(p), 0 :> 1) + Added(CID(p), 1 :> 1)
    + SrcSize(p) + DestSize(p)

\* Where the payload starts, counted from the fragment header.
get_payload(p) == HC_FRAG_HEADER + calculateHeaderSize(p)

get_hoplimit(p) ==
  CASE HLIM(p) = 0 -> data(p, calculateHCHeaderSizeWithoutFragmentSize(p) + TrafficSize(p) + NextheaderSize(p))
    [] HLIM(p) = 1 -> 1
    [] HLIM(p) = 2 -> 64
    [] HLIM(p) = 3 -> 255

get_nextheader(p) ==
  IF NH(p) = 0 THEN data(p, calculateHCHeaderSizeWithoutFragmentSize(p) + TrafficSize(p)) ELSE 0

\* An address that is zero but for the given bytes.
Sparse(bytes) == [k \in 0 .. 15 |-> Added(k, bytes)]

\* The addresses a reader may return.  An address in full is read from where
\* the pointer itself is stored, which may be any bytes; the labels 10 and 11
\* are decimal numbers.
read_compressed_ipaddr(p, off, flagbyte) ==
  CASE flagbyte = 0 -> IPv6Addr
    [] flagbyte = 1 -> {Sparse(0 :> 254 @@ 1 :> 128 @@ [k \in 8 .. 15 |-> data(p, off + k - 8)])}
    [] flagbyte = 10 -> {Sparse(0 :> 254 @@ 1 :> 128 @@ 11 :> 255 @@ 12 :> 254
                                  @@ 14 :> data(p, off) @@ 15 :> data(p, off + 1))}
    [] flagbyte = 11 -> {Sparse(0 :> 254 @@ 1 :> 128)}
    [] OTHER -> {Unspecified}

read_compressed_multicast_dest_ipaddr(p, off, flagbyte) ==
  CASE flagbyte = 0 -> IPv6Addr
    [] flagbyte = 1 -> {Sparse(0 :> 255 @@ 1 :> data(p, off) @@ [k \in 11 .. 15 |-> data(p, off + k - 10)])}
    [] flagbyte = 10 -> {Sparse(0 :> 255 @@ 1 :> data(p, off) @@ [k \in 13 .. 15 |-> data(p, off + k - 12)])}
    [] flagbyte = 11 -> {Sparse(0 :> 255 @@ 1 :> 2 @@ 15 :> data(p, off))}
    [] OTHER -> {Unspecified}

get_src_ipaddr(p, hop) ==
  read_compressed_ipaddr(p, calculateHCHeaderSizeWithoutFragmentSize(p) + 1 + HOPLIMIT_SIZE(hop), SAM(p))

get_dst_ipaddr(p, hop) ==
  LET off == calculateHCHeaderSizeWithoutFragmentSize(p) + 1 + HOPLIMIT_SIZE(hop) + getWriteSrcHeaderSize
  IN  IF M(p) # 0 THEN read_compressed_multicast_dest_ipaddr(p, off, DAM(p))
                  ELSE read_compressed_ipaddr(p, off, DAM(p))
=============================================================================
