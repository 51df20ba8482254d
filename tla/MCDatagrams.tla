---------------------------- MODULE MCDatagrams ----------------------------
EXTENDS Datagrams, IPv6hc

LinkLocal(last) == [i \in 0 .. 15 |-> CASE i = 0 -> 254 [] i = 1 -> 128 [] i = 15 -> last [] OTHER -> 0]
Global(net, last) == [i \in 0 .. 15 |-> CASE i = 0 -> 32 [] i = 1 -> 1 [] i = 5 -> net [] i = 15 -> last [] OTHER -> 0]

\* An address whose fourth block is block.
Subnet(net, block, last) == [Global(net, last) EXCEPT ![7] = block]

\* The first interface is down for IPv4, the second reaches the gateway and has
\* a prefix that ends inside a byte, 2001:0:9:10::/61.
MCInterfaces == <<
  [v4 |-> <<10, 0, 3, 1>>, mask |-> <<255, 255, 255, 0>>, v4up |-> FALSE, v6up |-> TRUE, router |-> FALSE,
   addrs |-> <<[ip |-> LinkLocal(1), prefixlen |-> 64, hoplimit |-> 0]>>],
  [v4 |-> <<10, 0, 3, 2>>, mask |-> <<255, 255, 255, 128>>, v4up |-> TRUE, v6up |-> TRUE, router |-> TRUE,
   addrs |-> <<[ip |-> Global(7, 2), prefixlen |-> 48, hoplimit |-> 64],
               [ip |-> Subnet(9, 16, 2), prefixlen |-> 61, hoplimit |-> 0]>>] >>

MCGateway == <<10, 0, 3, 126>>

\* On link, behind the gateway, and the host itself.
MCDests4 == {<<10, 0, 3, 9>>, <<10, 0, 3, 200>>, <<10, 0, 3, 2>>}

\* fe80:0:0:0:0:0:0:3f, 2001:0000:0007:0:0:0:0:9, 2001:0:8:0:0:0:0:9, which no
\* prefix contains, and 2001:0:9:18:0:0:0:9, which is outside the /61 by its last bit
MCTexts6 == {
  <<<<"f", "e", "8", "0">>, <<"0">>, <<"0">>, <<"0">>, <<"0">>, <<"0">>, <<"0">>, <<"3", "F">>>>,
  <<<<"2", "0", "0", "1">>, <<"0", "0", "0", "0">>, <<"0", "0", "0", "7">>, <<"0">>, <<"0">>, <<"0">>, <<"0">>, <<"9">>>>,
  <<<<"2", "0", "0", "1">>, <<"0">>, <<"8">>, <<"0">>, <<"0">>, <<"0">>, <<"0">>, <<"9">>>>,
  <<<<"2", "0", "0", "1">>, <<"0">>, <<"9">>, <<"1", "8">>, <<"0">>, <<"0">>, <<"0">>, <<"9">>>> }

MCHosts == {
  [v4 |-> <<10, 0, 3, 9>>, v6 |-> LinkLocal(63), prefixlen |-> 64, port |-> 7],
  [v4 |-> <<10, 0, 3, 200>>, v6 |-> Global(7, 9), prefixlen |-> 64, port |-> 7] }

MCChunks == {<<129>>, <<255, 2>>}

\* Of the prefixes that end rest bits inside a byte, only those with 7 are
\* compared as the comment in the code says; with 5 the byte is not compared.
ASSUME PartialByte ==
  /\ \A rest \in 1 .. 7 : prefixMask(rest) = 256 - 2 ^ (8 - rest) <=> rest = 7
  /\ prefixMask(5) = 0

\* The address of the first interface is the one its configuration makes.
ASSUME Configured == StaticEntry(ipv6_addr_toString(LinkLocal(1))) = MCInterfaces[1].addrs[1]

\* The helpers the packets of this run do not exercise, over small sets of
\* addresses.  A solicitation reaches the host it is for, and no host whose
\* last bytes differ.
Addrs == {LinkLocal(1), LinkLocal(63), Global(7, 1), Global(8, 63)}
ASSUME SolicitedNodeReaches ==
  \A a, b \in Addrs : is_solicitedNode_multicast_addr(solicitedNode_multicast_addr(a), {b}) <=> a[15] = b[15]

\* The text of a link layer address names it again, but for its first digit.
ASSUME EthernetText ==
  \A a \in [0 .. 5 -> {0, 10, 79}] :
    parse_ethernet_addr(ethernet_addr_tostring(a), [i \in 0 .. 5 |-> 0]) =
      [ok |-> TRUE, addr |-> [a EXCEPT ![0] = @ % 16]]

-----------------------------------------------------------------------------
(* 6LoWPAN headers, which no packet of this run has.                       *)

Multicast == [i \in 0 .. 15 |-> CASE i = 0 -> 255 [] i = 1 -> 2 [] i = 15 -> 1 [] OTHER -> 0]
Reserved(hop) == getWriteHeaderSize(hop) + getWriteSrcHeaderSize + getWriteDestHeaderSize
Fields == {"length", "nextheader", "hoplimit", "source", "destination"}
Set(p, field, hop, dst) ==
  CASE field = "length" -> set_payload_len(p, 300, 513)
    [] field = "nextheader" -> set_nextheader(p, 17)
    [] field = "hoplimit" -> set_hoplimit(p, hop, 64)
    [] field = "source" -> set_src_ipaddr(p, hop, LinkLocal(1))
    [] field = "destination" -> set_dst_ipaddr(p, hop, dst)
Written(hop, dst, byte, order) ==
  FoldLeft(LAMBDA p, field : Set(p, field, hop, dst), setUpHeader(Fill(Reserved(hop) + 2, byte), hop), order)
Own(hop, dst) == Written(hop, dst, 0, SetToSeq(Fields))
HopBits == "uncompressed" :> 0 @@ "1" :> 1 @@ "64" :> 2 @@ "255" :> 3

\* Whatever the order of the setters and the memory before, they write every
\* byte that is reserved for the header, each field at its place, and no other.
ASSUME HcHeaderWhole ==
  \A hop \in HopFeatures, dst \in {LinkLocal(63), Multicast}, byte \in StaleBytes, order \in SetToSeqs(Fields) :
    Written(hop, dst, byte, order) =
      <<192, 300 % 256, 2, 1, 96 + HopBits[hop], IF dst = Multicast THEN 8 ELSE 0, 17>>
        \o (IF hop = "uncompressed" THEN <<64>> ELSE <<>>) \o Bytes(LinkLocal(1)) \o Bytes(dst) \o <<byte, byte>>

\* A hop limit that the feature fixes is read as it was meant.
ASSUME HcHoplimit ==
  \A dst \in {LinkLocal(63), Multicast} :
    /\ get_hoplimit(Own("1", dst)) = 1 /\ get_hoplimit(Own("64", dst)) = 64 /\ get_hoplimit(Own("255", dst)) = 255

\* The fields of a sender that elides the traffic class are found.
ASSUME HcElidedTraffic ==
  \A hlim \in 0 .. 3, flags \in 0 .. 127 :
    LET p == Fill(HC_FRAG_HEADER, 0) \o <<120 + hlim, flags, 17, 99>>
    IN  get_nextheader(p) = 17 /\ (hlim = 0 => get_hoplimit(p) = 99)

\* A destination of which only the interface identifier is sent is restored,
\* behind a source address in full.
ASSUME HcInterfaceIdentifier ==
  \A hop \in HopFeatures, a \in {LinkLocal(1), LinkLocal(63)} :
    LET own   == Own(hop, a)
        short == PutData(own, 1, <<1>>)
    IN  get_dst_ipaddr(PutBytes(short, Reserved(hop) - 16, SubSeq(Bytes(a), 9, 16)), hop) = {a}

\* What keeps the code from reading its own packets: the length loses its
\* upper byte, a shortened source address is not restored, and the payload is
\* looked for in the wrong place.
ASSUME HcMisread ==
  /\ \A len \in {0, 127, 128, 255, 256, 1280} :
       /\ get_payload_len(set_payload_len(Fill(4, 0), len, 1), FALSE) = len % 256
       /\ get_payload_len(set_payload_len(Fill(4, 0), len, 1), TRUE) # len
  /\ \A hop \in HopFeatures, dst \in {LinkLocal(63), Multicast} : 
       /\ get_payload(Own(hop, dst)) # Reserved(hop)
       /\ \A sam \in 1 .. 3 : get_src_ipaddr(PutData(Own(hop, dst), 1, <<sam * 16>>), hop) = {Unspecified}
=============================================================================
