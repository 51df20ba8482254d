------------------------------ MODULE Datagrams ------------------------------
(***************************************************************************)
(* One UDP datagram at a time from a dual-stack socket to the application  *)
(* of another host: the destination and its route, the send buffer and the *)
(* headers that the aspects of all layers put into it, the checksums, a    *)
(* wire that may flip a bit and pads short frames, and what the receiving  *)
(* aspects check before they copy the payload out.                         *)
(***************************************************************************)
EXTENDS Packets, FiniteSets

CONSTANTS
  Interfaces,   \* the sender's interfaces, in the order of the Router's list
  Gateway,      \* ipv4_gateway_addr
  Dests4,       \* IPv4 addresses the application sends to, as 4 bytes
  Texts6,       \* IPv6 addresses it sends to, as text
  Hosts,        \* the receiving hosts: [v4, v6, prefixlen, port]
  SPort, DPort, \* the ports of the sending socket
  Sizes,        \* request sizes of requestSendBuffer
  Chunks,       \* byte sequences the application passes to write()
  StaleBytes,   \* what the bytes of an allocated block may hold
  Padding,      \* numbers of bytes the link layer pads a frame with
  BLOCKSIZE,    \* largest buffer the mempool has a block for
  COUNT,        \* blocks of the mempool
  FirstId,      \* the IPv4 id of the first packet
  MaxRequests   \* buffers prepared at most

VARIABLES
  sock,     \* the UDP socket with its IPV4 and IPV6 objects
  buf,      \* its SendBuffer, or NoBuffer
  wire,     \* frames on their way: [bytes, interface, filled, written]
  received  \* what the last frame gave the application: [host, dgram, frame]

vars == <<sock, buf, wire, received>>

NoInterface == 0
NoBuffer == [state |-> "none"]
IfIndex == DOMAIN Interfaces

\* The objects that the IPv4 and IPv6 slices add to a socket, before a
\* destination is set, and the socket with both, which begins with IPv4.
NewIPV4 == [dst4 |-> <<0, 0, 0, 0>>, if4 |-> NoInterface, using_gateway |-> FALSE, id |-> FirstId]
NewIPV6 == [dst6 |-> Unspecified, src6 |-> Unspecified, if6 |-> NoInterface, hoplimit |-> 255]

Init ==
  /\ sock = NewIPV4 @@ NewIPV6 @@ [ver |-> 4, mempool |-> COUNT, requests |-> 0, text |-> <<>>]
  /\ buf = NoBuffer /\ wire = {} /\ received = {}

-----------------------------------------------------------------------------
(* Destinations and routes                                                 *)

SameSubnet(i, a) == \A k \in 1 .. 4 : (Interfaces[i].v4[k] & Interfaces[i].mask[k]) = (a[k] & Interfaces[i].mask[k])

First(S) == IF S = {} THEN NoInterface ELSE CHOOSE i \in S : \A j \in S : i <= j

ipv4_find_route(dst) ==
  First({i \in IfIndex : Interfaces[i].v4up /\ SameSubnet(i, dst) /\ Interfaces[i].v4 # dst})

\* IPV4::set_dst_addr and resolveRoute: the destination's subnet, else the
\* gateway's.  To bound the model, the application sets a new destination when
\* the last buffer is freed and its frame is off the wire.
SetDst4(dst) ==
  /\ wire = {} /\ buf = NoBuffer
  /\ LET direct == ipv4_find_route(dst) IN
     sock' = [sock EXCEPT !.ver = 4, !.dst4 = dst,
                          !.if4 = IF direct # NoInterface THEN direct ELSE ipv4_find_route(Gateway),
                          !.using_gateway = direct = NoInterface]
  /\ UNCHANGED <<buf, wire, received>>

get_nexthop_ipaddr == IF sock.using_gateway THEN Gateway ELSE sock.dst4

\* Router::ipv6_find_route: the first address entry whose prefix matches, on
\* the interfaces in order; else the first interface with a router, and as
\* source an entry of global scope seen until then.
Entries == {<<i, k>> \in IfIndex \X (1 .. 3) : Interfaces[i].v6up /\ k \in DOMAIN Interfaces[i].addrs}
Entry(e) == Interfaces[e[1]].addrs[e[2]]

\* The entry that ipstack_ifcfg0_v6_static_ip makes of a configured address:
\* its scope gives the length of the prefix.
StaticEntry(text) ==
  LET a == parse_ipv6_addr(text, Unspecified).addr
  IN  [ip |-> a, prefixlen |-> getIPv6AddressScopePrefixLength(getIPv6AddressScope(a)), hoplimit |-> 0]

FirstEntry(S) == CHOOSE e \in S : \A f \in S : e[1] < f[1] \/ (e[1] = f[1] /\ e[2] <= f[2])

ipv6_find_route(dst) ==
  LET matching == {e \in Entries : comparePrefix(dst, Entry(e).ip, Entry(e).prefixlen)}
      router   == First({i \in IfIndex : Interfaces[i].v6up /\ Interfaces[i].router})
      global   == {e \in Entries : /\ getIPv6AddressScope(Entry(e).ip) = "GLOBAL_UNICAST"
                                   /\ router = NoInterface \/ e[1] <= router}
      last     == CHOOSE e \in global : \A f \in global : f[1] < e[1] \/ (f[1] = e[1] /\ f[2] <= e[2])
  IN  IF matching # {} THEN [entry |-> <<Entry(FirstEntry(matching))>>, interface |-> FirstEntry(matching)[1]]
      ELSE [entry |-> IF global = {} THEN <<>> ELSE <<Entry(last)>>, interface |-> router]

\* IPV6::resolveRoute
resolveRoute(s) ==
  LET route == ipv6_find_route(s.dst6) IN
  IF s.dst6[0] = 0 THEN [s EXCEPT !.if6 = NoInterface]
  ELSE IF route.entry = <<>> THEN [s EXCEPT !.if6 = route.interface, !.src6 = Unspecified]
  ELSE [s EXCEPT !.if6 = route.interface, !.src6 = route.entry[1].ip,
                 !.hoplimit = IF route.entry[1].hoplimit # 0 THEN route.entry[1].hoplimit ELSE 255]

\* The application parses a text and sets the destination if that succeeds.
SetDst6(text) ==
  /\ wire = {} /\ buf = NoBuffer
  /\ LET parsed == parse_ipv6_addr(text, Unspecified) IN
     /\ parsed.ok
     /\ sock' = resolveRoute([sock EXCEPT !.ver = 6, !.dst6 = parsed.addr, !.text = text])
  /\ UNCHANGED <<buf, wire, received>>

Bytes(a) == [k \in 1 .. 16 |-> a[k - 1]]

\* IPV4::get_src_addr: the address of the interface, if there is one.
get_src_addr == IF sock.if4 # NoInterface THEN Interfaces[sock.if4].v4 ELSE <<0, 0, 0, 0>>

getUsedInterface == IF sock.ver = 4 THEN sock.if4 ELSE sock.if6

-----------------------------------------------------------------------------
(* The send buffer                                                         *)

getSpecificHeaderSize == IF sock.ver = 4 THEN IPV4_MIN_HEADER_SIZE ELSE IPV6_HEADER_SIZE

getRemainingSize(b) == Len(b.mem) - b.data

\* SendBuffer::createInstance: a block holds whatever it held before.
createInstance(memsize, stale, interface) ==
  [state |-> "Writing", data |-> 0, ip |-> 0, mem |-> [k \in 1 .. memsize |-> stale],
   interface |-> interface, written |-> <<>>]

\* prepareSendBuffer(): the IP header, the next header and the UDP header, each
\* at the data pointer of the new buffer b.
Prepared(b) ==
  LET t       == getSpecificHeaderSize
      memsize == Len(b.mem)
      ip      == IF sock.ver = 4
                   THEN PutBytes(setupHeaderV4(b.mem, memsize, sock.id, get_src_addr, sock.dst4), 9, <<IP_TYPE_UDP>>)
                   ELSE PutBytes(setupHeaderV6(b.mem, memsize, sock.hoplimit, Bytes(sock.src6), Bytes(sock.dst6)),
                                 6, <<IP_TYPE_UDP>>)
  IN  [b EXCEPT !.data = t + UDP_HEADER_SIZE, !.ip = t, !.mem = setupHeaderUDP(ip, t, SPort, DPort, memsize - t)]

\* requestSendBuffer() of an application whose destination has a route: the block,
\* then prepareSendBuffer().  If the link layer address of the next hop is not
\* found, null is returned, and the block lost, behind the IPv4 header with its
\* id; without a block null is returned and nothing changes.
requestSendBuffer(size) ==
  LET memsize == getSpecificHeaderSize + UDP_HEADER_SIZE + size IN
  /\ buf = NoBuffer /\ getUsedInterface # NoInterface /\ sock.requests < MaxRequests
  /\ sock.mempool > 0 /\ memsize <= BLOCKSIZE
  /\ \E found \in BOOLEAN, stale \in StaleBytes :
       /\ buf' = IF found THEN Prepared(createInstance(memsize, stale, getUsedInterface)) ELSE NoBuffer
       /\ sock' = [sock EXCEPT !.id = IF sock.ver = 4 THEN (@ + 1) % 65536 ELSE @, !.mempool = @ - 1,
                               !.requests = IF found THEN @ + 1 ELSE @]
  /\ UNCHANGED <<wire, received>>

\* Mutant: write() does not look at the space that remains.
StoredUncut(bytes) == bytes

\* What write() copies of bytes.
Stored(bytes) == SubSeq(bytes, 1, IF getRemainingSize(buf) < Len(bytes) THEN getRemainingSize(buf) ELSE Len(bytes))

write(bytes) ==
  /\ buf.state = "Writing"
  /\ buf' = [buf EXCEPT !.mem = PutBytes(@, buf.data, Stored(bytes)), !.data = @ + Len(Stored(bytes)),
                        !.written = @ \o Stored(bytes)]
  /\ UNCHANGED <<sock, wire, received>>

\* The checksum aspects before send(): UDP over the bytes written so far,
\* then the IPv4 header.
Checksummed(b) ==
  LET t    == b.ip
      zero == Put16(b.mem, t + 6, 0)
      len  == b.data - t
      sum  == calc_checksum(IF t = IPV4_MIN_HEADER_SIZE THEN PseudoHeaderV4(zero, len) ELSE PseudoHeaderV6(zero, len),
                            SubSeq(zero, t + 1, b.data))
      udp  == Put16(zero, t + 6, sum)
  IN  IF t = IPV4_MIN_HEADER_SIZE THEN computeChecksum(udp) ELSE udp

\* send(): the whole of the buffer goes out, filled or not.
send ==
  /\ buf.state = "Writing"
  /\ buf' = [buf EXCEPT !.state = "Transmitted", !.mem = Checksummed(buf)]
  /\ wire' = wire \cup {[bytes |-> Checksummed(buf), interface |-> buf.interface,
                         filled |-> getRemainingSize(buf) = 0, written |-> buf.written]}
  /\ UNCHANGED <<sock, received>>

\* free() waits until the interface has sent the buffer.
free ==
  /\ buf.state = "Transmitted"
  /\ buf' = NoBuffer /\ sock' = [sock EXCEPT !.mempool = @ + 1]
  /\ UNCHANGED <<wire, received>>

-----------------------------------------------------------------------------
(* The receiving host h                                                    *)

\* The payload copied out: its length is the UDP header's, whatever arrived.
Payload(p, t) ==
  [k \in 1 .. (Get16(p, t + 4) - UDP_HEADER_SIZE) % 65536 |->
     IF t + UDP_HEADER_SIZE + k <= Len(p) THEN p[t + UDP_HEADER_SIZE + k] ELSE -1]

Datagram(p, t, src) == [src |-> src, sport |-> Get16(p, t), dport |-> Get16(p, t + 2), payload |-> Payload(p, t)]

checksum_valid(pseudo, udp) == calc_checksum(pseudo, udp) = 0

\* IPv4_Receive, IPv4_UDP_Rx_Checksumming and IPv4_UDP_Receive: what of the
\* n bytes at the head of the memory p reaches a socket of h, a set of at most
\* one datagram.
ReceiveV4(p, n, h) ==
  LET len == validPacketLengthV4(p, n)
      t   == get_ihl(p) * 4
  IN  IF /\ len > 0 /\ At(p, 0) \div 16 = 4 /\ At(p, 8) # 0 /\ cksum(p) = 0
         /\ SubSeq(p, 17, 20) = h.v4
         /\ At(p, 6) \div 32 # 1 /\ At(p, 6) % 32 = 0 /\ At(p, 7) = 0
         /\ At(p, 9) = IP_TYPE_UDP
         /\ len >= IPV4_MIN_HEADER_SIZE + UDP_HEADER_SIZE /\ len >= t
         /\ Get16(p, t + 6) # 0 => checksum_valid(PseudoHeaderV4(p, len - t), SubSeq(p, t + 1, len))
         /\ Get16(p, t + 2) = h.port
        THEN {Datagram(p, t, SubSeq(p, 13, 16))} ELSE {}

\* IPv6_Receive, ipv6_demux and the UDP aspects over IPv6.  hasIPv6Address()
\* takes every address of the prefix of an entry for the interface's own.
ReceiveV6(p, n, h) ==
  LET len == validPacketLengthV6(p, n)
  IN  IF /\ len > 0 /\ At(p, 0) \div 16 = 6
         /\ comparePrefix([k \in 0 .. 15 |-> p[25 + k]], h.v6, h.prefixlen)
         /\ At(p, 6) = IP_TYPE_UDP
         /\ Get16(p, 46) # 0 => checksum_valid(PseudoHeaderV6(p, len), SubSeq(p, 41, 40 + len))
         /\ len >= UDP_HEADER_SIZE
         /\ Get16(p, 42) = h.port
        THEN {Datagram(p, 40, SubSeq(p, 9, 24))} ELSE {}

\* The Ethernet type chooses the protocol; it does not change on the wire.
Receive(original, p, n, h) ==
  IF At(original, 0) \div 16 = 4 THEN ReceiveV4(p, n, h) ELSE ReceiveV6(p, n, h)

Fill(n, byte) == [k \in 1 .. n |-> byte]

\* Memory behind a frame that the code may read: a length field that is
\* wrong by one bit passes validPacketLength() of IPv6 up to the header size.
InMemory(frame, byte) == frame \o Fill(IPV6_HEADER_SIZE + UDP_HEADER_SIZE, byte)

\* The frame with bit b of byte k inverted.
Flipped(p, k, b) == [p EXCEPT ![k] = @ ^^ (2 ^ b)]

\* A frame arrives at h, padded by n bytes, intact or with one bit inverted.
Deliver(f, h, n) ==
  /\ \E p \in {f.bytes} \cup {Flipped(f.bytes, k, b) : k \in DOMAIN f.bytes, b \in 0 .. 7}, s \in StaleBytes :
       received' = {[host |-> h, dgram |-> d, frame |-> f] :
                      d \in Receive(f.bytes, InMemory(p \o Fill(n, s), s), Len(p) + n, h)}
  /\ wire' = wire \ {f}
  /\ UNCHANGED <<sock, buf>>

Next ==
  \/ \E dst \in Dests4 : SetDst4(dst)
  \/ \E text \in Texts6 : SetDst6(text)
  \/ \E size \in Sizes : requestSendBuffer(size)
  \/ \E bytes \in Chunks : write(bytes)
  \/ send \/ free
  \/ \E f \in wire, h \in Hosts, n \in Padding : Deliver(f, h, n)

Spec == Init /\ [][Next]_vars

-----------------------------------------------------------------------------
(* Properties                                                              *)

\* The socket, the buffer and the frames are well formed, and write() keeps
\* the data pointer inside the block of the SendBuffer.
TypeOK ==
  /\ sock.ver \in {4, 6} /\ sock.mempool \in 0 .. COUNT
  /\ sock.if4 \in IfIndex \cup {NoInterface} /\ sock.if6 \in IfIndex \cup {NoInterface}
  /\ sock.dst4 \in [1 .. 4 -> Byte] /\ sock.dst6 \in IPv6Addr /\ sock.id \in 0 .. 65535
  /\ buf = NoBuffer \/ (buf.mem \in Seq(Byte) /\ buf.data <= Len(buf.mem) /\ Len(buf.mem) <= BLOCKSIZE)
  /\ \A f \in wire : f.bytes \in Seq(Byte) /\ f.interface \in IfIndex

\* Where a buffer was filled and a UDP checksum went out, an application gets
\* the datagram that was sent or nothing: no single bit that the wire inverts,
\* in the IP header, the UDP header or the payload, and no memory behind the
\* frame passes the checks of the receiving aspects.
NoCorruptDelivered ==
  \A r \in received :
    LET sent == r.frame.bytes
        t    == IF At(sent, 0) \div 16 = 4 THEN IPV4_MIN_HEADER_SIZE ELSE IPV6_HEADER_SIZE
    IN  r.frame.filled /\ Get16(sent, t + 6) # 0 => r.dgram \in Receive(sent, sent, Len(sent), r.host)

\* Whatever was in the memory of the block and however the link layer pads the
\* frame, a buffer that was filled reaches the application of the host it is
\* addressed to, with the bytes that were written: every header field that a
\* receiving aspect reads has been set by a sending one.
FilledAccepted ==
  \A f \in wire, h \in Hosts, n \in Padding, s \in StaleBytes :
    LET v4 == At(f.bytes, 0) \div 16 = 4 IN
    /\ f.filled /\ h.port = DPort
    /\ IF v4 THEN SubSeq(f.bytes, 17, 20) = h.v4 ELSE SubSeq(f.bytes, 25, 40) = Bytes(h.v6)
    => \E d \in Receive(f.bytes, InMemory(f.bytes \o Fill(n, s), s), Len(f.bytes) + n, h) :
         d.payload = f.written /\ d.sport = SPort

\* The destination of an IPv6 socket has the whole bytes of an entry's prefix.
SharesBytes(e) == \A k \in 0 .. (Entry(e).prefixlen \div 8) - 1 : sock.dst6[k] = Entry(e).ip[k]

\* Packets leave with an address of the interface they leave by, to a next hop
\* that it reaches directly.  Over IPv4 the next hop, gateway or destination, is
\* a foreign address of the subnet of an interface that is up.  Over IPv6 the
\* destination has the whole bytes of the prefix of the source address, or goes
\* to a router, and to a router only if no prefix of whole bytes contains it.  Of
\* a prefix that ends inside a byte no more holds: contrary to the comment at
\* IPv6AddressUtilities.cpp:230-235 the bits behind its last whole byte are
\* compared under a wrong mask, with 5 such bits under none at all; nor of the
\* prefix of length 0 that a configured global address gets.
NextHopOnLink ==
  /\ sock.if4 # NoInterface =>
       /\ Interfaces[sock.if4].v4up /\ get_nexthop_ipaddr # Interfaces[sock.if4].v4
       /\ SameSubnet(sock.if4, get_nexthop_ipaddr)
  /\ sock.if6 # NoInterface =>
       \/ \E e \in Entries : e[1] = sock.if6 /\ Entry(e).ip = sock.src6 /\ SharesBytes(e)
       \/ /\ Interfaces[sock.if6].router
          /\ sock.src6 = Unspecified \/ getIPv6AddressScope(sock.src6) = "GLOBAL_UNICAST"
          /\ \A e \in Entries : SharesBytes(e) => Entry(e).prefixlen % 8 # 0 \/ Entry(e).prefixlen = 0
  /\ \A f \in wire :
       IF At(f.bytes, 0) \div 16 = 4
         THEN SubSeq(f.bytes, 13, 20) = Interfaces[f.interface].v4 \o sock.dst4
         ELSE /\ SubSeq(f.bytes, 25, 40) = Bytes(sock.dst6)
              /\ \/ SubSeq(f.bytes, 9, 24) = Bytes(Unspecified)
                 \/ \E e \in Entries : e[1] = f.interface /\ SubSeq(f.bytes, 9, 24) = Bytes(Entry(e).ip)

\* The destination is the address the text names, each block a number in base
\* 16 whether or not it has leading zeros, and the text printed for it names
\* the same address.
DestinationAsNamed ==
  sock.text # <<>> =>
    LET value(block) == FoldLeft(LAMBDA acc, c : acc * 16 + numberFromAscii(c), 0, block)
    IN  /\ \A k \in 1 .. 8 : sock.dst6[2 * k - 2] * 256 + sock.dst6[2 * k - 1] = value(sock.text[k])
        /\ parse_ipv6_addr(ipv6_addr_toString(sock.dst6), Unspecified).addr = sock.dst6
=============================================================================
